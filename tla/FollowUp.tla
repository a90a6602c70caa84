------------------------------ MODULE FollowUp ------------------------------
(***************************************************************************)
(* The follow-up sub-agent (services/subagents/followup and                *)
(* followup-recommendation.repository.ts): drafts of follow-up messages to *)
(* one contact, which a user approves, and so sends, or dismisses.         *)
(*                                                                         *)
(* A call is one tool call; calls of different events interleave at every  *)
(* await, and every status is written without looking at the one before.   *)
(* Any request may fail, applied or not, and ends the call: so does a      *)
(* crash.  find_stale and list_pending only read.  All drafts fall within  *)
(* the 24 hours that findDuplicateRecommendation looks back.               *)
(***************************************************************************)
EXTENDS Naturals

CONSTANTS
  Calls,     \* tool calls, each made once (a bound)
  Recs,      \* recommendations
  None,      \* no recommendation yet
  MaxFaults  \* bound: failed requests

ASSUME FollowUpAssumption == None \notin Recs /\ MaxFaults \in Nat

VARIABLES
  status,    \* FollowUpRecommendation.status; "none" without a row
  custom,    \* the recommendations stored with reason "custom"
  messages,  \* message[c]: status of the outbound Message an approval created
  delivered, \* delivered[r]: times its text was sent
  pc, target, context,  \* a call: its next request, its recommendation, the
             \* context a draft is asked for with
  overlapped,  \* history: the recommendations two calls have worked on at once
  unseen,    \* history: the calls that began a draft while another was made, and
             \* the recommendations they created, or that have an empty context
  faults

rows == <<status, custom, messages, delivered>>
work == <<target, context, overlapped, unseen>>
vars == <<rows, pc, work, faults>>

Statuses  == {"none", "draft", "pending_review", "approved", "sent", "dismissed"}
Approving == {"creating", "approving", "sending", "settling", "marking"}
FollowUpPc == {"idle", "drafting", "publishing", "dismissing", "unsent", "ok", "failed"} \cup Approving

Ended(c) == pc[c] \in {"ok", "failed"}
Busy(c, r) == target[c] = r /\ pc[c] # "idle" /\ ~Ended(c)
Goes(c, to) == pc' = [pc EXCEPT ![c] = to]

Begins(c, r, to) ==
  /\ pc[c] = "idle"
  /\ Goes(c, to)
  /\ target' = [target EXCEPT ![c] = r]
  /\ overlapped' = IF r # None /\ \E b \in Calls : Busy(b, r) THEN overlapped \cup {r} ELSE overlapped
  /\ UNCHANGED <<rows, faults>>

-----------------------------------------------------------------------------
Init ==
  /\ status = [r \in Recs |-> "none"]
  /\ custom = {}
  /\ messages = [c \in Calls |-> "none"]
  /\ delivered = [r \in Recs |-> 0]
  /\ pc = [c \in Calls |-> "idle"]
  /\ target = [c \in Calls |-> None]
  /\ context = [c \in Calls |-> "absent"]
  /\ overlapped = {} /\ unseen = {}
  /\ faults = 0

Active(r) == status[r] \in {"draft", "pending_review", "approved"}

\* The context is any text, or absent.  The look-up takes it for the reason whenever
\* there is one, an empty one too; the row says "custom" of those that are not empty.
Contexts == {"absent", "", "no_reply", "custom", "other"}
Wanted(why) == IF why = "absent" THEN "no_reply" ELSE why
Stored(why) == IF why \in {"absent", ""} THEN "no_reply" ELSE "custom"

ReasonOf(r) == IF r \in custom THEN "custom" ELSE "no_reply"

MDuplicateIgnoresApproved(why) ==
  \E r \in Recs : status[r] \in {"draft", "pending_review"} /\ ReasonOf(r) = Wanted(why)

\* findDuplicateRecommendation.
Duplicate(why) == \E r \in Recs : Active(r) /\ ReasonOf(r) = Wanted(why)

Drafting(c) == pc[c] = "drafting" /\ context[c] = "absent"

LookUp(c, why) ==
  /\ IF Duplicate(why) THEN Begins(c, None, "ok") ELSE Begins(c, None, "drafting")
  /\ context' = [context EXCEPT ![c] = why]
  /\ unseen' = IF \E b \in Calls : Drafting(b) THEN unseen \cup {c} ELSE unseen

\* Mutants (M...): the definition that follows, with a plausible bug.
MReadIgnoresDismissed(c, r) ==
  /\ status[r] # "none"
  /\ \/ status[r] = "sent" /\ Begins(c, r, "ok")
     \/ status[r] # "sent" /\ Begins(c, r, "creating")
  /\ UNCHANGED <<context, unseen>>

MReadIgnoresSent(c, r) ==
  /\ status[r] # "none"
  /\ \/ status[r] = "dismissed" /\ Begins(c, r, "failed")
     \/ status[r] # "dismissed" /\ Begins(c, r, "creating")
  /\ UNCHANGED <<context, unseen>>

\* approve_send reads the recommendation, whether or not it was approved before;
\* without a conversation or a channel it cannot be sent.
ReadToApprove(c, r) ==
  /\ status[r] # "none"
  /\ \/ status[r] = "sent" /\ Begins(c, r, "ok")
     \/ status[r] = "dismissed" /\ Begins(c, r, "failed")
     \/ Active(r) /\ \E to \in {"creating", "failed"} : Begins(c, r, to)
  /\ UNCHANGED <<context, unseen>>

\* Dismissing is refused to no status but dismissed, which is reported as done.
ReadToDismiss(c, r) ==
  /\ status[r] # "none"
  /\ IF status[r] = "dismissed" THEN Begins(c, r, "ok") ELSE Begins(c, r, "dismissing")
  /\ UNCHANGED <<context, unseen>>

-----------------------------------------------------------------------------
(* The requests of a call under way: what each writes, and what follows.   *)

\* The row is created once the model has answered; it is a fresh one.
Create(c, r) ==
  /\ pc[c] = "drafting" /\ status[r] = "none"
  /\ status' = [status EXCEPT ![r] = "draft"]
  /\ custom' = IF Stored(context[c]) = "custom" THEN custom \cup {r} ELSE custom
  /\ UNCHANGED <<messages, delivered>>

\* updateStatus(id, s), unconditional, in draft, approve and dismiss.
NextStatus == [publishing |-> "pending_review", approving |-> "approved",
               marking |-> "sent", dismissing |-> "dismissed"]

UpdateStatus(c) ==
  /\ pc[c] \in DOMAIN NextStatus
  /\ status' = [status EXCEPT ![target[c]] = NextStatus[pc[c]]]
  /\ UNCHANGED <<custom, messages, delivered>>

CreateMessage(c) ==
  /\ pc[c] = "creating"
  /\ messages' = [messages EXCEPT ![c] = "pending"]
  /\ UNCHANGED <<status, custom, delivered>>

Send(c) ==
  /\ pc[c] = "sending"
  /\ delivered' = [delivered EXCEPT ![target[c]] = @ + 1]
  /\ UNCHANGED <<status, custom, messages>>

\* The message is set to sent or failed by the delivery, and again by approve_send.
SettleMessage(c) ==
  /\ pc[c] \in {"settling", "unsent"}
  /\ messages' = [messages EXCEPT ![c] = IF pc[c] = "settling" THEN "sent" ELSE "failed"]
  /\ UNCHANGED <<status, custom, delivered>>

-----------------------------------------------------------------------------
Fault == faults < MaxFaults /\ faults' = faults + 1

\* Who created it is remembered of a recommendation that others could not find.
Remembers(c, r) ==
  unseen' = IF c \in unseen \/ context[c] = "" THEN unseen \cup {r} ELSE unseen

Created(c) == \E r \in Recs :
  /\ Create(c, r) /\ Goes(c, "publishing") /\ Remembers(c, r)
  /\ target' = [target EXCEPT ![c] = r]
  /\ UNCHANGED <<context, overlapped, faults>>

AfterUpdate == [publishing |-> "ok", approving |-> "sending", marking |-> "ok", dismissing |-> "ok"]

Updated(c) ==
  /\ UpdateStatus(c) /\ Goes(c, AfterUpdate[pc[c]])
  /\ UNCHANGED <<work, faults>>

MessageCreated(c) ==
  /\ CreateMessage(c) /\ Goes(c, "approving")
  /\ UNCHANGED <<work, faults>>

Sent(c) ==
  /\ Send(c) /\ Goes(c, "settling")
  /\ UNCHANGED <<work, faults>>

MNotSent(c) ==
  /\ pc[c] = "sending" /\ Goes(c, "settling")
  /\ UNCHANGED <<rows, work, faults>>

\* The channel refuses the message, or has no thread or chat to send it to.
NotSent(c) ==
  /\ pc[c] = "sending" /\ Goes(c, "unsent")
  /\ UNCHANGED <<rows, work, faults>>

\* The channel took it and reported an error; its client repeats the request, or
\* gives up and the delivery counts as failed.
SentUnseen(c) ==
  /\ Send(c) /\ Fault
  /\ \E to \in {"sending", "unsent"} : Goes(c, to)
  /\ UNCHANGED work

\* The status of the message is written at best: an error is only logged.
MessageSettled(c) ==
  /\ \/ SettleMessage(c) /\ UNCHANGED faults
     \/ pc[c] \in {"settling", "unsent"} /\ UNCHANGED rows /\ Fault
  /\ Goes(c, IF pc[c] = "settling" THEN "marking" ELSE "failed")
  /\ UNCHANGED work

\* Any other request fails, or the server dies: the write took effect or not.
Fails(c) ==
  /\ pc[c] # "idle" /\ ~Ended(c)
  /\ \/ \E r \in Recs : Create(c, r) /\ Remembers(c, r)
     \/ /\ \/ UNCHANGED rows
           \/ UpdateStatus(c)
           \/ CreateMessage(c)
           \/ Send(c)
           \/ SettleMessage(c)
        /\ UNCHANGED unseen
  /\ Fault
  /\ Goes(c, "failed")
  /\ UNCHANGED <<target, context, overlapped>>

Next == \E c \in Calls :
  \/ \E why \in Contexts : LookUp(c, why)
  \/ \E r \in Recs : ReadToApprove(c, r) \/ ReadToDismiss(c, r)
  \/ Created(c) \/ Updated(c) \/ MessageCreated(c)
  \/ Sent(c) \/ NotSent(c) \/ SentUnseen(c) \/ MessageSettled(c)
  \/ Fails(c)

Spec == Init /\ [][Next]_vars

-----------------------------------------------------------------------------
(* Correctness.                                                            *)

TypeOK ==
  /\ status \in [Recs -> Statuses]
  /\ custom \subseteq Recs
  /\ messages \in [Calls -> {"none", "pending", "sent", "failed"}]
  /\ delivered \in [Recs -> Nat]
  /\ pc \in [Calls -> FollowUpPc]
  /\ target \in [Calls -> Recs \cup {None}]
  /\ context \in [Calls -> Contexts]
  /\ overlapped \subseteq Recs /\ unseen \subseteq Recs \cup Calls
  /\ faults \in 0..MaxFaults

Settled(r) == status[r] \in {"sent", "dismissed"}
Quiet(r) == \A c \in Calls : Busy(c, r) => pc[c] = "dismissing"

\* Once a recommendation is sent or dismissed and no approval or draft of it is
\* under way, it is never sent again, nor does it come back for approval.
SettledForGood ==
  [][\A r \in Recs : Settled(r) /\ Quiet(r) =>
       (Settled(r) /\ Quiet(r))' /\ delivered'[r] = delivered[r]]_vars

\* Unless two calls have worked on it at once, a follow-up is delivered once and once
\* more per failed request: approving it again repeats only what failed.
DeliveredOnceApart == \A r \in Recs \ overlapped : delivered[r] <= 1 + faults

\* What counts as sent was delivered, in the recommendation, in the message and
\* in the answer to the user, whatever fails and however calls overlap.
SentWasDelivered ==
  /\ \A r \in Recs : status[r] = "sent" => delivered[r] > 0
  /\ \A c \in Calls : messages[c] = "sent" => delivered[target[c]] > 0
  /\ \A c \in Calls : pc[c] = "ok" /\ messages[c] # "none" => delivered[target[c]] > 0

\* There is one recommendation without a context to act on, and one more at most per
\* draft that began while another was made, per empty context, which is looked for under
\* another reason than it is stored with, and per recommendation that overlapping calls
\* brought back: what is drafted after all of that has ended finds the one there is.
OneToActOnApart ==
  \A q, r \in Recs \ (overlapped \cup unseen \cup custom) : Active(q) /\ Active(r) => q = r

=============================================================================
