----------------------------- MODULE SubAgents -----------------------------
(***************************************************************************)
(* The tool calls of a turn that go to the first-party sub-agents:         *)
(* orchestration/sub-agent-dispatcher with its task rows and the admin's   *)
(* switches, and the CRM sub-agent (services/subagents/ghl-crm.service)    *)
(* down to each request of integrations/ghl/client and its retries.  What  *)
(* the other sub-agents do is in Receipts and FollowUp; here they answer.  *)
(***************************************************************************)
EXTENDS Integers, GhlActions

CONSTANTS
  Turns,       \* turns of conversations under way
  MaxCalls,    \* bound: calls of one turn
  Tools,       \* first-party tools
  CrmTool,     \* the CRM among them
  Contacts,    \* of the CRM, by their id
  NoContact,
  Requests,    \* what the model may ask of the CRM tool: the action, the arguments given, the
               \* contact they name, and pairs of a field and the kind of its value
  MaxFaults    \* bound: statements that fail, answers that are lost, crashes

ASSUME SubAgentsAssumption ==
  /\ MaxCalls \in Nat \ {0} /\ MaxFaults \in Nat
  /\ CrmTool \in Tools /\ IsFiniteSet(Contacts) /\ NoContact \notin Contacts
  /\ \A r \in Requests : r.args \subseteq Parameters /\ r.contact \in Contacts \cup {NoContact}

MAX_RETRIES == 2

VARIABLES
  config,    \* which settings of the environment are there: the token, the location
  turn,      \* turns: the switches as they were read, and the call at hand
  call,      \* calls, by turn and position
  faults

vars == <<config, turn, call, faults>>

Calls == Turns \X (1..MaxCalls)

Fault == faults < MaxFaults /\ faults' = faults + 1
NoFault == faults' = faults

-----------------------------------------------------------------------------
(* From a request to the plan of its handler: everything the arguments     *)
(* alone decide.                                                           *)

\* An action the dispatcher does not know becomes a search.
Taken(action) == IF action \in VALID_GHL_ACTIONS THEN action ELSE "search_contact"

Missing(r, h) == \E need \in h.needs : need \cap r.args = {}

\* Fields an update would set: from its own arguments, and from the free-form one
\* (for a location the argument locationUpdates goes before it).
Fields(r, h) ==
  (h.named \cap r.args)
    \cup IF h.updates = "none" \/ "locationUpdates" \in h.named \cap r.args THEN {}
         ELSE {u[1] : u \in r.updates}

Updates(h) == h.named # {} \/ h.updates # "none"

Fillable(r, h) ==
  Updates(h) => /\ Fields(r, h) # {}
                /\ h.updates = "checked" => validateUpdates(r.updates)

\* Of the calls of other tools, and of a handler that answers at once.
NoPlan ==
  [ready |-> TRUE, search |-> FALSE, contact |-> NoContact, fills |-> TRUE, compares |-> FALSE,
   differs |-> FALSE, writes |-> FALSE, located |-> FALSE, entity |-> FALSE, items |-> FALSE]

\* Without a required argument, or with nothing to set, the handler answers at once;
\* one that searches first looks at the updates after that.
Refused(r, h) ==
  LET named == r.contact # NoContact IN
  \/ Missing(r, h)
  \/ h.resolves /\ ~named /\ "query" \notin r.args
  \/ ~Fillable(r, h) /\ (h.resolves => named)

Plan(r) ==
  LET h == executeGhlTask[Taken(r.action)] IN
  IF Refused(r, h) THEN [NoPlan EXCEPT !.ready = FALSE]
  ELSE [ ready |-> TRUE,
         search |-> h.resolves /\ r.contact = NoContact,
         contact |-> IF h.resolves \/ {"contactId"} \in h.needs THEN r.contact ELSE NoContact,
         fills |-> Fillable(r, h),
         compares |-> h.compares,
         differs |-> "tags" \in Fields(r, h),   \* a list is never the one the CRM sent
         writes |-> h.api.method # "GET",
         located |-> h.api.located,
         entity |-> h.api.entity,
         items |-> h.api.items ]

Plans == {Plan(r) : r \in Requests}

-----------------------------------------------------------------------------
NoCall ==
  [pc |-> "unborn", tool |-> CrmTool, plan |-> NoPlan, found |-> {}, target |-> NoContact,
   attempt |-> 0, effects |-> 0, lost |-> 0, task |-> "none", closing |-> FALSE,
   success |-> "none", failure |-> "none", result |-> "none"]

Init ==
  /\ config \in [token : BOOLEAN, location : BOOLEAN]
  /\ turn = [t \in Turns |-> [pc |-> "new", at |-> 0, allowed |-> {}, unread |-> FALSE]]
  /\ call = [c \in Calls |-> NoCall]
  /\ faults = 0

Becomes(c, k) == call' = [call EXCEPT ![c] = k]

\* What a call was to do, and to whom.
Aim(plan) ==
  [NoPlan EXCEPT !.search = plan.search, !.contact = plan.contact, !.writes = plan.writes]

\* The handler returns: the final status of the task row is written behind its back.
\* The aim of the call is kept if something may have come of it.
Ends(k, result) ==
  LET about == k.effects > 0 \/ (result = "completed" /\ k.plan.writes) IN
  [k EXCEPT !.pc = "ended", !.attempt = 0, !.result = result, !.closing = k.task # "none",
            !.plan = IF about THEN Aim(@) ELSE NoPlan,
            !.found = IF about THEN @ ELSE {}, !.target = IF about THEN @ ELSE NoContact]

\* A handler answers without a request to the CRM, or goes on with it.
Proceeds(k) ==
  IF ~k.plan.fills THEN Ends(k, "failed")
  ELSE [k EXCEPT !.pc = IF k.plan.compares THEN "comparing" ELSE "calling", !.attempt = 0]

Starts(k) ==
  IF k.tool # CrmTool THEN [k EXCEPT !.pc = "delegated"]
  ELSE IF ~k.plan.ready THEN Ends(k, "failed")
  ELSE IF k.plan.search THEN [k EXCEPT !.pc = "searching"]
  ELSE Proceeds([k EXCEPT !.target = k.plan.contact, !.found = {k.plan.contact} \ {NoContact}])

-----------------------------------------------------------------------------
(* The dispatcher.                                                         *)

\* However the admin left the switches; what was never set is on.
StoredSettings == SUBSET Tools

isFirstPartyToolEnabled(t, tool) == tool \in turn[t].allowed

\* They are read once for all calls of a turn; unread, they count as on.
ReadSettings(t) ==
  /\ turn[t].pc = "new"
  /\ \/ /\ \E enabled \in StoredSettings :
             turn' = [turn EXCEPT ![t].pc = "ready", ![t].allowed = enabled]
        /\ NoFault
     \/ turn' = [turn EXCEPT ![t].pc = "ready", ![t].allowed = Tools, ![t].unread = TRUE] /\ Fault
  /\ UNCHANGED <<config, call>>

\* The call at hand has returned; the next begins.
Between(t) ==
  turn[t].pc = "ready" /\ (turn[t].at > 0 => call[<<t, turn[t].at>>].pc = "ended")

Dispatch(t, tool, plan) ==
  LET c == <<t, turn[t].at + 1>>
      k == [NoCall EXCEPT !.tool = tool, !.plan = plan]
  IN
  /\ Between(t) /\ turn[t].at < MaxCalls
  /\ turn' = [turn EXCEPT ![t].at = @ + 1]
  /\ Becomes(c, IF isFirstPartyToolEnabled(t, tool) THEN [k EXCEPT !.pc = "recording"]
                ELSE Ends(k, "failed"))
  /\ UNCHANGED <<config, faults>>

EndTurn(t) ==
  /\ Between(t)
  /\ turn' = [turn EXCEPT ![t].pc = "over"]
  /\ UNCHANGED <<config, call, faults>>

\* Two statements: the row, queued, and its status running.  Without the row the
\* call goes on, with no status to write.
CreateTask(c) ==
  LET k == call[c] IN
  /\ k.pc = "recording"
  /\ \/ Becomes(c, [k EXCEPT !.pc = "marking", !.task = "queued"]) /\ NoFault
     \/ Becomes(c, Starts(k)) /\ Fault
  /\ UNCHANGED <<config, turn>>

MarkRunning(c) ==
  LET k == call[c] IN
  /\ k.pc = "marking"
  /\ \/ Becomes(c, Starts([k EXCEPT !.task = "running"])) /\ NoFault
     \/ Becomes(c, Starts(k)) /\ Fault
  /\ UNCHANGED <<config, turn>>

\* Another sub-agent answers.
Delegated(c, result) ==
  /\ call[c].pc = "delegated"
  /\ Becomes(c, Ends(call[c], result))
  /\ UNCHANGED <<config, turn, faults>>

-----------------------------------------------------------------------------
(* Requests to the CRM.                                                    *)

Requesting == {"searching", "comparing", "calling"}
Writes(k) == k.pc = "calling" /\ k.plan.writes

Located(k) ==
  CASE k.pc = "searching" -> searchContacts.located
    [] k.pc = "comparing" -> getContact.located
    [] OTHER -> k.plan.located

Reachable(k) == config.token /\ (Located(k) => config.location)

Unconfigured(c) ==
  /\ call[c].pc \in Requesting /\ ~Reachable(call[c])
  /\ Becomes(c, [call[c] EXCEPT !.pc = "reporting"])
  /\ UNCHANGED <<config, turn, faults>>

\* The only contact found is the one meant; with none or several nothing is written,
\* and the answer asks which.  Found are those the CRM counts: if it counts one, it lists
\* that one, with an id or without, or none.
MSingle(found) == found # {}
Single(found) == Cardinality(found) = 1

Found(c, found) == \E id \in found \cup {NoContact} :
  LET k == [call[c] EXCEPT !.found = found] IN
  /\ k.pc = "searching" /\ Reachable(k)
  /\ Becomes(c, IF Single(found) /\ id # NoContact THEN Proceeds([k EXCEPT !.target = id])
                ELSE Ends(k, "failed"))
  /\ UNCHANGED <<config, turn, faults>>

\* What the contact holds is the CRM's business: the values may all be the same.
Compared(c, same) ==
  LET k == call[c] IN
  /\ k.pc = "comparing" /\ Reachable(k)
  /\ same => ~k.plan.differs
  /\ Becomes(c, IF same THEN Ends(k, "completed") ELSE [k EXCEPT !.pc = "calling", !.attempt = 0])
  /\ UNCHANGED <<config, turn, faults>>

\* The contact to compare with is not there: the only error that is not logged.
NotFound(c) ==
  /\ call[c].pc = "comparing" /\ Reachable(call[c])
  /\ Becomes(c, Ends(call[c], "failed"))
  /\ UNCHANGED <<config, turn, faults>>

Done(k) == IF Writes(k) THEN [k EXCEPT !.effects = @ + 1] ELSE k
DoneUnseen(k) == IF Writes(k) THEN [k EXCEPT !.effects = @ + 1, !.lost = @ + 1] ELSE k

\* The entry of success in the action log is written behind the answer.
Answered(c) ==
  LET k == call[c] IN
  /\ k.pc = "calling" /\ Reachable(k)
  /\ Becomes(c, [Ends(Done(k), "completed") EXCEPT !.success = "writing"])
  /\ UNCHANGED <<config, turn, faults>>

\* That entry is under way when the handler fails to put the answer into words: one
\* contact counted and none listed, a note without its body.
Unreadable(c) ==
  LET k == call[c] IN
  /\ k.pc = "calling" /\ k.plan.items /\ Reachable(k)
  /\ Becomes(c, [Done(k) EXCEPT !.pc = "reporting", !.success = "writing"])
  /\ UNCHANGED <<config, turn, faults>>

\* The request was carried out but its answer lacks what the code reads from it.
Unusable(c) ==
  LET k == call[c] IN
  /\ k.pc = "calling" /\ k.plan.entity /\ Reachable(k) /\ Fault
  /\ Becomes(c, [DoneUnseen(k) EXCEPT !.pc = "reporting"])
  /\ UNCHANGED <<config, turn>>

\* A 4xx answer but 429 is not tried again.
Rejected(c) ==
  /\ call[c].pc \in Requesting /\ Reachable(call[c])
  /\ Becomes(c, [call[c] EXCEPT !.pc = "reporting"])
  /\ UNCHANGED <<config, turn, faults>>

MRetriesOnceMore(k) ==
  IF k.attempt <= MAX_RETRIES THEN [k EXCEPT !.attempt = @ + 1]
  ELSE [k EXCEPT !.pc = "reporting"]

MRetries(k) ==
  IF k.attempt < MAX_RETRIES THEN [k EXCEPT !.attempt = @ + 1]
  ELSE [Ends(k, "completed") EXCEPT !.success = "writing"]

Retries(k) ==
  IF k.attempt < MAX_RETRIES THEN [k EXCEPT !.attempt = @ + 1]
  ELSE [k EXCEPT !.pc = "reporting"]

\* A 429 or 5xx answer, no connection, or no answer in time, of a request that was
\* not carried out.
Unanswered(c) ==
  /\ call[c].pc \in Requesting /\ Reachable(call[c])
  /\ Becomes(c, Retries(call[c]))
  /\ UNCHANGED <<config, turn, faults>>

\* The same of one that was, or an answer that is no JSON text.
AnswerLost(c) ==
  /\ Writes(call[c]) /\ Reachable(call[c]) /\ Fault
  /\ Becomes(c, Retries(DoneUnseen(call[c])))
  /\ UNCHANGED <<config, turn>>

\* handleGhlError waits for its entry in the log, and answers without it too.
ReportError(c) ==
  LET k == Ends(call[c], "failed") IN
  /\ call[c].pc = "reporting"
  /\ \/ Becomes(c, [k EXCEPT !.failure = "written"]) /\ NoFault
     \/ Becomes(c, [k EXCEPT !.failure = "missing"]) /\ Fault
  /\ UNCHANGED <<config, turn>>

-----------------------------------------------------------------------------
(* Statements nobody waits for, and the end of the process.                *)

CloseTask(c) ==
  LET k == call[c] IN
  /\ k.closing
  /\ \/ Becomes(c, [k EXCEPT !.closing = FALSE, !.task = k.result]) /\ NoFault
     \/ Becomes(c, [k EXCEPT !.closing = FALSE]) /\ Fault
  /\ UNCHANGED <<config, turn>>

WriteLog(c) ==
  LET k == call[c] IN
  /\ k.success = "writing"
  /\ \/ Becomes(c, [k EXCEPT !.success = "written"]) /\ NoFault
     \/ Becomes(c, [k EXCEPT !.success = "missing"]) /\ Fault
  /\ UNCHANGED <<config, turn>>

\* Nothing takes up a call or a row that the process leaves behind.
Crash ==
  /\ Fault
  /\ turn' = [t \in Turns |-> [turn[t] EXCEPT !.pc = "over"]]
  /\ call' = [c \in Calls |->
       [call[c] EXCEPT !.pc = IF @ \in {"unborn", "ended"} THEN @ ELSE "dead",
                       !.closing = FALSE,
                       !.success = IF @ = "writing" THEN "missing" ELSE @]]
  /\ UNCHANGED <<config>>

CrmStep(c) ==
  \/ Unconfigured(c) \/ NotFound(c) \/ Answered(c) \/ Unreadable(c) \/ Unusable(c)
  \/ Rejected(c) \/ Unanswered(c) \/ AnswerLost(c) \/ ReportError(c)
  \/ \E found \in SUBSET Contacts : Found(c, found)
  \/ \E same \in BOOLEAN : Compared(c, same)

Next ==
  \/ \E t \in Turns :
       \/ ReadSettings(t) \/ EndTurn(t)
       \/ \E plan \in Plans : Dispatch(t, CrmTool, plan)
       \/ \E tool \in Tools \ {CrmTool} : Dispatch(t, tool, NoPlan)
  \/ \E c \in Calls :
       \/ CreateTask(c) \/ MarkRunning(c) \/ CrmStep(c)
       \/ \E result \in {"completed", "failed"} : Delegated(c, result)
       \/ CloseTask(c) \/ WriteLog(c)
  \/ Crash

Spec == Init /\ [][Next]_vars

-----------------------------------------------------------------------------
(* Correctness.                                                            *)

Pc == {"unborn", "recording", "marking", "delegated", "reporting", "ended", "dead"} \cup Requesting
Result == {"none", "completed", "failed"}

TypeOK ==
  /\ config \in [token : BOOLEAN, location : BOOLEAN]
  /\ turn \in [Turns -> [pc : {"new", "ready", "over"}, at : 0..MaxCalls,
                         allowed : SUBSET Tools, unread : BOOLEAN]]
  /\ call \in [Calls -> [pc : Pc, tool : Tools,
                         plan : Plans \cup {NoPlan} \cup {Aim(p) : p \in Plans},
                         found : SUBSET Contacts, target : Contacts \cup {NoContact},
                         attempt : 0..MAX_RETRIES, effects : 0..MAX_RETRIES + 1,
                         lost : 0..MAX_RETRIES + 1,
                         task : Result \cup {"queued", "running"}, closing : BOOLEAN,
                         success : {"none", "writing", "written", "missing"},
                         failure : {"none", "written", "missing"},
                         result : Result]]
  /\ faults \in 0..MaxFaults

\* Safeguards of the CRM sub-agent and of the switches: something is written to the CRM
\* only for a tool that was on when its turn read the switches, or that nobody could
\* tell to be off, and what concerns a contact only to the one the call names or the
\* only one its query finds.
WritesAreMeant == \A c \in Calls : call[c].effects > 0 =>
  /\ turn[c[1]].unread \/ call[c].tool \in turn[c[1]].allowed
  /\ call[c].plan.search \/ call[c].plan.contact # NoContact => call[c].found = {call[c].target}

\* However requests are retried, answers and statements lost, and the process dies:
\* what a call is told to have done took effect exactly once, what is told to have
\* failed not at all, but for one more time per answer that was lost; the action log
\* and the task row do not say otherwise, except that the log may hold a success of a
\* call that only read and could not put the answer into words: then it is told of the
\* failure too.
ToldTheTruth == \A c \in Calls : LET k == call[c] IN
  /\ k.result = "completed" /\ k.tool = CrmTool => k.effects - k.lost =
       IF k.plan.writes /\ k.success # "none" THEN 1 ELSE 0
  /\ k.result # "completed" => k.effects = k.lost
  /\ k.success # "none" /\ k.result # "completed" =>
       k.effects = 0 /\ (k.pc \in {"reporting", "dead"} \/ k.failure # "none")
  /\ k.failure # "none" => k.result = "failed"
  /\ k.task \in {"completed", "failed"} => k.task = k.result

=============================================================================
