--------------------------- MODULE SubAgents_proofs ---------------------------
(***************************************************************************)
(* Machine-checked proofs about SubAgents, for any turns, calls, tools,    *)
(* contacts and requests, and any number of faults.  Of the handlers of    *)
(* GhlActions one thing is looked into: that those whose summary may fail  *)
(* only read.  Nothing here depends on what else they require.             *)
(***************************************************************************)
EXTENDS SubAgents, FiniteSetTheorems, TLAPS

USE SubAgentsAssumption DEF SubAgentsAssumption

PlanSet == Plans \cup {NoPlan} \cup {Aim(p) : p \in Plans}

Call ==
  [pc : Pc, tool : Tools, plan : PlanSet, found : SUBSET Contacts,
   target : Contacts \cup {NoContact}, attempt : 0..MAX_RETRIES, effects : 0..MAX_RETRIES + 1,
   lost : 0..MAX_RETRIES + 1, task : Result \cup {"queued", "running"}, closing : BOOLEAN,
   success : {"none", "writing", "written", "missing"}, failure : {"none", "written", "missing"},
   result : Result]

-----------------------------------------------------------------------------
(* The inductive invariant.                                                *)

\* What concerns a contact goes to the one named or the only one found.
Aimed(k) == k.plan.search \/ k.plan.contact # NoContact => k.found = {k.target}

AimedBeforeWriting(k) == k.pc \in {"comparing", "calling"} \/ k.effects > 0 => Aimed(k)

Before == {"unborn", "recording", "marking", "delegated", "searching", "comparing"}

\* A request is carried out at most once per attempt, and a success that is seen ends it.
Counted(k) ==
  /\ k.pc \in Before => k.effects = 0
  /\ k.pc = "calling" => k.effects <= k.attempt
  /\ k.result # "completed" => k.effects = k.lost
  /\ k.effects > 0 => k.plan.writes

\* A call has no result, no error in the log and no final status of its row before its end,
\* and a success in the log only once the handler has its answer.
Staged(k) ==
  /\ k.pc = "ended" <=> k.result # "none"
  /\ k.pc # "ended" => /\ ~k.closing /\ k.failure = "none"
                       /\ k.task \in {"none", "queued", "running"}
                       /\ k.plan \in Plans \cup {NoPlan}
  /\ k.pc \notin {"ended", "reporting", "dead"} => k.success = "none"
  /\ k.pc = "delegated" => k.tool # CrmTool

\* What it is told, as ToldTheTruth has it.
Told(k) ==
  /\ k.result = "completed" /\ k.tool = CrmTool => k.effects - k.lost =
       IF k.plan.writes /\ k.success # "none" THEN 1 ELSE 0
  /\ k.success # "none" /\ k.result # "completed" =>
       k.effects = 0 /\ (k.pc \in {"reporting", "dead"} \/ k.failure # "none")
  /\ k.failure # "none" => k.result = "failed"
  /\ k.task \in {"completed", "failed"} => k.task = k.result

Sound(k) == k \in Call /\ AimedBeforeWriting(k) /\ Counted(k) /\ Staged(k) /\ Told(k)

\* A call that does something, or has: its tool was on.
Acts(k) == k.pc \notin {"unborn", "ended", "dead"} \/ k.effects > 0

TurnType == [pc : {"new", "ready", "over"}, at : 0..MaxCalls, allowed : SUBSET Tools,
             unread : BOOLEAN]

Switched == \A c \in Calls :
  Acts(call[c]) => turn[c[1]].unread \/ call[c].tool \in turn[c[1]].allowed

\* No call before the switches are read.
Unborn == \A c \in Calls : turn[c[1]].pc = "new" => call[c].pc = "unborn"

IndInv ==
  /\ config \in [token : BOOLEAN, location : BOOLEAN]
  /\ turn \in [Turns -> TurnType]
  /\ call \in [Calls -> Call]
  /\ faults \in 0..MaxFaults
  /\ \A c \in Calls : Sound(call[c])
  /\ Switched
  /\ Unborn

-----------------------------------------------------------------------------
(* Plans.                                                                  *)

\* The contact of a plan is one, or none.
LEMMA PlanContact ==
  ASSUME NEW p \in Plans \cup {NoPlan}
  PROVE  p.contact \in Contacts \cup {NoContact}
<1>1. CASE p = NoPlan
  BY <1>1 DEF NoPlan
<1>2. CASE p \in Plans
  <2>1. PICK r \in Requests : p = Plan(r)
    BY <1>2 DEF Plans
  <2>2. r.contact \in Contacts \cup {NoContact}
    OBVIOUS
  <2> DEFINE h == executeGhlTask[Taken(r.action)]
             named == h.resolves \/ {"contactId"} \in h.needs
  <2>3. Plan(r).contact = NoContact \/ Plan(r).contact = r.contact
    <3>1. CASE Refused(r, h)
      BY <3>1 DEF Plan, NoPlan
    <3>2. CASE ~Refused(r, h)
      <4>1. Plan(r).contact = IF named THEN r.contact ELSE NoContact
        BY <3>2 DEF Plan
      <4> QED
        BY <4>1
    <3> QED
      BY <3>1, <3>2
  <2> QED
    BY <2>1, <2>2, <2>3
<1> QED
  BY <1>1, <1>2

\* A handler whose summary may fail only reads.
OnlyReads(h) == h.api.items => h.api.method = "GET"

\* So do all of them: every write reads what it needs of the answer before the log is told.
LEMMA SummariesOnlyRead ==
  ASSUME NEW a \in OfferedActions
  PROVE  OnlyReads(executeGhlTask[a])
<1> USE DEF OnlyReads, Handler, Resolving, Updating, Wrapper, ListingOf, Listing, Reading, Sending,
            Deleting
<1>1. /\ OnlyReads(handleSearchContact) /\ OnlyReads(handleGetContact)
      /\ OnlyReads(handleUpdateContact) /\ OnlyReads(handleCreateContact)
      /\ OnlyReads(handleGetPipelines)
  BY DEF handleSearchContact, handleGetContact, handleUpdateContact, handleCreateContact,
         handleGetPipelines, createContact, getContact, getPipelines, searchContacts,
         updateContact
<1>2. /\ OnlyReads(handleCreateOpportunity) /\ OnlyReads(handleGetOpportunity)
      /\ OnlyReads(handleUpdateOpportunity) /\ OnlyReads(handleSearchOpportunities)
      /\ OnlyReads(handleDeleteOpportunity)
  BY DEF handleCreateOpportunity, handleGetOpportunity, handleUpdateOpportunity,
         handleSearchOpportunities, handleDeleteOpportunity, createOpportunity, deleteOpportunity,
         getOpportunity, searchOpportunities, updateOpportunity
<1>3. /\ OnlyReads(handleAddNote) /\ OnlyReads(handleListNotes)
      /\ OnlyReads(handleGetNote) /\ OnlyReads(handleUpdateNote)
      /\ OnlyReads(handleDeleteNote)
  BY DEF handleAddNote, handleListNotes, handleGetNote, handleUpdateNote, handleDeleteNote,
         addNote, deleteNote, getNote, listNotes, updateNote
<1>4. /\ OnlyReads(handleSendSms) /\ OnlyReads(handleSendEmail)
      /\ OnlyReads(handleListConversations) /\ OnlyReads(handleGetConversation)
      /\ OnlyReads(handleUpdateConversation)
  BY DEF handleSendSms, handleSendEmail, handleListConversations, handleGetConversation,
         handleUpdateConversation, getConversation, listConversations, sendEmail, sendSms,
         updateConversation
<1>5. /\ OnlyReads(handleListConversationMessages) /\ OnlyReads(handleListCalendars)
      /\ OnlyReads(handleGetFreeSlots) /\ OnlyReads(handleCreateAppointment)
      /\ OnlyReads(handleGetAppointment)
  BY DEF handleListConversationMessages, handleListCalendars, handleGetFreeSlots,
         handleCreateAppointment, handleGetAppointment, createAppointment, getAppointment,
         getFreeSlots, listCalendars, listConversationMessages
<1>6. /\ OnlyReads(handleUpdateCalendarEvent) /\ OnlyReads(handleDeleteCalendarEvent)
      /\ OnlyReads(handleListContactAppointments) /\ OnlyReads(handleListUsers)
      /\ OnlyReads(handleGetLocation)
  BY DEF handleUpdateCalendarEvent, handleDeleteCalendarEvent, handleListContactAppointments,
         handleListUsers, handleGetLocation, deleteCalendarEvent, getLocation,
         listContactAppointments, listUsers, updateAppointment
<1>7. /\ OnlyReads(handleUpdateLocation) /\ OnlyReads(handleListReviews)
      /\ OnlyReads(handleCreateInvoice) /\ OnlyReads(handleGetInvoice)
      /\ OnlyReads(handleListInvoices)
  BY DEF handleUpdateLocation, handleListReviews, handleCreateInvoice, handleGetInvoice,
         handleListInvoices, createInvoice, getInvoice, listInvoices, listReviews, updateLocation
<1>8. /\ OnlyReads(handleSendInvoice) /\ OnlyReads(handleUpdateInvoice)
      /\ OnlyReads(handleListOrders) /\ OnlyReads(handleGetOrder)
      /\ OnlyReads(handleListCampaigns)
  BY DEF handleSendInvoice, handleUpdateInvoice, handleListOrders, handleGetOrder,
         handleListCampaigns, getOrder, listCampaigns, listOrders, sendInvoice, updateInvoice
<1>9. /\ OnlyReads(handleListWorkflows) /\ OnlyReads(handleTriggerWorkflow)
      /\ OnlyReads(handleListForms) /\ OnlyReads(handleGetFormSubmissions)
      /\ OnlyReads(handleListSurveys)
  BY DEF handleListWorkflows, handleTriggerWorkflow, handleListForms, handleGetFormSubmissions,
         handleListSurveys, getFormSubmissions, listForms, listSurveys, listWorkflows,
         triggerWorkflow
<1>10. /\ OnlyReads(handleGetSurveySubmissions) /\ OnlyReads(handleCreateTask)
       /\ OnlyReads(handleListTasks) /\ OnlyReads(handleGetTask)
       /\ OnlyReads(handleUpdateTask)
  BY DEF handleGetSurveySubmissions, handleCreateTask, handleListTasks, handleGetTask,
         handleUpdateTask, createTask, getSurveySubmissions, getTask, listTasks, updateTask
<1>11. /\ OnlyReads(handleDeleteTask)
  BY DEF handleDeleteTask, deleteTask
<1> HIDE DEF OnlyReads, Handler, Resolving, Updating, Wrapper, ListingOf, Listing, Reading, Sending,
             Deleting
<1> QED
  BY <1>1, <1>2, <1>3, <1>4, <1>5, <1>6, <1>7, <1>8, <1>9, <1>10, <1>11
     DEF executeGhlTask, OfferedActions

\* A plan whose summary may fail writes nothing.
LEMMA PlanItems ==
  ASSUME NEW p \in Plans \cup {NoPlan}, p.items
  PROVE  ~p.writes
<1>1. CASE p = NoPlan
  BY <1>1 DEF NoPlan
<1>2. CASE p \in Plans
  <2>1. PICK r \in Requests : p = Plan(r)
    BY <1>2 DEF Plans
  <2>2. Taken(r.action) \in OfferedActions
    BY DEF Taken, VALID_GHL_ACTIONS, OfferedActions, executeGhlTask
  <2>3. PICK h : h = executeGhlTask[Taken(r.action)]
    OBVIOUS
  <2>4. OnlyReads(h)
    BY <2>2, <2>3, SummariesOnlyRead
  <2>5. ~Refused(r, h)
    BY <2>1, <2>3 DEF Plan, NoPlan
  <2>6. p.items = h.api.items /\ p.writes = (h.api.method # "GET")
    BY <2>1, <2>3, <2>5 DEF Plan
  <2> QED
    BY <2>4, <2>6 DEF OnlyReads
<1> QED
  BY <1>1, <1>2

\* What a call was to do, and to whom, is kept of its plan.
LEMMA AimKeeps ==
  ASSUME NEW p
  PROVE  Aim(p).search = p.search /\ Aim(p).contact = p.contact /\ Aim(p).writes = p.writes
BY DEF Aim, NoPlan

-----------------------------------------------------------------------------
(* The helpers that move a call, field by field.                           *)

About(k, result) == k.effects > 0 \/ (result = "completed" /\ k.plan.writes)

\* What is left of a call that ends.
LEMMA EndsFields ==
  ASSUME NEW k \in Call, NEW result \in {"completed", "failed"}
  PROVE  LET e == Ends(k, result) IN
         /\ e.pc = "ended" /\ e.attempt = 0 /\ e.result = result
         /\ e.closing = (k.task # "none")
         /\ e.plan = IF About(k, result) THEN Aim(k.plan) ELSE NoPlan
         /\ e.found = IF About(k, result) THEN k.found ELSE {}
         /\ e.target = IF About(k, result) THEN k.target ELSE NoContact
         /\ e.tool = k.tool /\ e.effects = k.effects /\ e.lost = k.lost
         /\ e.task = k.task /\ e.success = k.success /\ e.failure = k.failure
BY DEF Ends, About, Call

\* It is a call.
LEMMA EndsTyped ==
  ASSUME NEW k \in Call, NEW result \in {"completed", "failed"},
         k.plan \in Plans \cup {NoPlan}, About(k, result) => k.plan \in Plans
  PROVE  Ends(k, result) \in Call
<1> DEFINE plan == IF About(k, result) THEN Aim(k.plan) ELSE NoPlan
           found == IF About(k, result) THEN k.found ELSE {}
           target == IF About(k, result) THEN k.target ELSE NoContact
<1>1. plan \in PlanSet
  BY DEF PlanSet
<1>2. found \in SUBSET Contacts /\ target \in Contacts \cup {NoContact}
  BY DEF Call
<1>3. Ends(k, result) = [k EXCEPT !.pc = "ended", !.attempt = 0, !.result = result,
                                  !.closing = k.task # "none", !.plan = plan, !.found = found,
                                  !.target = target]
  BY DEF Ends, About
<1> HIDE DEF plan, found, target
<1>4. (k.task # "none") \in BOOLEAN /\ 0 \in 0..MAX_RETRIES /\ "ended" \in Pc /\ result \in Result
  BY DEF MAX_RETRIES, Pc, Result
<1> QED
  BY <1>1, <1>2, <1>3, <1>4 DEF Call

-----------------------------------------------------------------------------
(* Each helper leaves a call that is sound.                                *)

\* What a call that takes a step may become.
Follows(k, next) ==
  Sound(next) /\ next.tool = k.tool /\ (Acts(next) => Acts(k)) /\ k.pc # "unborn"

\* A call that ends with nothing more written.
LEMMA EndsSound ==
  ASSUME NEW k, Sound(k), k.pc \notin {"ended", "reporting", "dead"},
         NEW result \in {"completed", "failed"}
  PROVE  Sound(Ends(k, result))
<1> DEFINE e == Ends(k, result)
<1>0. k \in Call /\ k.plan \in Plans \cup {NoPlan} /\ k.result = "none" /\ k.success = "none"
      /\ k.failure = "none"
      /\ k.task \in {"none", "queued", "running"} /\ k.effects = k.lost
  BY DEF Sound, Staged, Call, Result, Counted
<1>1. About(k, result) => k.plan.writes
  BY DEF About, Sound, Counted
<1>2. About(k, result) => k.plan \in Plans
  BY <1>0, <1>1 DEF NoPlan
<1>3. e \in Call
  BY <1>0, <1>2, EndsTyped
<1>4. /\ e.pc = "ended" /\ e.result = result
      /\ e.closing = (k.task # "none")
      /\ e.plan = IF About(k, result) THEN Aim(k.plan) ELSE NoPlan
      /\ e.found = IF About(k, result) THEN k.found ELSE {}
      /\ e.target = IF About(k, result) THEN k.target ELSE NoContact
      /\ e.effects = k.effects /\ e.lost = k.lost
      /\ e.task = k.task /\ e.success = k.success /\ e.failure = k.failure
  BY <1>0, EndsFields
<1> HIDE DEF e
<1>5. k.effects > 0 => About(k, result)
  BY DEF About
<1>6. k.effects > 0 => Aimed(e) /\ e.plan.writes
  BY <1>1, <1>4, <1>5, AimKeeps DEF Sound, AimedBeforeWriting, Aimed
<1>7. AimedBeforeWriting(e)
  BY <1>4, <1>6 DEF AimedBeforeWriting
<1>8. Counted(e)
  BY <1>0, <1>4, <1>6 DEF Counted, Before
<1>9. Staged(e)
  BY <1>4 DEF Staged
<1>10. Told(e)
  BY <1>0, <1>4 DEF Told, Call
<1> QED
  BY <1>3, <1>7, <1>8, <1>9, <1>10 DEF Sound, e

\* A handler that answers at once, or goes on to what it was aimed at.
LEMMA ProceedsSound ==
  ASSUME NEW k, Sound(k), k.pc \in Before, Aimed(k)
  PROVE  Sound(Proceeds(k)) /\ Proceeds(k).tool = k.tool
<1>0. k \in Call /\ k.pc \notin {"ended", "reporting", "dead"} /\ k.success = "none"
  BY DEF Sound, Before, Staged
<1>1. CASE ~k.plan.fills
  BY <1>0, <1>1, EndsSound, EndsFields DEF Proceeds
<1>2. CASE k.plan.fills
  <2> DEFINE pc == IF k.plan.compares THEN "comparing" ELSE "calling"
             n == [k EXCEPT !.pc = pc, !.attempt = 0]
  <2>0. Proceeds(k) = n
    BY <1>2 DEF Proceeds
  <2>1. pc \in {"comparing", "calling"}
    OBVIOUS
  <2> HIDE DEF pc
  <2>a. pc \in Pc /\ 0 \in 0..MAX_RETRIES
    BY <2>1 DEF Pc, Requesting, MAX_RETRIES
  <2>2. n \in Call
    BY <1>0, <2>a DEF Call
  <2>3. /\ n.pc = pc /\ n.attempt = 0 /\ n.tool = k.tool /\ n.plan = k.plan /\ n.found = k.found
        /\ n.target = k.target /\ n.effects = k.effects /\ n.lost = k.lost /\ n.task = k.task
        /\ n.closing = k.closing /\ n.success = k.success /\ n.failure = k.failure
        /\ n.result = k.result
    BY <1>0 DEF Call
  <2> HIDE DEF n
  <2>4. AimedBeforeWriting(n)
    BY <2>3 DEF AimedBeforeWriting, Aimed
  <2>5. k.effects = 0
    BY DEF Sound, Counted
  <2>6. Counted(n)
    BY <2>1, <2>3, <2>5 DEF Sound, Counted
  <2>7. Staged(n)
    BY <1>0, <2>1, <2>3 DEF Sound, Staged
  <2>8. Told(n)
    BY <1>0, <2>3 DEF Sound, Told
  <2> QED
    BY <2>0, <2>2, <2>3, <2>4, <2>6, <2>7, <2>8 DEF Sound
<1> QED
  BY <1>1, <1>2

\* Changes to a call before anything is written: its place, its row, or what was found.
LEMMA EarlySound ==
  ASSUME NEW k, Sound(k), k.pc \in Before, NEW n \in Call, n.pc \in Before \ {"comparing"},
         n.plan = k.plan, n.effects = k.effects, n.lost = k.lost, n.closing = k.closing,
         n.success = k.success /\ n.failure = k.failure, n.result = k.result, n.tool = k.tool,
         n.task \in {k.task, "queued", "running"},
         n.pc = "delegated" => k.tool # CrmTool
  PROVE  Sound(n)
<1>0. k.result = "none" /\ k.success = "none" /\ k.failure = "none" /\ ~k.closing
      /\ k.plan \in Plans \cup {NoPlan}
      /\ k.task \in {"none", "queued", "running"} /\ k.effects = 0 /\ k.lost = 0
  BY DEF Sound, Staged, Counted, Before
<1>1. AimedBeforeWriting(n)
  BY <1>0 DEF AimedBeforeWriting, Before
<1>2. Counted(n)
  BY <1>0 DEF Counted, Before
<1>3. Staged(n)
  BY <1>0 DEF Staged, Before
<1>4. Told(n)
  BY <1>0 DEF Told
<1> QED
  BY <1>1, <1>2, <1>3, <1>4 DEF Sound

\* A call that starts: handed over, refused, searching, or aimed at the contact it names.
LEMMA StartsSound ==
  ASSUME NEW k, Sound(k), k.pc \in {"recording", "marking"}
  PROVE  Sound(Starts(k)) /\ Starts(k).tool = k.tool
<1>0. k \in Call /\ k.pc # "ended" /\ k.pc \in Before /\ k.plan \in Plans \cup {NoPlan}
  BY DEF Sound, Staged, Before
<1>1. CASE k.tool # CrmTool
  <2> DEFINE n == [k EXCEPT !.pc = "delegated"]
  <2>1. n \in Call
    BY <1>0 DEF Call, Pc
  <2>2. /\ n.pc = "delegated" /\ n.tool = k.tool /\ n.plan = k.plan /\ n.effects = k.effects
        /\ n.lost = k.lost /\ n.task = k.task /\ n.closing = k.closing
        /\ n.success = k.success /\ n.failure = k.failure
        /\ n.result = k.result
    BY <1>0 DEF Call
  <2>3. Starts(k) = n
    BY <1>1 DEF Starts
  <2> HIDE DEF n
  <2>4. n.pc \in Before \ {"comparing"}
    BY <2>2 DEF Before
  <2> QED
    BY <1>0, <1>1, <2>1, <2>2, <2>3, <2>4, EarlySound
<1>2. CASE k.tool = CrmTool /\ ~k.plan.ready
  BY <1>0, <1>2, EndsSound, EndsFields DEF Starts
<1>3. CASE k.tool = CrmTool /\ k.plan.ready /\ k.plan.search
  <2> DEFINE n == [k EXCEPT !.pc = "searching"]
  <2>1. n \in Call
    BY <1>0 DEF Call, Pc, Requesting
  <2>2. /\ n.pc = "searching" /\ n.tool = k.tool /\ n.plan = k.plan /\ n.effects = k.effects
        /\ n.lost = k.lost /\ n.task = k.task /\ n.closing = k.closing
        /\ n.success = k.success /\ n.failure = k.failure
        /\ n.result = k.result
    BY <1>0 DEF Call
  <2>3. Starts(k) = n
    BY <1>3 DEF Starts
  <2> HIDE DEF n
  <2>4. n.pc \in Before \ {"comparing"}
    BY <2>2 DEF Before
  <2> QED
    BY <1>0, <2>1, <2>2, <2>3, <2>4, EarlySound
<1>4. CASE k.tool = CrmTool /\ k.plan.ready /\ ~k.plan.search
  <2> DEFINE found == {k.plan.contact} \ {NoContact}
             n == [k EXCEPT !.target = k.plan.contact, !.found = found]
  <2>0. k.plan.contact \in Contacts \cup {NoContact} /\ found \in SUBSET Contacts
    BY <1>0, PlanContact
  <2>3. Starts(k) = Proceeds(n)
    BY <1>4 DEF Starts
  <2>9. k.plan.contact # NoContact => found = {k.plan.contact}
    OBVIOUS
  <2> HIDE DEF found
  <2>1. n \in Call
    BY <1>0, <2>0 DEF Call
  <2>2. /\ n.pc = k.pc /\ n.tool = k.tool /\ n.plan = k.plan /\ n.effects = k.effects
        /\ n.lost = k.lost /\ n.task = k.task /\ n.closing = k.closing
        /\ n.success = k.success /\ n.failure = k.failure
        /\ n.result = k.result /\ n.target = k.plan.contact /\ n.found = found
    BY <1>0 DEF Call
  <2> HIDE DEF n
  <2>4. n.pc \in Before \ {"comparing"} /\ n.pc # "delegated"
    BY <2>2 DEF Before
  <2>5. Sound(n)
    BY <1>0, <2>1, <2>2, <2>4, EarlySound
  <2>6. Aimed(n)
    BY <1>4, <2>2, <2>9 DEF Aimed
  <2> QED
    BY <2>2, <2>3, <2>4, <2>5, <2>6, ProceedsSound
<1> QED
  BY <1>1, <1>2, <1>3, <1>4

\* A request that is under way, with what came of it so far.
LEMMA RequestingStays ==
  ASSUME NEW k, Sound(k), k.pc \in Requesting, NEW n \in Call, n.pc \in {k.pc, "reporting"},
         n.plan = k.plan, n.found = k.found, n.target = k.target, n.closing = k.closing,
         n.success = k.success /\ n.failure = k.failure, n.result = k.result, n.tool = k.tool,
         n.task = k.task,
         \/ n.effects = k.effects /\ n.lost = k.lost
         \/ Writes(k) /\ n.effects = k.effects + 1 /\ n.lost = k.lost + 1,
         n.pc = "calling" => n.effects <= n.attempt
  PROVE  Sound(n)
<1>0. k.result = "none" /\ k.success = "none" /\ k.failure = "none" /\ ~k.closing
      /\ k.plan \in Plans \cup {NoPlan}
      /\ k.task \in {"none", "queued", "running"} /\ k.effects = k.lost
      /\ k.effects \in Nat /\ k.lost \in Nat
  BY DEF Sound, Staged, Counted, Requesting, Call, MAX_RETRIES
<1>1. AimedBeforeWriting(n)
  <2>1. n.pc \in {"comparing", "calling"} \/ n.effects > 0 =>
          k.pc \in {"comparing", "calling"} \/ k.effects > 0
    BY DEF Writes
  <2> QED
    BY <2>1 DEF Sound, AimedBeforeWriting, Aimed
<1>2. Counted(n)
  <2>1. n.pc \in Before => n.effects = 0
    BY DEF Sound, Counted, Writes, Before
  <2>2. n.result # "completed" => n.effects = n.lost
    BY <1>0
  <2>3. n.effects > 0 => n.plan.writes
    BY DEF Sound, Counted, Writes
  <2> QED
    BY <2>1, <2>2, <2>3 DEF Counted
<1>3. Staged(n)
  BY <1>0 DEF Staged, Requesting
<1>4. Told(n)
  BY <1>0 DEF Told
<1> QED
  BY <1>1, <1>2, <1>3, <1>4 DEF Sound

\* An attempt that is lost is made again or reported, whether or not it was carried out.
LEMMA AttemptLost ==
  ASSUME NEW k, Sound(k), k.pc \in Requesting, NEW d \in {k, DoneUnseen(k)},
         d # k => Writes(k)
  PROVE  /\ Sound(Retries(d)) /\ Retries(d).tool = k.tool
         /\ Sound([d EXCEPT !.pc = "reporting"]) /\ [d EXCEPT !.pc = "reporting"].tool = k.tool
<1>0. k \in Call /\ k.attempt \in 0..MAX_RETRIES /\ k.effects = k.lost /\ k.effects \in Nat
  BY DEF Sound, Call, Counted, Staged, MAX_RETRIES, Requesting
<1>1. Writes(k) => k.pc = "calling" /\ k.effects <= k.attempt
  BY DEF Writes, Sound, Counted
<1>2. /\ d \in Call
      /\ d.pc = k.pc /\ d.tool = k.tool /\ d.plan = k.plan /\ d.found = k.found
      /\ d.target = k.target /\ d.attempt = k.attempt /\ d.task = k.task
      /\ d.closing = k.closing /\ d.success = k.success /\ d.failure = k.failure
      /\ d.result = k.result
      /\ \/ d.effects = k.effects /\ d.lost = k.lost
         \/ Writes(k) /\ d.effects = k.effects + 1 /\ d.lost = k.lost + 1
  <2>1. CASE d = k
    BY <1>0, <2>1
  <2>2. CASE d # k
    <3>1. d = [k EXCEPT !.effects = @ + 1, !.lost = @ + 1]
      BY <2>2 DEF DoneUnseen
    <3>2. k.effects + 1 \in 0..MAX_RETRIES + 1 /\ k.lost + 1 \in 0..MAX_RETRIES + 1
      BY <1>0, <1>1, <2>2 DEF MAX_RETRIES
    <3> QED
      BY <1>0, <2>2, <3>1, <3>2 DEF Call
  <2> QED
    BY <2>1, <2>2
<1>3. Sound([d EXCEPT !.pc = "reporting"]) /\ [d EXCEPT !.pc = "reporting"].tool = k.tool
  <2> DEFINE n == [d EXCEPT !.pc = "reporting"]
  <2>1. n \in Call
    BY <1>2 DEF Call, Pc
  <2>2. /\ n.pc = "reporting" /\ n.tool = d.tool /\ n.plan = d.plan /\ n.found = d.found
        /\ n.target = d.target /\ n.task = d.task /\ n.closing = d.closing
        /\ n.success = d.success /\ n.failure = d.failure
        /\ n.result = d.result /\ n.effects = d.effects /\ n.lost = d.lost
    BY <1>2 DEF Call
  <2> HIDE DEF n
  <2>3. Sound(n)
    BY <1>2, <2>1, <2>2, RequestingStays
  <2> QED
    BY <1>2, <2>2, <2>3 DEF n
<1>4. ASSUME d.attempt < MAX_RETRIES
      PROVE  Sound([d EXCEPT !.attempt = @ + 1]) /\ [d EXCEPT !.attempt = @ + 1].tool = k.tool
  <2> DEFINE n == [d EXCEPT !.attempt = @ + 1]
  <2>0. d.attempt + 1 \in 0..MAX_RETRIES
    BY <1>0, <1>2, <1>4 DEF MAX_RETRIES
  <2>1. n \in Call
    BY <1>2, <2>0 DEF Call
  <2>2. /\ n.pc = d.pc /\ n.tool = d.tool /\ n.plan = d.plan /\ n.found = d.found
        /\ n.target = d.target /\ n.task = d.task /\ n.closing = d.closing
        /\ n.success = d.success /\ n.failure = d.failure
        /\ n.result = d.result /\ n.effects = d.effects /\ n.lost = d.lost
        /\ n.attempt = d.attempt + 1
    BY <1>2 DEF Call
  <2> HIDE DEF n
  <2>3. n.pc = "calling" => n.effects <= n.attempt
    <3>1. k.pc = "calling" => k.effects <= k.attempt
      BY DEF Sound, Counted
    <3> QED
      BY <1>0, <1>2, <2>2, <3>1 DEF MAX_RETRIES
  <2>4. Sound(n)
    BY <1>2, <2>1, <2>2, <2>3, RequestingStays
  <2> QED
    BY <1>2, <2>2, <2>4 DEF n
<1> QED
  BY <1>3, <1>4 DEF Retries

\* The answer of the request was seen: it took effect once more than answers were lost.
LEMMA AnsweredSound ==
  ASSUME NEW k, Sound(k), k.pc = "calling"
  PROVE  LET n == [Ends(Done(k), "completed") EXCEPT !.success = "writing"]
         IN  Sound(n) /\ n.tool = k.tool
<1> DEFINE d == Done(k)
           e == Ends(d, "completed")
           n == [e EXCEPT !.success = "writing"]
           about == About(d, "completed")
<1>0. /\ k \in Call /\ k.plan \in Plans \cup {NoPlan} /\ k.effects = k.lost
      /\ k.effects \in Nat /\ k.effects <= k.attempt /\ k.attempt \in 0..MAX_RETRIES
      /\ k.effects > 0 => k.plan.writes
      /\ k.task \in {"none", "queued", "running"} /\ Aimed(k) /\ k.failure = "none"
  BY DEF Sound, Counted, Staged, AimedBeforeWriting, Call, Result, MAX_RETRIES
<1>1. /\ d \in Call
      /\ d.tool = k.tool /\ d.plan = k.plan /\ d.found = k.found /\ d.target = k.target
      /\ d.task = k.task /\ d.lost = k.lost /\ d.failure = "none"
      /\ d.effects = IF k.plan.writes THEN k.effects + 1 ELSE k.effects
  <2>1. CASE k.plan.writes
    <3>1. d = [k EXCEPT !.effects = @ + 1]
      BY <2>1 DEF Done, Writes
    <3>2. k.effects + 1 \in 0..MAX_RETRIES + 1
      BY <1>0 DEF MAX_RETRIES
    <3> QED
      BY <1>0, <2>1, <3>1, <3>2 DEF Call
  <2>2. CASE ~k.plan.writes
    BY <1>0, <2>2 DEF Done, Writes
  <2> QED
    BY <2>1, <2>2
<1> HIDE DEF d
<1>2. about => k.plan.writes /\ k.plan \in Plans
  <2>1. about => k.plan.writes
    BY <1>0, <1>1 DEF About
  <2> QED
    BY <1>0, <2>1 DEF NoPlan
<1>3. k.plan.writes => about
  BY <1>1 DEF About
<1>4. e \in Call
  BY <1>0, <1>1, <1>2, EndsTyped
<1>5. /\ e.pc = "ended" /\ e.result = "completed" /\ e.closing = (d.task # "none")
      /\ e.plan = IF about THEN Aim(d.plan) ELSE NoPlan
      /\ e.found = IF about THEN d.found ELSE {}
      /\ e.target = IF about THEN d.target ELSE NoContact
      /\ e.tool = d.tool /\ e.effects = d.effects /\ e.lost = d.lost /\ e.task = d.task
      /\ e.failure = "none"
  BY <1>1, EndsFields
<1> HIDE DEF e, about
<1>6. n \in Call
  BY <1>4 DEF Call
<1>7. /\ n.pc = e.pc /\ n.result = e.result /\ n.closing = e.closing /\ n.plan = e.plan
      /\ n.found = e.found /\ n.target = e.target /\ n.tool = e.tool /\ n.effects = e.effects
      /\ n.lost = e.lost /\ n.task = e.task /\ n.success = "writing" /\ n.failure = e.failure
  BY <1>4 DEF Call
<1> HIDE DEF n
<1>8. n.plan.writes <=> about
  <2>1. CASE about
    BY <1>1, <1>2, <1>5, <1>7, <2>1, AimKeeps
  <2>2. CASE ~about
    BY <1>5, <1>7, <2>2 DEF NoPlan
  <2> QED
    BY <2>1, <2>2
<1>9. n.effects > 0 => about
  BY <1>0, <1>1, <1>3, <1>5, <1>7
<1>10. about => Aimed(n)
  BY <1>0, <1>1, <1>5, <1>7, AimKeeps DEF Aimed
<1>11. AimedBeforeWriting(n)
  BY <1>5, <1>7, <1>9, <1>10 DEF AimedBeforeWriting
<1>12. Counted(n)
  BY <1>5, <1>7, <1>8, <1>9 DEF Counted, Before
<1>13. Staged(n)
  BY <1>5, <1>7 DEF Staged
<1>14. n.effects - n.lost = IF n.plan.writes /\ n.success # "none" THEN 1 ELSE 0
  <2>1. CASE k.plan.writes
    BY <1>0, <1>1, <1>3, <1>5, <1>7, <1>8, <2>1
  <2>2. CASE ~k.plan.writes
    BY <1>0, <1>1, <1>2, <1>5, <1>7, <1>8, <2>2
  <2> QED
    BY <2>1, <2>2
<1>15. Told(n)
  BY <1>0, <1>1, <1>5, <1>7, <1>14 DEF Told
<1> QED
  BY <1>1, <1>5, <1>6, <1>7, <1>11, <1>12, <1>13, <1>15 DEF Sound, n, e, d

\* The answer of a request that only read cannot be put into words.
LEMMA UnreadableSound ==
  ASSUME NEW k, Sound(k), k.pc = "calling", k.plan.items
  PROVE  LET n == [Done(k) EXCEPT !.pc = "reporting", !.success = "writing"]
         IN  Sound(n) /\ n.tool = k.tool
<1>0. /\ k \in Call /\ k.plan \in Plans \cup {NoPlan} /\ k.result = "none" /\ ~k.closing
      /\ k.failure = "none" /\ k.task \in {"none", "queued", "running"}
      /\ k.effects \in Nat /\ k.effects = k.lost /\ (k.effects > 0 => k.plan.writes)
  BY DEF Sound, Staged, Counted, Call, Result, MAX_RETRIES
<1>1. ~k.plan.writes
  BY <1>0, PlanItems
<1>2. k.effects = 0 /\ k.lost = 0
  BY <1>0, <1>1
<1> DEFINE n == [k EXCEPT !.pc = "reporting", !.success = "writing"]
<1>3. [Done(k) EXCEPT !.pc = "reporting", !.success = "writing"] = n
  BY <1>1 DEF Done, Writes
<1>4. n \in Call
  BY <1>0 DEF Call, Pc
<1>5. /\ n.pc = "reporting" /\ n.success = "writing" /\ n.tool = k.tool /\ n.plan = k.plan
      /\ n.effects = 0 /\ n.lost = 0 /\ n.task = k.task /\ n.closing = k.closing
      /\ n.failure = k.failure /\ n.result = k.result
  BY <1>0, <1>2 DEF Call
<1> HIDE DEF n
<1>6. AimedBeforeWriting(n) /\ Counted(n)
  BY <1>0, <1>5 DEF AimedBeforeWriting, Counted, Before
<1>7. Staged(n)
  BY <1>0, <1>5 DEF Staged
<1>8. Told(n)
  BY <1>0, <1>5 DEF Told
<1> QED
  BY <1>3, <1>4, <1>5, <1>6, <1>7, <1>8 DEF Sound

-----------------------------------------------------------------------------
(* Steps of a call.                                                        *)

Moves(c) == \E n : call' = [call EXCEPT ![c] = n] /\ Follows(call[c], n)

\* A step of a call that is under way leaves it sound.
LEMMA MovesWhile ==
  ASSUME NEW c, NEW n, call' = [call EXCEPT ![c] = n], Sound(n), n.tool = call[c].tool,
         call[c].pc \notin {"unborn", "ended", "dead"}
  PROVE  Moves(c)
BY DEF Moves, Follows, Acts

\* The task row, and the start of the handler.
LEMMA TaskMoves ==
  ASSUME NEW c, Sound(call[c]), CreateTask(c) \/ MarkRunning(c)
  PROVE  Moves(c)
<1> DEFINE k == call[c]
           q == [k EXCEPT !.pc = "marking", !.task = "queued"]
           r == [k EXCEPT !.task = "running"]
<1>0. k \in Call /\ k.pc \in {"recording", "marking"} /\ k.pc \in Before
  BY DEF Sound, CreateTask, MarkRunning, Before
<1>1. Sound(q) /\ q.tool = k.tool
  <2>1. q \in Call
    BY <1>0 DEF Call, Pc
  <2>2. /\ q.pc = "marking" /\ q.tool = k.tool /\ q.plan = k.plan /\ q.effects = k.effects
        /\ q.lost = k.lost /\ q.task = "queued" /\ q.closing = k.closing
        /\ q.success = k.success /\ q.failure = k.failure
        /\ q.result = k.result
    BY <1>0 DEF Call
  <2> HIDE DEF q
  <2>3. q.pc \in Before \ {"comparing"}
    BY <2>2 DEF Before
  <2>4. Sound(q)
    BY <1>0, <2>1, <2>2, <2>3, EarlySound
  <2> QED
    BY <2>2, <2>4 DEF q
<1>2. Sound(r) /\ r.tool = k.tool /\ r.pc = k.pc
  <2>1. r \in Call
    BY <1>0 DEF Call
  <2>2. /\ r.pc = k.pc /\ r.tool = k.tool /\ r.plan = k.plan /\ r.effects = k.effects
        /\ r.lost = k.lost /\ r.task = "running" /\ r.closing = k.closing
        /\ r.success = k.success /\ r.failure = k.failure
        /\ r.result = k.result
    BY <1>0 DEF Call
  <2> HIDE DEF r
  <2>3. r.pc \in Before \ {"comparing"} /\ r.pc # "delegated"
    BY <1>0, <2>2 DEF Before
  <2>4. Sound(r)
    BY <1>0, <2>1, <2>2, <2>3, EarlySound
  <2> QED
    BY <2>2, <2>4 DEF r
<1>3. Sound(Starts(k)) /\ Starts(k).tool = k.tool
  BY <1>0, StartsSound
<1>4. Sound(Starts(r)) /\ Starts(r).tool = k.tool
  <2> HIDE DEF r
  <2> QED
    BY <1>0, <1>2, StartsSound
<1>5. call' = [call EXCEPT ![c] = q] \/ call' = [call EXCEPT ![c] = Starts(k)]
        \/ call' = [call EXCEPT ![c] = Starts(r)]
  BY DEF CreateTask, MarkRunning, Becomes
<1> HIDE DEF q, r
<1> QED
  BY <1>0, <1>1, <1>3, <1>4, <1>5, MovesWhile

\* A call that ends and is told what came of it.
LEMMA EndMoves ==
  ASSUME NEW c, Sound(call[c]), call[c].pc \in {"delegated"} \cup Requesting,
         NEW result \in {"completed", "failed"}, Becomes(c, Ends(call[c], result))
  PROVE  Moves(c)
<1>0. call[c] \in Call /\ call[c].pc \notin {"unborn", "ended", "reporting", "dead"}
  BY DEF Sound, Requesting
<1>1. Sound(Ends(call[c], result)) /\ Ends(call[c], result).tool = call[c].tool
  BY <1>0, EndsSound, EndsFields
<1> QED
  BY <1>0, <1>1, MovesWhile DEF Becomes

\* The error a call ends with is logged, or not.
LEMMA ReportMoves ==
  ASSUME NEW c, Sound(call[c]), ReportError(c)
  PROVE  Moves(c)
<1> DEFINE k == call[c]
           e == Ends(k, "failed")
<1>0. /\ k \in Call /\ k.pc = "reporting" /\ k.plan \in Plans \cup {NoPlan}
      /\ k.result = "none" /\ k.task \in {"none", "queued", "running"} /\ k.effects = k.lost
      /\ k.effects \in Nat /\ (k.effects > 0 => k.plan.writes)
      /\ (k.success # "none" => k.effects = 0)
  BY DEF Sound, ReportError, Staged, Counted, Told, Call, Result, MAX_RETRIES
<1>1. About(k, "failed") <=> k.effects > 0
  BY DEF About
<1>2. e \in Call
  BY <1>0, <1>1, EndsTyped DEF NoPlan
<1>3. /\ e.pc = "ended" /\ e.result = "failed"
      /\ e.plan = IF k.effects > 0 THEN Aim(k.plan) ELSE NoPlan
      /\ e.found = IF k.effects > 0 THEN k.found ELSE {}
      /\ e.target = IF k.effects > 0 THEN k.target ELSE NoContact
      /\ e.tool = k.tool /\ e.effects = k.effects /\ e.lost = k.lost /\ e.task = k.task
      /\ e.success = k.success
  BY <1>0, <1>1, EndsFields
<1>4. PICK f \in {"written", "missing"} : call' = [call EXCEPT ![c] = [e EXCEPT !.failure = f]]
  BY DEF ReportError, Becomes
<1> HIDE DEF e
<1> DEFINE n == [e EXCEPT !.failure = f]
<1>5. n \in Call
  BY <1>2 DEF Call
<1>6. /\ n.pc = e.pc /\ n.tool = e.tool /\ n.plan = e.plan /\ n.found = e.found
      /\ n.target = e.target /\ n.effects = e.effects /\ n.lost = e.lost /\ n.task = e.task
      /\ n.success = e.success /\ n.failure = f /\ n.result = e.result
  BY <1>2 DEF Call
<1>7. call' = [call EXCEPT ![c] = n]
  BY <1>4
<1> HIDE DEF n
<1>8. n.effects > 0 => Aimed(n) /\ n.plan.writes
  BY <1>0, <1>3, <1>6, AimKeeps DEF Sound, AimedBeforeWriting, Aimed
<1>9. AimedBeforeWriting(n) /\ Counted(n)
  BY <1>0, <1>3, <1>6, <1>8 DEF AimedBeforeWriting, Counted, Before
<1>10. Staged(n)
  BY <1>3, <1>6 DEF Staged
<1>11. Told(n)
  BY <1>0, <1>3, <1>6 DEF Told
<1>12. Sound(n) /\ n.tool = k.tool
  BY <1>3, <1>5, <1>6, <1>9, <1>10, <1>11 DEF Sound
<1> QED
  BY <1>0, <1>7, <1>12, MovesWhile

\* The search: one contact found is the target, and none or several end the call.
LEMMA FoundMoves ==
  ASSUME NEW c, Sound(call[c]), NEW found \in SUBSET Contacts, Found(c, found)
  PROVE  Moves(c)
<1> DEFINE k == call[c]
           f == [k EXCEPT !.found = found]
<1>0. k \in Call /\ k.pc = "searching"
  BY DEF Sound, Found
<1>1. PICK id \in found \cup {NoContact} :
        call' = [call EXCEPT ![c] =
          IF Single(found) /\ id # NoContact THEN Proceeds([f EXCEPT !.target = id])
          ELSE Ends(f, "failed")]
  BY DEF Found, Becomes
<1>2. f \in Call
  BY <1>0 DEF Call
<1>3. /\ f.pc = "searching" /\ f.tool = k.tool /\ f.plan = k.plan /\ f.effects = k.effects
      /\ f.lost = k.lost /\ f.task = k.task /\ f.closing = k.closing /\ f.success = k.success
      /\ f.failure = k.failure
      /\ f.result = k.result /\ f.found = found
  BY <1>0 DEF Call
<1> HIDE DEF f
<1>4. Sound(f)
  BY <1>0, <1>2, <1>3, EarlySound DEF Before
<1>5. CASE Single(found) /\ id # NoContact
  <2> DEFINE t == [f EXCEPT !.target = id]
  <2>1. t \in Call
    BY <1>2 DEF Call
  <2>2. /\ t.pc = "searching" /\ t.tool = f.tool /\ t.plan = f.plan /\ t.effects = f.effects
        /\ t.lost = f.lost /\ t.task = f.task /\ t.closing = f.closing
        /\ t.success = f.success /\ t.failure = f.failure
        /\ t.result = f.result /\ t.found = found /\ t.target = id
    BY <1>2, <1>3 DEF Call
  <2>0. call' = [call EXCEPT ![c] = Proceeds(t)]
    BY <1>1, <1>5
  <2> HIDE DEF t
  <2>3. Sound(t)
    BY <1>3, <1>4, <2>1, <2>2, EarlySound DEF Before
  <2>4. found = {id}
    <3>1. IsFiniteSet(found)
      BY FS_Subset
    <3>2. PICK x : found = {x}
      BY <1>5, <3>1, FS_Singleton DEF Single
    <3> QED
      BY <1>5, <3>2
  <2>5. Aimed(t)
    BY <2>2, <2>4 DEF Aimed
  <2>6. Sound(Proceeds(t)) /\ Proceeds(t).tool = k.tool
    BY <1>3, <2>2, <2>3, <2>5, ProceedsSound DEF Before
  <2> QED
    BY <1>0, <2>0, <2>6, MovesWhile
<1>6. CASE ~(Single(found) /\ id # NoContact)
  <2>1. Sound(Ends(f, "failed")) /\ Ends(f, "failed").tool = k.tool
    BY <1>2, <1>3, <1>4, EndsSound, EndsFields
  <2> QED
    BY <1>0, <1>1, <1>6, <2>1, MovesWhile
<1> QED
  BY <1>5, <1>6

\* The comparison: nothing to change, or the request that changes it.
LEMMA ComparedMoves ==
  ASSUME NEW c, Sound(call[c]), NEW same \in BOOLEAN, Compared(c, same)
  PROVE  Moves(c)
<1> DEFINE k == call[c]
           n == [k EXCEPT !.pc = "calling", !.attempt = 0]
<1>0. k \in Call /\ k.pc = "comparing"
  BY DEF Sound, Compared
<1>1. CASE same
  BY <1>0, <1>1, EndMoves DEF Compared, Requesting, Becomes
<1>2. CASE ~same
  <2>1. call' = [call EXCEPT ![c] = n]
    BY <1>2 DEF Compared, Becomes
  <2>2. n \in Call
    <3>1. "calling" \in Pc /\ 0 \in 0..MAX_RETRIES
      BY DEF Pc, Requesting, MAX_RETRIES
    <3> QED
      BY <1>0, <3>1 DEF Call
  <2>3. /\ n.pc = "calling" /\ n.tool = k.tool /\ n.plan = k.plan /\ n.found = k.found
        /\ n.target = k.target /\ n.attempt = 0 /\ n.effects = k.effects /\ n.lost = k.lost
        /\ n.task = k.task /\ n.closing = k.closing /\ n.success = k.success
        /\ n.failure = k.failure /\ n.result = k.result
    BY <1>0 DEF Call
  <2> HIDE DEF n
  <2>4. k.effects = 0 /\ Aimed(k)
    BY <1>0 DEF Sound, Counted, Before, AimedBeforeWriting
  <2>5. AimedBeforeWriting(n) /\ Counted(n)
    BY <2>3, <2>4 DEF AimedBeforeWriting, Aimed, Sound, Counted, Before
  <2>6. Staged(n)
    BY <1>0, <2>3 DEF Sound, Staged
  <2>7. Told(n)
    BY <1>0, <2>3 DEF Sound, Told
  <2> QED
    BY <1>0, <2>1, <2>2, <2>3, <2>5, <2>6, <2>7, MovesWhile DEF Sound
<1> QED
  BY <1>1, <1>2

\* The requests of a call, whatever becomes of each.
LEMMA CrmMoves ==
  ASSUME NEW c, Sound(call[c]), CrmStep(c)
  PROVE  Moves(c)
<1> DEFINE k == call[c]
<1>1. CASE NotFound(c)
  BY <1>1, EndMoves DEF NotFound, Requesting
<1>2. CASE Answered(c)
  <2> DEFINE n == [Ends(Done(k), "completed") EXCEPT !.success = "writing"]
  <2>1. k.pc = "calling" /\ call' = [call EXCEPT ![c] = n]
    BY <1>2 DEF Answered, Becomes
  <2>2. Sound(n) /\ n.tool = k.tool
    BY <2>1, AnsweredSound
  <2> HIDE DEF n
  <2> QED
    BY <2>1, <2>2, MovesWhile
<1>3. CASE Unconfigured(c) \/ Rejected(c) \/ Unusable(c)
  <2>1. PICK d \in {k, DoneUnseen(k)} :
          /\ d # k => Writes(k)
          /\ call' = [call EXCEPT ![c] = [d EXCEPT !.pc = "reporting"]]
    BY <1>3 DEF Unconfigured, Rejected, Unusable, Becomes, DoneUnseen
  <2>2. k.pc \in Requesting
    BY <1>3 DEF Unconfigured, Rejected, Unusable, Requesting
  <2>3. Sound([d EXCEPT !.pc = "reporting"]) /\ [d EXCEPT !.pc = "reporting"].tool = k.tool
    BY <2>1, <2>2, AttemptLost
  <2> QED
    BY <2>1, <2>2, <2>3, MovesWhile DEF Requesting
<1>4. CASE Unanswered(c) \/ AnswerLost(c)
  <2>1. PICK d \in {k, DoneUnseen(k)} : /\ d # k => Writes(k)
                                        /\ call' = [call EXCEPT ![c] = Retries(d)]
    BY <1>4 DEF Unanswered, AnswerLost, Becomes
  <2>2. k.pc \in Requesting
    BY <1>4 DEF Unanswered, AnswerLost, Writes, Requesting
  <2>3. Sound(Retries(d)) /\ Retries(d).tool = k.tool
    BY <2>1, <2>2, AttemptLost
  <2> QED
    BY <2>1, <2>2, <2>3, MovesWhile DEF Requesting
<1>5. CASE Unreadable(c)
  <2> DEFINE n == [Done(k) EXCEPT !.pc = "reporting", !.success = "writing"]
  <2>1. k.pc = "calling" /\ k.plan.items /\ call' = [call EXCEPT ![c] = n]
    BY <1>5 DEF Unreadable, Becomes
  <2>2. Sound(n) /\ n.tool = k.tool
    BY <2>1, UnreadableSound
  <2> HIDE DEF n
  <2> QED
    BY <2>1, <2>2, MovesWhile
<1> QED
  BY <1>1, <1>2, <1>3, <1>4, <1>5, ReportMoves, FoundMoves, ComparedMoves DEF CrmStep

\* A call that has ended: only its row and its success in the log may change, to what it
\* was told.
LEMMA EndedStays ==
  ASSUME NEW k, Sound(k), k.pc = "ended", NEW n \in Call, n.pc = k.pc, n.tool = k.tool,
         n.plan = k.plan, n.found = k.found, n.target = k.target, n.effects = k.effects,
         n.lost = k.lost, n.result = k.result, n.task \in {k.task, k.result},
         n.success # "none" <=> k.success # "none", n.failure = k.failure
  PROVE  Follows(k, n)
<1>0. k \in Call /\ k.result \in {"completed", "failed"}
  BY DEF Sound, Staged, Call, Result
<1>1. Aimed(k) => Aimed(n)
  BY DEF Aimed
<1>2. AimedBeforeWriting(n)
  BY <1>1 DEF Sound, AimedBeforeWriting
<1>3. Counted(n)
  BY DEF Sound, Counted, Before
<1>4. Staged(n)
  BY <1>0 DEF Staged
<1>5. Told(n)
  BY <1>0 DEF Sound, Told
<1>6. Acts(n) => Acts(k)
  BY DEF Acts
<1> QED
  BY <1>2, <1>3, <1>4, <1>5, <1>6 DEF Follows, Sound

\* The success in the action log, behind the answer, or before the error of a call that
\* could not put it into words.
LEMMA LogMoves ==
  ASSUME NEW c, Sound(call[c]), WriteLog(c)
  PROVE  Moves(c)
<1>1. PICK k : k = call[c]
  OBVIOUS
<1>0. /\ k \in Call /\ Sound(k) /\ k.success = "writing"
      /\ k.pc \in {"ended", "reporting", "dead"}
  BY <1>1 DEF Sound, Staged, WriteLog
<1>2. PICK f \in {"written", "missing"} : call' = [call EXCEPT ![c] = [k EXCEPT !.success = f]]
  BY <1>1 DEF WriteLog, Becomes
<1> DEFINE n == [k EXCEPT !.success = f]
<1>3. n \in Call
  BY <1>0 DEF Call
<1>4. /\ n.pc = k.pc /\ n.tool = k.tool /\ n.plan = k.plan /\ n.found = k.found
      /\ n.target = k.target /\ n.effects = k.effects /\ n.lost = k.lost
      /\ n.result = k.result /\ n.task = k.task /\ n.closing = k.closing
      /\ n.success = f /\ n.failure = k.failure
  BY <1>0 DEF Call
<1>5. call' = [call EXCEPT ![c] = n]
  BY <1>2
<1> HIDE DEF n
<1>6. Follows(k, n)
  <2>1. CASE k.pc = "ended"
    BY <1>0, <1>3, <1>4, <2>1, EndedStays
  <2>2. CASE k.pc \in {"reporting", "dead"}
    <3>1. AimedBeforeWriting(n) /\ Counted(n)
      BY <1>0, <1>4, <2>2 DEF Sound, AimedBeforeWriting, Aimed, Counted, Before
    <3>2. Staged(n) /\ Told(n)
      BY <1>0, <1>4, <2>2 DEF Sound, Staged, Told
    <3>3. Acts(n) => Acts(k)
      BY <1>4 DEF Acts
    <3> QED
      BY <1>3, <1>4, <2>2, <3>1, <3>2, <3>3 DEF Follows, Sound
  <2> QED
    BY <1>0, <2>1, <2>2
<1> QED
  BY <1>1, <1>5, <1>6 DEF Moves

\* The final status of the task row, behind the answer: what the model was told.
LEMMA CloseMoves ==
  ASSUME NEW c, Sound(call[c]), CloseTask(c)
  PROVE  Moves(c)
<1>1. PICK k : k = call[c]
  OBVIOUS
<1>0. k \in Call /\ Sound(k) /\ k.pc = "ended"
  BY <1>1 DEF Sound, Staged, CloseTask
<1>2. PICK task \in {k.task, k.result} :
        call' = [call EXCEPT ![c] = [k EXCEPT !.closing = FALSE, !.task = task]]
  <2>1. [k EXCEPT !.closing = FALSE] = [k EXCEPT !.closing = FALSE, !.task = k.task]
    BY <1>0 DEF Call
  <2> QED
    BY <1>1, <2>1 DEF CloseTask, Becomes
<1> DEFINE n == [k EXCEPT !.closing = FALSE, !.task = task]
<1>3. n \in Call
  <2>1. task \in Result \cup {"queued", "running"}
    BY <1>0 DEF Call
  <2> QED
    BY <1>0, <2>1 DEF Call
<1>4. /\ n.pc = k.pc /\ n.tool = k.tool /\ n.plan = k.plan /\ n.found = k.found
      /\ n.target = k.target /\ n.effects = k.effects /\ n.lost = k.lost
      /\ n.result = k.result /\ n.task = task /\ n.success = k.success /\ n.failure = k.failure
  BY <1>0 DEF Call
<1>5. call' = [call EXCEPT ![c] = n]
  BY <1>2
<1> HIDE DEF n
<1>6. Follows(k, n)
  BY <1>0, <1>3, <1>4, EndedStays
<1> QED
  BY <1>1, <1>5, <1>6 DEF Moves

-----------------------------------------------------------------------------
(* The invariant is inductive.                                             *)

\* A fault is one of those there may be.
LEMMA FaultsBounded ==
  ASSUME faults \in 0..MaxFaults, Fault \/ NoFault \/ UNCHANGED faults
  PROVE  faults' \in 0..MaxFaults
BY DEF Fault, NoFault

\* A step of one call keeps it.
LEMMA MoveKeeps ==
  ASSUME IndInv, NEW c \in Calls, Moves(c), UNCHANGED <<config, turn>>, faults' \in 0..MaxFaults
  PROVE  IndInv'
<1>1. PICK n : call' = [call EXCEPT ![c] = n] /\ Follows(call[c], n)
  BY DEF Moves
<1>2. call \in [Calls -> Call] /\ n \in Call /\ Sound(n)
  BY <1>1 DEF IndInv, Follows, Sound
<1>3. call' \in [Calls -> Call] /\ \A d \in Calls : call'[d] = IF d = c THEN n ELSE call[d]
  BY <1>1, <1>2
<1>4. \A d \in Calls : Sound(call'[d])
  BY <1>2, <1>3 DEF IndInv
<1>5. \A d \in Calls : call'[d].tool = call[d].tool /\ (Acts(call'[d]) => Acts(call[d]))
  BY <1>1, <1>3 DEF Follows
<1>6. Switched'
  BY <1>5 DEF IndInv, Switched
<1>7. Unborn'
  BY <1>1, <1>3 DEF IndInv, Unborn, Follows
<1> QED
  BY <1>3, <1>4, <1>6, <1>7 DEF IndInv

\* A step of one turn that leaves the calls alone, and its switches once they are read.
LEMMA TurnKeeps ==
  ASSUME IndInv, NEW t \in Turns, NEW u \in TurnType, turn' = [turn EXCEPT ![t] = u],
         UNCHANGED <<config, call>>, faults' \in 0..MaxFaults, u.pc # "new",
         turn[t].pc # "new" => u.allowed = turn[t].allowed /\ u.unread = turn[t].unread
  PROVE  IndInv'
<1>1. turn' \in [Turns -> TurnType] /\ \A v \in Turns : turn'[v] = IF v = t THEN u ELSE turn[v]
  BY DEF IndInv
<1>2. \A c \in Calls : c[1] \in Turns
  BY DEF Calls
<1>3. ASSUME NEW c \in Calls, Acts(call[c])
      PROVE  turn'[c[1]].unread \/ call[c].tool \in turn'[c[1]].allowed
  <2>1. turn[c[1]].unread \/ call[c].tool \in turn[c[1]].allowed
    BY <1>3 DEF IndInv, Switched
  <2>2. turn[c[1]].pc # "new"
    <3>1. call[c].pc # "unborn"
      BY <1>3 DEF IndInv, Sound, Counted, Acts, Before
    <3> QED
      BY <3>1 DEF IndInv, Unborn
  <2> QED
    BY <1>1, <1>2, <2>1, <2>2
<1>4. Switched' /\ Unborn'
  BY <1>1, <1>2, <1>3 DEF IndInv, Switched, Unborn
<1> QED
  BY <1>1, <1>4 DEF IndInv

\* A call that is not made yet.
LEMMA NoCallFields ==
  /\ NoCall.pc = "unborn" /\ NoCall.tool = CrmTool /\ NoCall.plan = NoPlan
  /\ NoCall.found = {} /\ NoCall.target = NoContact /\ NoCall.attempt = 0
  /\ NoCall.effects = 0 /\ NoCall.lost = 0 /\ NoCall.task = "none"
  /\ NoCall.closing = FALSE /\ NoCall.success = "none" /\ NoCall.failure = "none"
  /\ NoCall.result = "none"
BY DEF NoCall

\* It is a call all the same.
LEMMA NoCallTyped == NoCall \in Call
BY DEF NoCall, Call, PlanSet, Pc, Result, MAX_RETRIES

\* A new call: recorded if its tool is on, refused otherwise.
LEMMA DispatchKeeps ==
  ASSUME IndInv, NEW t \in Turns, NEW tool \in Tools, NEW plan \in Plans \cup {NoPlan},
         Dispatch(t, tool, plan)
  PROVE  IndInv'
<1> DEFINE c == <<t, turn[t].at + 1>>
           k == [NoCall EXCEPT !.tool = tool, !.plan = plan]
           r == [k EXCEPT !.pc = "recording"]
           n == IF isFirstPartyToolEnabled(t, tool) THEN r ELSE Ends(k, "failed")
<1>1. turn[t].pc = "ready" /\ turn[t].at < MaxCalls /\ turn[t] \in TurnType
  BY DEF Dispatch, Between, IndInv
<1>2. turn[t].at + 1 \in 1..MaxCalls /\ turn[t].at + 1 \in 0..MaxCalls
  BY <1>1 DEF TurnType
<1>3. c \in Calls /\ c[1] = t
  BY <1>2 DEF Calls
<1>4. /\ turn' = [turn EXCEPT ![t].at = turn[t].at + 1] /\ call' = [call EXCEPT ![c] = n]
      /\ UNCHANGED <<config, faults>>
  BY DEF Dispatch, Becomes
<1>5. /\ k.pc = "unborn" /\ k.tool = tool /\ k.plan = plan /\ k.found = {} /\ k.target = NoContact
      /\ k.attempt = 0 /\ k.effects = 0 /\ k.lost = 0 /\ k.task = "none" /\ k.closing = FALSE
      /\ k.success = "none" /\ k.failure = "none" /\ k.result = "none"
  BY NoCallTyped, NoCallFields DEF Call
<1>6. k \in Call
  <2>1. plan \in PlanSet
    BY DEF PlanSet
  <2> QED
    BY <2>1, NoCallTyped DEF Call
<1>7. r \in Call
  BY <1>6 DEF Call, Pc
<1>8. /\ r.pc = "recording" /\ r.tool = tool /\ r.plan = plan /\ r.effects = 0 /\ r.lost = 0
      /\ r.task = "none" /\ r.closing = FALSE /\ r.success = "none" /\ r.failure = "none"
      /\ r.result = "none"
  BY <1>5, <1>6 DEF Call
<1> HIDE DEF k, r, c
<1>9. Sound(k)
  <2>1. AimedBeforeWriting(k) /\ Counted(k)
    BY <1>5 DEF AimedBeforeWriting, Counted, Before
  <2>2. Staged(k) /\ Told(k)
    BY <1>5 DEF Staged, Told
  <2> QED
    BY <1>6, <2>1, <2>2 DEF Sound
<1>10. Sound(r)
  BY <1>5, <1>7, <1>8, <1>9, EarlySound DEF Before
<1>11. /\ Sound(n) /\ n.tool = tool
       /\ Acts(n) => tool \in turn[t].allowed
  <2>1. CASE isFirstPartyToolEnabled(t, tool)
    BY <1>8, <1>10, <2>1 DEF isFirstPartyToolEnabled
  <2>2. CASE ~isFirstPartyToolEnabled(t, tool)
    <3>1. Sound(Ends(k, "failed"))
      BY <1>5, <1>9, EndsSound
    <3>2. Ends(k, "failed").pc = "ended" /\ Ends(k, "failed").tool = tool
          /\ Ends(k, "failed").effects = 0
      BY <1>5, <1>6, EndsFields
    <3> QED
      BY <2>2, <3>1, <3>2 DEF Acts
  <2> QED
    BY <2>1, <2>2
<1> HIDE DEF n
<1>12. call' \in [Calls -> Call] /\ \A d \in Calls : call'[d] = IF d = c THEN n ELSE call[d]
  BY <1>3, <1>4, <1>11 DEF IndInv, Sound
<1>13. /\ turn' \in [Turns -> TurnType]
       /\ \A u \in Turns : turn'[u].pc = turn[u].pc /\ turn'[u].allowed = turn[u].allowed
                           /\ turn'[u].unread = turn[u].unread
  <2>1. turn \in [Turns -> TurnType]
    BY DEF IndInv
  <2> QED
    BY <1>2, <1>4, <2>1 DEF TurnType
<1>14. \A d \in Calls : d[1] \in Turns
  BY DEF Calls
<1>15. Switched'
  BY <1>3, <1>11, <1>12, <1>13, <1>14 DEF IndInv, Switched
<1>16. Unborn'
  BY <1>1, <1>3, <1>12, <1>13, <1>14 DEF IndInv, Unborn
<1>17. \A d \in Calls : Sound(call'[d])
  BY <1>11, <1>12 DEF IndInv
<1> QED
  BY <1>4, <1>12, <1>13, <1>15, <1>16, <1>17 DEF IndInv

\* A crash ends the calls that are under way with what they had done.
LEMMA CrashKeeps ==
  ASSUME IndInv, Crash
  PROVE  IndInv'
<1> DEFINE dead(k) ==
             [k EXCEPT !.pc = IF @ \in {"unborn", "ended"} THEN @ ELSE "dead",
                       !.closing = FALSE, !.success = IF @ = "writing" THEN "missing" ELSE @]
<1>1. \A c \in Calls : call'[c] = dead(call[c])
  BY DEF Crash
<1>2. ASSUME NEW k, Sound(k)
      PROVE  Sound(dead(k)) /\ dead(k).tool = k.tool /\ (Acts(dead(k)) => Acts(k))
             /\ (k.pc = "unborn" => dead(k).pc = "unborn")
  <2> DEFINE n == dead(k)
  <2>0. k \in Call
    BY <1>2 DEF Sound
  <2>1. n \in Call
    <3> DEFINE pc == IF k.pc \in {"unborn", "ended"} THEN k.pc ELSE "dead"
               success == IF k.success = "writing" THEN "missing" ELSE k.success
    <3>1. pc \in Pc /\ success \in {"none", "writing", "written", "missing"}
      BY <2>0 DEF Call, Pc
    <3>2. n = [k EXCEPT !.pc = pc, !.closing = FALSE, !.success = success]
      OBVIOUS
    <3> HIDE DEF n, pc, success
    <3> QED
      BY <2>0, <3>1, <3>2 DEF Call
  <2>2. /\ n.pc = IF k.pc \in {"unborn", "ended"} THEN k.pc ELSE "dead"
        /\ n.closing = FALSE
        /\ n.success = IF k.success = "writing" THEN "missing" ELSE k.success
        /\ n.failure = k.failure
        /\ n.tool = k.tool /\ n.plan = k.plan /\ n.found = k.found
        /\ n.target = k.target /\ n.attempt = k.attempt /\ n.effects = k.effects
        /\ n.lost = k.lost /\ n.task = k.task /\ n.result = k.result
    BY <2>0 DEF Call
  <2> HIDE DEF n
  <2>3. Aimed(k) => Aimed(n)
    BY <2>2 DEF Aimed
  <2>4. AimedBeforeWriting(n)
    BY <1>2, <2>2, <2>3 DEF Sound, AimedBeforeWriting
  <2>5. Counted(n)
    BY <1>2, <2>2 DEF Sound, Counted, Before
  <2>6. Staged(n)
    BY <1>2, <2>2 DEF Sound, Staged
  <2>7. Told(n)
    BY <1>2, <2>2 DEF Sound, Told
  <2>8. (Acts(n) => Acts(k)) /\ (k.pc = "unborn" => n.pc = "unborn")
    BY <1>2, <2>2 DEF Acts
  <2> QED
    BY <2>1, <2>2, <2>4, <2>5, <2>6, <2>7, <2>8 DEF Sound, n
<1>3. \A c \in Calls : Sound(call[c])
  BY DEF IndInv
<1>4. /\ \A c \in Calls : Sound(call'[c]) /\ call'[c].tool = call[c].tool
      /\ \A c \in Calls : Acts(call'[c]) => Acts(call[c])
      /\ \A c \in Calls : call[c].pc = "unborn" => call'[c].pc = "unborn"
  <2> HIDE DEF dead
  <2> QED
    BY <1>1, <1>2, <1>3
<1>5. call' \in [Calls -> Call]
  <2>1. DOMAIN call' = Calls /\ \A c \in Calls : call'[c] \in Call
    BY <1>4 DEF Crash, Sound
  <2>2. call' = [c \in Calls |-> call'[c]]
    BY DEF Crash
  <2> QED
    BY <2>1, <2>2
<1>6. /\ turn' \in [Turns -> TurnType]
      /\ \A t \in Turns : turn'[t].pc = "over" /\ turn'[t].allowed = turn[t].allowed
                          /\ turn'[t].unread = turn[t].unread
  <2>1. turn \in [Turns -> TurnType]
    BY DEF IndInv
  <2> QED
    BY <2>1 DEF Crash, TurnType
<1>7. \A c \in Calls : c[1] \in Turns
  BY DEF Calls
<1>8. Switched'
  BY <1>4, <1>6, <1>7 DEF IndInv, Switched
<1>10. Unborn'
  BY <1>6, <1>7 DEF Unborn
<1>11. faults' \in 0..MaxFaults
  BY FaultsBounded DEF Crash, IndInv
<1>12. UNCHANGED config
  BY DEF Crash
<1> QED
  BY <1>4, <1>5, <1>6, <1>8, <1>10, <1>11, <1>12 DEF IndInv

\* It holds at first: no call has been made.
LEMMA InitHolds == Init => IndInv
<1> SUFFICES ASSUME Init PROVE IndInv
  OBVIOUS
<1>1. config \in [token : BOOLEAN, location : BOOLEAN] /\ faults \in 0..MaxFaults
  BY DEF Init
<1>2. turn \in [Turns -> TurnType] /\ \A t \in Turns : turn[t].pc = "new"
  BY DEF Init, TurnType
<1>3. call \in [Calls -> Call] /\ \A c \in Calls : call[c] = NoCall
  BY NoCallTyped DEF Init
<1>4. Sound(NoCall)
  <2>1. AimedBeforeWriting(NoCall) /\ Counted(NoCall)
    BY NoCallFields DEF AimedBeforeWriting, Counted, Before
  <2>2. Staged(NoCall) /\ Told(NoCall)
    BY NoCallFields DEF Staged, Told
  <2> QED
    BY <2>1, <2>2, NoCallTyped DEF Sound
<1>5. Switched /\ Unborn
  BY <1>3, NoCallFields DEF Switched, Unborn, Acts
<1> QED
  BY <1>1, <1>2, <1>3, <1>4, <1>5 DEF IndInv

\* Every step keeps it.
LEMMA StepHolds == IndInv /\ [Next]_vars => IndInv'
<1> SUFFICES ASSUME IndInv, [Next]_vars PROVE IndInv'
  OBVIOUS
<1>1. ASSUME NEW t \in Turns, ReadSettings(t)
      PROVE  IndInv'
  <2>1. PICK allowed \in SUBSET Tools, unread \in BOOLEAN :
          turn' = [turn EXCEPT ![t] = [turn[t] EXCEPT !.pc = "ready", !.allowed = allowed,
                                                      !.unread = unread]]
    <3>1. turn[t] \in TurnType
      BY DEF IndInv
    <3>2. CASE \E enabled \in StoredSettings :
                 turn' = [turn EXCEPT ![t].pc = "ready", ![t].allowed = enabled]
      <4>1. PICK enabled \in SUBSET Tools :
              turn' = [turn EXCEPT ![t] = [turn[t] EXCEPT !.pc = "ready", !.allowed = enabled]]
        BY <3>2 DEF StoredSettings
      <4>2. [turn[t] EXCEPT !.pc = "ready", !.allowed = enabled]
              = [turn[t] EXCEPT !.pc = "ready", !.allowed = enabled, !.unread = turn[t].unread]
        BY <3>1 DEF TurnType
      <4>3. turn[t].unread \in BOOLEAN
        BY <3>1 DEF TurnType
      <4> QED
        BY <4>1, <4>2, <4>3
    <3>3. CASE turn' = [turn EXCEPT ![t].pc = "ready", ![t].allowed = Tools, ![t].unread = TRUE]
      BY <3>3
    <3> QED
      BY <1>1, <3>2, <3>3 DEF ReadSettings
  <2>2. turn[t] \in TurnType /\ turn[t].pc = "new"
    BY <1>1 DEF IndInv, ReadSettings
  <2>3. PICK u : u = [turn[t] EXCEPT !.pc = "ready", !.allowed = allowed, !.unread = unread]
    OBVIOUS
  <2>4. u \in TurnType /\ u.pc = "ready"
    BY <2>2, <2>3 DEF TurnType
  <2>5. UNCHANGED <<config, call>> /\ faults' \in 0..MaxFaults
    BY <1>1, FaultsBounded DEF ReadSettings, IndInv
  <2> QED
    BY <2>1, <2>2, <2>3, <2>4, <2>5, TurnKeeps
<1>2. ASSUME NEW t \in Turns, EndTurn(t)
      PROVE  IndInv'
  <2>1. turn[t] \in TurnType /\ turn[t].pc = "ready"
    BY <1>2 DEF IndInv, EndTurn, Between
  <2>2. PICK u : u = [turn[t] EXCEPT !.pc = "over"]
    OBVIOUS
  <2>3. turn' = [turn EXCEPT ![t] = u]
    BY <1>2, <2>2 DEF EndTurn
  <2>4. u \in TurnType /\ u.pc = "over" /\ u.allowed = turn[t].allowed
        /\ u.unread = turn[t].unread
    BY <2>1, <2>2 DEF TurnType
  <2>5. UNCHANGED <<config, call>> /\ faults' \in 0..MaxFaults
    BY <1>2, FaultsBounded DEF EndTurn, IndInv
  <2> QED
    BY <2>3, <2>4, <2>5, TurnKeeps
<1>3. ASSUME NEW t \in Turns, NEW plan \in Plans, Dispatch(t, CrmTool, plan)
      PROVE  IndInv'
  BY <1>3, DispatchKeeps
<1>4. ASSUME NEW t \in Turns, NEW tool \in Tools \ {CrmTool}, Dispatch(t, tool, NoPlan)
      PROVE  IndInv'
  BY <1>4, DispatchKeeps
<1>5. ASSUME NEW c \in Calls, CreateTask(c) \/ MarkRunning(c)
      PROVE  IndInv'
  <2>1. Moves(c)
    BY <1>5, TaskMoves DEF IndInv
  <2>2. UNCHANGED <<config, turn>> /\ faults' \in 0..MaxFaults
    BY <1>5, FaultsBounded DEF CreateTask, MarkRunning, IndInv
  <2> QED
    BY <2>1, <2>2, MoveKeeps
<1>6. ASSUME NEW c \in Calls, CrmStep(c)
      PROVE  IndInv'
  <2>1. Moves(c)
    BY <1>6, CrmMoves DEF IndInv
  <2>2. UNCHANGED <<config, turn>> /\ (Fault \/ NoFault \/ UNCHANGED faults)
    BY <1>6 DEF CrmStep, Unconfigured, NotFound, Answered, Unreadable, Unusable, Rejected,
                Unanswered, AnswerLost, ReportError, Found, Compared
  <2>3. faults' \in 0..MaxFaults
    BY <2>2, FaultsBounded DEF IndInv
  <2> QED
    BY <2>1, <2>2, <2>3, MoveKeeps
<1>7. ASSUME NEW c \in Calls, NEW result \in {"completed", "failed"}, Delegated(c, result)
      PROVE  IndInv'
  <2>1. Moves(c)
    BY <1>7, EndMoves DEF Delegated, IndInv
  <2>2. UNCHANGED <<config, turn>> /\ faults' \in 0..MaxFaults
    BY <1>7, FaultsBounded DEF Delegated, IndInv
  <2> QED
    BY <2>1, <2>2, MoveKeeps
<1>8. ASSUME NEW c \in Calls, CloseTask(c) \/ WriteLog(c)
      PROVE  IndInv'
  <2>1. Moves(c)
    BY <1>8, CloseMoves, LogMoves DEF IndInv
  <2>2. UNCHANGED <<config, turn>> /\ faults' \in 0..MaxFaults
    BY <1>8, FaultsBounded DEF CloseTask, WriteLog, IndInv
  <2> QED
    BY <2>1, <2>2, MoveKeeps
<1>9. ASSUME UNCHANGED vars
      PROVE  IndInv'
  BY <1>9 DEF vars, IndInv, Switched, Unborn
<1> QED
  BY <1>1, <1>2, <1>3, <1>4, <1>5, <1>6, <1>7, <1>8, <1>9, CrashKeeps DEF Next

-----------------------------------------------------------------------------
(* What follows for every behaviour.                                       *)

\* It holds in every state the dispatcher and the CRM sub-agent reach.
THEOREM Invariance == Spec => []IndInv
BY InitHolds, StepHolds, PTL DEF Spec

\* Every variable keeps its type: among others no call of the CRM is attempted more often
\* than request() in integrations/ghl/client allows, nor takes effect more often.
THEOREM TypeCorrect == Spec => []TypeOK
<1>1. IndInv => TypeOK
  BY DEF IndInv, TypeOK, TurnType, Call, PlanSet
<1> QED
  BY <1>1, Invariance, PTL

\* Whatever the admin switches meanwhile, however requests are retried and whenever the
\* process dies, something is written to the CRM only for a tool that its turn found on,
\* or could not tell to be off, and what concerns a contact only to the one the call
\* names or the only one its query finds.
THEOREM WrittenAsMeant == Spec => []WritesAreMeant
<1>1. ASSUME IndInv, NEW c \in Calls, call[c].effects > 0
      PROVE  /\ turn[c[1]].unread \/ call[c].tool \in turn[c[1]].allowed
             /\ call[c].plan.search \/ call[c].plan.contact # NoContact
                  => call[c].found = {call[c].target}
  <2>1. turn[c[1]].unread \/ call[c].tool \in turn[c[1]].allowed
    BY <1>1 DEF IndInv, Switched, Acts
  <2>2. Aimed(call[c])
    BY <1>1 DEF IndInv, Sound, AimedBeforeWriting
  <2> QED
    BY <2>1, <2>2 DEF Aimed
<1>2. IndInv => WritesAreMeant
  BY <1>1 DEF WritesAreMeant
<1> QED
  BY <1>2, Invariance, PTL

\* What the model, the action log and the task row are told of a call agrees with how
\* often it took effect, but for one more time per answer that was lost; only a call that
\* wrote nothing has a success in the log and an error after it.
THEOREM TruthTold == Spec => []ToldTheTruth
<1>1. ASSUME IndInv, NEW c \in Calls
      PROVE  Told(call[c]) /\ (call[c].result # "completed" => call[c].effects = call[c].lost)
  BY <1>1 DEF IndInv, Sound, Counted
<1>2. IndInv => ToldTheTruth
  BY <1>1 DEF ToldTheTruth, Told
<1> QED
  BY <1>2, Invariance, PTL

-----------------------------------------------------------------------------
(* What a call was told is final.                                          *)

\* The calls of a turn that are not dispatched yet lie ahead of the one at hand, so that no
\* call is dispatched over another.
Ahead == \A c \in Calls : turn[c[1]].at < c[2] => call[c].pc = "unborn"

\* Once a call has ended, or died with the process, what it did and what it was told stays;
\* the statements behind it only write the entry of the log that was under way, and the
\* status of the task that the answer had.
AnswerStands == \A c \in Calls : call[c].pc \in {"ended", "dead"} =>
  LET k == call[c]  n == call'[c] IN
  /\ n.pc = k.pc /\ n.result = k.result /\ n.effects = k.effects /\ n.lost = k.lost
  /\ n.success = k.success \/ k.success = "writing"
  /\ n.failure = k.failure
  /\ n.task = k.task \/ (k.closing /\ n.task = k.result)

AtStays == \A t \in Turns : turn'[t].at = turn[t].at

\* A call under way takes its step.
Underway(c) ==
  /\ call[c].pc \notin {"unborn", "ended", "dead"}
  /\ \A d \in Calls \ {c} : call'[d] = call[d]

\* A statement behind a call that has ended.
Behind(c) ==
  /\ call[c].pc \in {"ended", "dead"} /\ call'[c].pc = call[c].pc
  /\ call'[c].result = call[c].result
  /\ call'[c].effects = call[c].effects /\ call'[c].lost = call[c].lost
  /\ call'[c].success = call[c].success \/ call[c].success = "writing"
  /\ call'[c].failure = call[c].failure
  /\ call'[c].task = call[c].task \/ (call[c].closing /\ call'[c].task = call[c].result)
  /\ \A d \in Calls \ {c} : call'[d] = call[d]

\* The next call of a turn.
Begun(t) ==
  /\ \A u \in Turns : turn'[u].at = IF u = t THEN turn[t].at + 1 ELSE turn[u].at
  /\ turn[t].at \in Nat /\ \A d \in Calls : d # <<t, turn[t].at + 1>> => call'[d] = call[d]

\* All calls at the end of the process.
Died ==
  \A c \in Calls :
    /\ call[c].pc \in {"unborn", "ended", "dead"} => call'[c].pc = call[c].pc
    /\ call'[c].result = call[c].result /\ call'[c].effects = call[c].effects
    /\ call'[c].lost = call[c].lost /\ call'[c].task = call[c].task
    /\ call'[c].success = call[c].success \/ call[c].success = "writing"
    /\ call'[c].failure = call[c].failure

\* The requests of a call are made while it is under way.
LEMMA CrmUnderway ==
  ASSUME call \in [Calls -> Call], NEW c \in Calls, CrmStep(c)
  PROVE  Underway(c) /\ UNCHANGED turn
<1>1. call[c].pc \in Requesting \cup {"reporting"}
  BY DEF CrmStep, Unconfigured, NotFound, Answered, Unreadable, Unusable, Rejected, Unanswered,
         AnswerLost, ReportError, Found, Compared, Writes, Requesting, Call
<1>2. \E n : call' = [call EXCEPT ![c] = n]
  BY DEF CrmStep, Unconfigured, NotFound, Answered, Unreadable, Unusable, Rejected, Unanswered,
         AnswerLost, ReportError, Found, Compared, Becomes
<1>3. UNCHANGED turn
  BY DEF CrmStep, Unconfigured, NotFound, Answered, Unreadable, Unusable, Rejected, Unanswered,
         AnswerLost, ReportError, Found, Compared
<1> QED
  BY <1>1, <1>2, <1>3 DEF Underway, Requesting

\* A statement nobody waits for leaves what a call did and was told.
LEMMA WrittenBehind ==
  ASSUME IndInv, NEW c \in Calls, CloseTask(c) \/ WriteLog(c)
  PROVE  (Underway(c) \/ Behind(c)) /\ UNCHANGED turn
<1>1. PICK k : k = call[c]
  OBVIOUS
<1>2. k \in Call /\ Staged(k) /\ k.pc # "unborn" /\ call \in [Calls -> Call]
  BY <1>1 DEF IndInv, Sound, Staged, CloseTask, WriteLog
<1>3. CASE CloseTask(c)
  <2>1. PICK n : /\ call' = [call EXCEPT ![c] = n]
                 /\ n \in {[k EXCEPT !.closing = FALSE, !.task = k.result],
                           [k EXCEPT !.closing = FALSE]}
    BY <1>1, <1>3 DEF CloseTask, Becomes
  <2>2. /\ n.pc = k.pc /\ n.result = k.result /\ n.effects = k.effects /\ n.lost = k.lost
        /\ n.success = k.success /\ n.failure = k.failure /\ n.task \in {k.task, k.result}
    BY <1>2, <2>1 DEF Call
  <2>3. k.closing /\ k.pc = "ended" /\ UNCHANGED turn
    BY <1>1, <1>2, <1>3 DEF CloseTask, Staged
  <2>4. call'[c] = n /\ \A d \in Calls \ {c} : call'[d] = call[d]
    BY <1>2, <2>1
  <2> QED
    BY <1>1, <2>2, <2>3, <2>4 DEF Behind
<1>4. CASE WriteLog(c)
  <2>1. PICK n : /\ call' = [call EXCEPT ![c] = n]
                 /\ n \in {[k EXCEPT !.success = "written"], [k EXCEPT !.success = "missing"]}
    BY <1>1, <1>4 DEF WriteLog, Becomes
  <2>2. /\ n.pc = k.pc /\ n.result = k.result /\ n.effects = k.effects /\ n.lost = k.lost
        /\ n.task = k.task /\ n.failure = k.failure
    BY <1>2, <2>1 DEF Call
  <2>3. k.success = "writing" /\ k.pc \in {"ended", "reporting", "dead"} /\ UNCHANGED turn
    BY <1>1, <1>2, <1>4 DEF WriteLog, Staged
  <2>4. call'[c] = n /\ \A d \in Calls \ {c} : call'[d] = call[d]
    BY <1>2, <2>1
  <2> QED
    BY <1>1, <2>2, <2>3, <2>4 DEF Behind, Underway
<1> QED
  BY <1>3, <1>4

\* A dispatch moves its turn to the next call and leaves the others alone.
LEMMA DispatchBegins ==
  ASSUME IndInv, NEW t \in Turns, NEW tool, NEW plan, Dispatch(t, tool, plan)
  PROVE  Begun(t)
<1>1. turn \in [Turns -> TurnType] /\ call \in [Calls -> Call]
  BY DEF IndInv
<1>2. turn' = [turn EXCEPT ![t].at = turn[t].at + 1]
  BY DEF Dispatch
<1>3. \E n : call' = [call EXCEPT ![<<t, turn[t].at + 1>>] = n]
  BY DEF Dispatch, Becomes
<1>4. \A u \in Turns : turn'[u].at = IF u = t THEN turn[t].at + 1 ELSE turn[u].at
  BY <1>1, <1>2 DEF TurnType
<1>5. turn[t].at \in Nat
  BY <1>1 DEF TurnType
<1> QED
  BY <1>1, <1>3, <1>4, <1>5 DEF Begun

\* What steps do to the calls.
LEMMA Kinds ==
  ASSUME IndInv, [Next]_vars
  PROVE  \/ AtStays /\ \E c \in Calls : Underway(c) \/ Behind(c)
         \/ AtStays /\ UNCHANGED call
         \/ AtStays /\ Died
         \/ \E t \in Turns : Begun(t)
<1>1. turn \in [Turns -> TurnType] /\ call \in [Calls -> Call]
  BY DEF IndInv
<1>2. ASSUME NEW t \in Turns, ReadSettings(t) \/ EndTurn(t)
      PROVE  AtStays /\ UNCHANGED call
  <2>1. UNCHANGED call
    BY <1>2 DEF ReadSettings, EndTurn
  <2>2. \A u \in Turns : turn'[u].at = turn[u].at
    BY <1>1, <1>2 DEF ReadSettings, EndTurn, TurnType
  <2> QED
    BY <2>1, <2>2 DEF AtStays
<1>3. ASSUME NEW c \in Calls, CreateTask(c) \/ MarkRunning(c)
      PROVE  AtStays /\ Underway(c)
  BY <1>1, <1>3 DEF CreateTask, MarkRunning, Becomes, AtStays, Underway
<1>4. ASSUME NEW c \in Calls, NEW result, Delegated(c, result)
      PROVE  AtStays /\ Underway(c)
  BY <1>1, <1>4 DEF Delegated, Becomes, AtStays, Underway
<1>5. ASSUME NEW c \in Calls, CrmStep(c)
      PROVE  AtStays /\ Underway(c)
  BY <1>1, <1>5, CrmUnderway DEF AtStays
<1>6. ASSUME NEW c \in Calls, CloseTask(c) \/ WriteLog(c)
      PROVE  AtStays /\ (Underway(c) \/ Behind(c))
  BY <1>6, WrittenBehind DEF AtStays
<1>7. ASSUME Crash
      PROVE  AtStays /\ Died
  <2>1. AtStays
    BY <1>1, <1>7 DEF Crash, AtStays, TurnType
  <2>2. ASSUME NEW k \in Call, NEW pc, NEW success
        PROVE  LET n == [k EXCEPT !.pc = pc, !.closing = FALSE, !.success = success] IN
               /\ n.pc = pc /\ n.success = success /\ n.failure = k.failure
               /\ n.result = k.result /\ n.effects = k.effects
               /\ n.lost = k.lost /\ n.task = k.task
    BY DEF Call
  <2>3. \A c \in Calls : call'[c] =
          [call[c] EXCEPT !.pc = IF call[c].pc \in {"unborn", "ended"} THEN call[c].pc ELSE "dead",
                          !.closing = FALSE,
                          !.success = IF call[c].success = "writing" THEN "missing"
                                      ELSE call[c].success]
    BY <1>7 DEF Crash
  <2>4. ASSUME NEW c \in Calls
        PROVE  /\ call'[c].pc = IF call[c].pc \in {"unborn", "ended"} THEN call[c].pc ELSE "dead"
               /\ call'[c].success = IF call[c].success = "writing" THEN "missing"
                                     ELSE call[c].success
               /\ call'[c].failure = call[c].failure
               /\ call'[c].result = call[c].result /\ call'[c].effects = call[c].effects
               /\ call'[c].lost = call[c].lost /\ call'[c].task = call[c].task
    <3>1. PICK k : k = call[c]
      OBVIOUS
    <3>2. PICK pc : pc = IF k.pc \in {"unborn", "ended"} THEN k.pc ELSE "dead"
      OBVIOUS
    <3>3. PICK success : success = IF k.success = "writing" THEN "missing" ELSE k.success
      OBVIOUS
    <3>4. k \in Call /\ call'[c] = [k EXCEPT !.pc = pc, !.closing = FALSE, !.success = success]
      BY <1>1, <2>3, <3>1, <3>2, <3>3
    <3> QED
      BY <2>2, <3>1, <3>2, <3>3, <3>4
  <2>5. Died
    BY <2>4 DEF Died
  <2> QED
    BY <2>1, <2>5
<1>8. CASE UNCHANGED vars
  BY <1>8 DEF vars, AtStays
<1>9. ASSUME NEW t \in Turns, NEW tool, NEW plan, Dispatch(t, tool, plan)
      PROVE  Begun(t)
  BY <1>9, DispatchBegins
<1> QED
  BY <1>2, <1>3, <1>4, <1>5, <1>6, <1>7, <1>8, <1>9 DEF Next

\* The calls ahead stay so.
LEMMA AheadStep ==
  ASSUME IndInv, Ahead, [Next]_vars
  PROVE  Ahead'
<1> SUFFICES ASSUME NEW c \in Calls, turn'[c[1]].at < c[2]
             PROVE  call'[c].pc = "unborn"
  BY DEF Ahead
<1>0. c[1] \in Turns /\ c[2] \in Nat /\ c = <<c[1], c[2]>>
  BY DEF Calls
<1>1. CASE AtStays /\ \E d \in Calls : Underway(d) \/ Behind(d)
  <2>1. call[c].pc = "unborn"
    BY <1>0, <1>1 DEF Ahead, AtStays
  <2> QED
    BY <1>1, <2>1 DEF Underway, Behind
<1>2. CASE AtStays /\ (Died \/ UNCHANGED call)
  <2>1. call[c].pc = "unborn"
    BY <1>0, <1>2 DEF Ahead, AtStays
  <2> QED
    BY <1>2, <2>1 DEF Died
<1>3. ASSUME NEW t \in Turns, Begun(t)
      PROVE  call'[c].pc = "unborn"
  <2>0. turn[c[1]].at \in Nat
    BY <1>0 DEF IndInv, TurnType
  <2>1. turn[c[1]].at < c[2] /\ c # <<t, turn[t].at + 1>>
    BY <1>0, <1>3, <2>0 DEF Begun
  <2>2. call'[c] = call[c] /\ call[c].pc = "unborn"
    BY <1>3, <2>1 DEF Begun, Ahead
  <2> QED
    BY <2>2
<1> QED
  BY <1>1, <1>2, <1>3, Kinds

\* So no step changes what a call that is over did or was told.
LEMMA AnswerStep ==
  ASSUME IndInv, Ahead, [Next]_vars
  PROVE  AnswerStands
<1> SUFFICES ASSUME NEW c \in Calls, call[c].pc \in {"ended", "dead"}
             PROVE  LET k == call[c]  n == call'[c] IN
                    /\ n.pc = k.pc /\ n.result = k.result /\ n.effects = k.effects
                    /\ n.lost = k.lost
                    /\ n.success = k.success \/ k.success = "writing"
                    /\ n.failure = k.failure
                    /\ n.task = k.task \/ (k.closing /\ n.task = k.result)
  BY DEF AnswerStands
<1>1. CASE \E d \in Calls : Underway(d)
  BY <1>1 DEF Underway
<1>2. CASE \E d \in Calls : Behind(d)
  BY <1>2 DEF Behind
<1>3. CASE Died \/ UNCHANGED call
  BY <1>3 DEF Died
<1>4. ASSUME NEW t \in Turns, Begun(t)
      PROVE  call'[c] = call[c]
  <2>0. turn[t].at \in Nat
    BY <1>4 DEF Begun
  <2>1. c # <<t, turn[t].at + 1>>
    <3>1. SUFFICES ASSUME c = <<t, turn[t].at + 1>>
                   PROVE  FALSE
      OBVIOUS
    <3>2. c[1] = t /\ c[2] = turn[t].at + 1
      BY <3>1
    <3>3. call[c].pc = "unborn"
      BY <2>0, <3>2 DEF Ahead
    <3> QED
      BY <3>3
  <2> QED
    BY <1>4, <2>1 DEF Begun
<1> QED
  BY <1>1, <1>2, <1>3, <1>4, Kinds

\* Statements behind an answer, a crash, the next call of the turn: nothing changes what a
\* call that is over did to the CRM or was told, and its task row and log entry only get
\* what goes with that.
THEOREM AnswerStays == Spec => [][AnswerStands]_vars
<1>1. Init => Ahead
  BY NoCallFields DEF Init, Ahead
<1>2. IndInv /\ Ahead /\ [Next]_vars => Ahead' /\ AnswerStands
  BY AheadStep, AnswerStep
<1> QED
  BY <1>1, <1>2, Invariance, PTL DEF Spec

=============================================================================
