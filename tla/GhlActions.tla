----------------------------- MODULE GhlActions -----------------------------
(***************************************************************************)
(* The operations of the CRM tool as tables: what each handler of          *)
(* services/subagents/ghl-crm.service requires of its input and which      *)
(* wrapper of integrations/ghl/client it calls, the fields an update may   *)
(* set, the actions the tool offers and those the dispatcher lets through. *)
(* SubAgents runs them.                                                    *)
(***************************************************************************)
EXTENDS FiniteSets

-----------------------------------------------------------------------------
(* Wrappers of the REST interface: the method, whether the location must be *)
(* configured, whether the code fails on an answer that lacks what it reads *)
(* before the action log is told of a success (entity), and whether it may *)
(* fail on what it reads after that, for the summary (items).              *)

Wrapper(method, located, entity) ==
  [method |-> method, located |-> located, entity |-> entity, items |-> FALSE]

\* A missing list is an empty one, but what it holds need not be what it should.
ListingOf(located) == [Wrapper("GET", located, FALSE) EXCEPT !.items = TRUE]

Listing == ListingOf(TRUE)                 \* of the location
Reading == Wrapper("GET", FALSE, TRUE)     \* one thing by its id
Sending == Wrapper("POST", FALSE, TRUE)
Deleting == Wrapper("DELETE", FALSE, FALSE)

searchContacts == Listing                  \* one may be counted and none listed
getContact == Wrapper("GET", FALSE, FALSE)
updateContact == Wrapper("PUT", FALSE, TRUE)
createContact == Wrapper("POST", TRUE, TRUE)
getPipelines == Listing
createOpportunity == Wrapper("POST", TRUE, TRUE)
getOpportunity == Reading
updateOpportunity == Wrapper("PUT", FALSE, TRUE)
addNote == Wrapper("POST", FALSE, TRUE)
listNotes == ListingOf(FALSE)
sendSms == Sending
listCalendars == Listing
getFreeSlots == ListingOf(FALSE)
createAppointment == Wrapper("POST", TRUE, TRUE)
getAppointment == Reading
updateAppointment == Wrapper("PUT", FALSE, TRUE)
listUsers == Listing
getLocation == Wrapper("GET", TRUE, TRUE)
updateLocation == Wrapper("PUT", TRUE, TRUE)
listReviews == Listing
createInvoice == Wrapper("POST", TRUE, TRUE)
getInvoice == Reading
listInvoices == Listing
updateInvoice == Wrapper("PUT", FALSE, TRUE)
sendInvoice == Wrapper("POST", FALSE, TRUE)
listOrders == Listing
getOrder == Reading
deleteCalendarEvent == Deleting
listContactAppointments == ListingOf(FALSE)
listCampaigns == Listing
listWorkflows == Listing
triggerWorkflow == Wrapper("POST", FALSE, FALSE)
listForms == Listing
getFormSubmissions == Listing
listSurveys == Listing
getSurveySubmissions == Listing
sendEmail == Sending
listConversations == Listing
getConversation == [Reading EXCEPT !.items = TRUE]
updateConversation == Wrapper("PUT", FALSE, TRUE)
listConversationMessages == ListingOf(FALSE)
searchOpportunities == Listing
deleteOpportunity == Deleting
getNote == Reading
updateNote == Wrapper("PUT", FALSE, TRUE)
deleteNote == Deleting
createTask == Wrapper("POST", FALSE, TRUE)
listTasks == ListingOf(FALSE)
getTask == Reading
updateTask == Wrapper("PUT", FALSE, TRUE)
deleteTask == Deleting

-----------------------------------------------------------------------------
(* Handlers: needs holds a set of alternatives per required argument;      *)
(* resolves says that a contact given by a query is searched for; named are *)
(* the arguments an update is put together from, and updates says how the  *)
(* free-form argument of that name is used: "none", "merged" as it is, or  *)
(* "checked" by validateUpdates.  compares: the contact is read first and  *)
(* only what differs is sent.                                              *)

Handler(api, needs) ==
  [api |-> api, needs |-> needs, resolves |-> FALSE, named |-> {}, updates |-> "none",
   compares |-> FALSE]

Resolving(api, needs) == [Handler(api, needs) EXCEPT !.resolves = TRUE]

Updating(api, needs, named, updates) ==
  [Handler(api, needs) EXCEPT !.named = named, !.updates = updates]

ById(id) == {{id}}
OfContact(id) == {{"contactId"}, {id}}

handleSearchContact == Handler(searchContacts, {{"query"}})
handleGetContact == Handler(getContact, ById("contactId"))
handleUpdateContact ==
  [Updating(updateContact, {}, {}, "checked") EXCEPT !.resolves = TRUE, !.compares = TRUE]
handleCreateContact == Updating(createContact, {}, {}, "checked")

handleGetPipelines == Handler(getPipelines, {})
handleCreateOpportunity ==
  Resolving(createOpportunity, {{"opportunityName"}, {"pipelineId"}, {"pipelineStageId"}})
handleGetOpportunity == Handler(getOpportunity, ById("opportunityId"))
handleUpdateOpportunity == Updating(updateOpportunity, ById("opportunityId"),
  {"pipelineStageId", "opportunityStatus", "opportunityName", "monetaryValue", "assignedTo"}, "merged")
handleSearchOpportunities == Handler(searchOpportunities, {})
handleDeleteOpportunity == Handler(deleteOpportunity, ById("opportunityId"))

handleAddNote == Resolving(addNote, {{"noteBody"}})
handleListNotes == Resolving(listNotes, {})
handleGetNote == Handler(getNote, OfContact("noteId"))
handleUpdateNote == Handler(updateNote, OfContact("noteId") \cup {{"noteBody"}})
handleDeleteNote == Handler(deleteNote, OfContact("noteId"))

handleSendSms == Resolving(sendSms, {{"message"}})
handleSendEmail ==
  Resolving(sendEmail, {{"emailSubject"}, {"emailBody", "message", "emailHtml"}})

handleListConversations == Handler(listConversations, {})
handleGetConversation == Handler(getConversation, ById("conversationId"))
handleUpdateConversation == Updating(updateConversation, ById("conversationId"),
  {"conversationStatus", "assignedTo"}, "merged")
handleListConversationMessages == Handler(listConversationMessages, ById("conversationId"))

handleListCalendars == Handler(listCalendars, {})
handleGetFreeSlots == Handler(getFreeSlots, {{"calendarId"}, {"startTime"}, {"endTime"}})
handleCreateAppointment ==
  Resolving(createAppointment, {{"calendarId"}, {"startTime"}, {"endTime"}})
handleGetAppointment == Handler(getAppointment, ById("eventId"))
handleUpdateCalendarEvent == Updating(updateAppointment, ById("eventId"),
  {"startTime", "endTime", "title", "appointmentNotes"}, "none")
handleDeleteCalendarEvent == Handler(deleteCalendarEvent, ById("eventId"))
handleListContactAppointments == Resolving(listContactAppointments, {})

handleListUsers == Handler(listUsers, {})
handleGetLocation == Handler(getLocation, {})
handleUpdateLocation == Updating(updateLocation, {}, {"locationUpdates"}, "merged")
handleListReviews == Handler(listReviews, {})

handleCreateInvoice == Resolving(createInvoice, {})
handleGetInvoice == Handler(getInvoice, ById("invoiceId"))
handleListInvoices == Handler(listInvoices, {})
handleSendInvoice == Handler(sendInvoice, ById("invoiceId"))
handleUpdateInvoice == Updating(updateInvoice, ById("invoiceId"),
  {"invoiceName", "dueDate", "currency", "invoiceItems"}, "none")
handleListOrders == Handler(listOrders, {})
handleGetOrder == Handler(getOrder, ById("orderId"))

handleListCampaigns == Handler(listCampaigns, {})
handleListWorkflows == Handler(listWorkflows, {})
handleTriggerWorkflow == Resolving(triggerWorkflow, ById("workflowId"))
handleListForms == Handler(listForms, {})
handleGetFormSubmissions == Handler(getFormSubmissions, {})
handleListSurveys == Handler(listSurveys, {})
handleGetSurveySubmissions == Handler(getSurveySubmissions, {})

handleCreateTask == Resolving(createTask, {{"taskTitle", "title"}})
handleListTasks == Resolving(listTasks, {})
handleGetTask == Handler(getTask, OfContact("taskId"))
handleUpdateTask == Updating(updateTask, OfContact("taskId"),
  {"taskTitle", "title", "taskBody", "noteBody", "taskDueDate", "dueDate", "taskStatus",
   "taskCompleted", "assignedTo"}, "merged")
handleDeleteTask == Handler(deleteTask, OfContact("taskId"))

executeGhlTask ==
  [search_contact |-> handleSearchContact, get_contact |-> handleGetContact,
   update_contact |-> handleUpdateContact, create_contact |-> handleCreateContact,
   create_opportunity |-> handleCreateOpportunity, get_opportunity |-> handleGetOpportunity,
   update_opportunity |-> handleUpdateOpportunity,
   search_opportunities |-> handleSearchOpportunities,
   delete_opportunity |-> handleDeleteOpportunity, get_pipelines |-> handleGetPipelines,
   add_note |-> handleAddNote, list_notes |-> handleListNotes, get_note |-> handleGetNote,
   update_note |-> handleUpdateNote, delete_note |-> handleDeleteNote,
   send_sms |-> handleSendSms, list_conversations |-> handleListConversations,
   get_conversation |-> handleGetConversation, update_conversation |-> handleUpdateConversation,
   list_conversation_messages |-> handleListConversationMessages,
   list_calendars |-> handleListCalendars, get_free_slots |-> handleGetFreeSlots,
   create_appointment |-> handleCreateAppointment, get_appointment |-> handleGetAppointment,
   update_calendar_event |-> handleUpdateCalendarEvent,
   delete_calendar_event |-> handleDeleteCalendarEvent,
   list_contact_appointments |-> handleListContactAppointments,
   list_users |-> handleListUsers, get_location |-> handleGetLocation,
   update_location |-> handleUpdateLocation, list_reviews |-> handleListReviews,
   create_invoice |-> handleCreateInvoice, get_invoice |-> handleGetInvoice,
   list_invoices |-> handleListInvoices, send_invoice |-> handleSendInvoice,
   update_invoice |-> handleUpdateInvoice, list_orders |-> handleListOrders,
   get_order |-> handleGetOrder, list_campaigns |-> handleListCampaigns,
   list_workflows |-> handleListWorkflows, trigger_workflow |-> handleTriggerWorkflow,
   list_forms |-> handleListForms, get_form_submissions |-> handleGetFormSubmissions,
   list_surveys |-> handleListSurveys, get_survey_submissions |-> handleGetSurveySubmissions,
   send_email |-> handleSendEmail, create_task |-> handleCreateTask,
   list_tasks |-> handleListTasks, get_task |-> handleGetTask,
   update_task |-> handleUpdateTask, delete_task |-> handleDeleteTask]

\* The actions the tool's definition offers to the model: all of them.
OfferedActions == DOMAIN executeGhlTask

\* The arguments it offers besides the action.
Parameters ==
  {"query", "contactId", "updates", "noteBody", "message", "opportunityName", "pipelineId",
   "pipelineStageId", "monetaryValue", "calendarId", "startTime", "endTime", "title",
   "appointmentNotes", "eventId", "invoiceId", "invoiceName", "invoiceItems", "dueDate",
   "currency", "orderId", "locationUpdates", "workflowId", "formId", "surveyId", "emailSubject",
   "emailBody", "emailHtml", "conversationId", "conversationStatus", "assignedTo",
   "opportunityId", "opportunityStatus", "noteId", "taskId", "taskTitle", "taskBody",
   "taskDueDate", "taskStatus", "taskCompleted"}

\* The actions the dispatcher takes; for any other it runs search_contact.
VALID_GHL_ACTIONS == OfferedActions \ {"get_task", "get_appointment", "update_invoice"}

-----------------------------------------------------------------------------
(* The check of a contact's fields.                                        *)

GHL_EDITABLE_FIELDS ==
  {"firstName", "lastName", "email", "phone", "address1", "city", "state", "postalCode",
   "website", "tags"}

\* Values by what the check tells apart: text of up to 20, up to 500 and more
\* characters, a telephone number and an address (text of up to 20 characters too),
\* white space, nothing, a list with and without a usable tag, something else.
ValueKind == {"text", "text21", "text501", "phone", "email", "blank", "empty", "tags", "notags",
              "other"}
ShortText == {"text", "phone", "email"}

validateFieldValue(field, kind) ==
  CASE field = "phone" -> kind = "phone"
    [] field = "email" -> kind = "email"
    [] field = "postalCode" -> kind \in ShortText
    [] field = "tags" -> kind = "tags"
    [] OTHER -> kind \in ShortText \cup {"text21"}

\* updates: pairs of a field and the kind of its value.
validateUpdates(updates) ==
  /\ updates # {}
  /\ \A u \in updates : u[1] \in GHL_EDITABLE_FIELDS /\ validateFieldValue(u[1], u[2])
=============================================================================
