------------------------------- MODULE Turns --------------------------------
(***************************************************************************)
(* executeEvent of the orchestrator for events of several threads at once: *)
(* the conversation and its participant, the model calls with routing,     *)
(* escalation and spend controls, the tools, the reply, the memory of the  *)
(* user, the usage log, and the title that is generated behind the reply.  *)
(* What tools do is in other modules; here they only give results.         *)
(***************************************************************************)
EXTENDS Routing, FiniteSets, Functions

CONSTANTS
  Threads,       \* external threads
  Users,         \* a user writes in several threads, and several may in one
  Slots,         \* turns under way at once
  MaxEvents,     \* bound: events of a behaviour
  Facts,         \* kinds of facts a message may hold, each with one key of memory
  Messages,      \* signals and fact of a message
  OtherModels,   \* models that settings may name and the tables do not know
  SettingsSet,   \* routing settings
  PromptTokens,  \* estimate for a request and, with the tool results, its follow-up
  PromptCharges, \* what a provider may count for it instead
  Reported,      \* the name by which the provider reports a model, the same in every call
  MaxFaults      \* bound: failed statements, and failed calls that cost money

\* What patterns find in a message, and how important it is, in hundredths.
Importance ==
  [name |-> 90, location |-> 70, company |-> 80, preference |-> 60, favorite |-> 70,
   personal |-> 70, remembered |-> 80, phone |-> 90, email |-> 90]

\* A fact found again is written again.
Lasting == {f \in DOMAIN Importance : Importance[f] >= 70}

Models == PricedModels \cup OtherModels
NoFact == "no fact"
NoThread == "no thread"
NoUser == "no user"

ASSUME TurnsAssumption ==
  /\ MaxEvents \in Nat /\ MaxFaults \in Nat /\ IsFiniteSet(Slots)
  /\ Facts \subseteq DOMAIN Importance /\ NoThread \notin Threads
  /\ Messages \subseteq [kind : Signals, fact : Facts \cup {NoFact}]
  /\ SettingsSet \subseteq [primary : Models, fallback : Models, requestCap : Nat \cup {NoCap},
                            monthlyCap : Nat \cup {NoCap},
                            rules : Seq([pattern : STRING \X STRING, model : Models, priority : Nat])]
  /\ PromptTokens \in [{"initial", "follow_up"} -> Nat]
  /\ PromptCharges \in [{"initial", "follow_up"} -> SUBSET Nat]
  /\ Reported \in [Models \cup {"none"} -> Models]

VARIABLES
  settings,       \* model_routing, read once per turn; it does not change here
  conversations,  \* threads with a conversation row
  participants,   \* threads and users with a participant row
  turn,           \* a turn per slot
  started,        \* events taken so far
  memory,         \* rows per user and key
  usage,          \* cost_usd in the usage log of the month, by the slot of the turn
  titling,        \* title generations under way per thread
  titles,         \* title writes per thread
  spent,          \* history: cost of all calls but those for titles, by slot
  excess,         \* history: by how much the last answered call of a slot cost more
                  \* than it would have with the prompt that was estimated
  raced,          \* history: threads of which two turns were under way at once
  atOnce,         \* history: the most turns of a user under way at once
  titlers,        \* history: the most titles of a thread generated at once
  failed,         \* history: threads of events that threw
  faults

rows == <<conversations, participants>>
money == <<usage, spent, excess>>
behind == <<titling, titles, titlers>>
history == <<raced, atOnce>>
vars == <<settings, rows, turn, started, memory, money, behind, history, failed, faults>>

Pcs == {"idle", "finding", "creating", "meeting", "joining", "preparing", "calling", "retrying",
        "using_tools", "following", "replying", "remembering", "storing", "inserting", "logging",
        "finishing", "apologizing"}

NoRoute == [model |-> "none", tier |-> "cheap", escalated |-> FALSE]
Idle == [pc |-> "idle", thread |-> NoThread, user |-> NoUser,
         kind |-> CHOOSE s \in Signals : TRUE, fact |-> NoFact,
         routing |-> NoRoute, maxTokens |-> NoCap, monthly |-> 0, cost |-> 0]

Init ==
  /\ settings \in SettingsSet
  /\ conversations = {} /\ participants = {}
  /\ turn = [t \in Slots |-> Idle]
  /\ started = 0
  /\ memory = [u \in Users |-> [f \in Facts |-> 0]]
  /\ usage = [t \in Slots |-> 0] /\ spent = usage /\ excess = usage
  /\ titling = [c \in Threads |-> 0] /\ titles = titling /\ titlers = titling
  /\ raced = {} /\ atOnce = [u \in Users |-> 0] /\ failed = {}
  /\ faults = 0

Fault == faults < MaxFaults /\ faults' = faults + 1

Active == {t \in Slots : turn[t].pc # "idle"}
TurnsOf(user) == {t \in Active : turn[t].user = user}
Goes(t, pc) == turn' = [turn EXCEPT ![t].pc = pc]
Ends(t) == turn' = [turn EXCEPT ![t] = Idle]

Larger(m, n) == IF m < n THEN n ELSE m

\* executeEvent throws: its caller apologizes, and nothing more is written.
Throws(t) == Ends(t) /\ failed' = failed \cup {turn[t].thread}

\* A new event; which slot it takes makes no difference.
Begin(c, user, message) == LET t == CHOOSE u \in Slots : u \notin Active IN
  /\ started < MaxEvents /\ Active # Slots
  /\ turn' = [turn EXCEPT ![t].pc = "finding", ![t].thread = c, ![t].user = user,
                          ![t].kind = message.kind, ![t].fact = message.fact]
  /\ started' = started + 1
  /\ raced' = IF \E u \in Active : turn[u].thread = c THEN raced \cup {c} ELSE raced
  /\ atOnce' = [atOnce EXCEPT ![user] = Larger(@, Cardinality(TurnsOf(user)) + 1)]
  /\ UNCHANGED <<settings, rows, memory, money, behind, failed, faults>>

-----------------------------------------------------------------------------
(* resolveConversation: find, then create, first the conversation and then *)
(* its participant.  A unique key refuses the second row.                  *)

Member(t) == <<turn[t].thread, turn[t].user>>

MMeet(t) ==
  /\ turn[t].pc = "meeting"
  /\ Goes(t, "joining")
  /\ UNCHANGED <<settings, rows, started, memory, money, behind, history, failed, faults>>

FindConversation(t) ==
  /\ turn[t].pc = "finding"
  /\ Goes(t, IF turn[t].thread \in conversations THEN "meeting" ELSE "creating")
  /\ UNCHANGED <<settings, rows, started, memory, money, behind, history, failed, faults>>

CreateConversation(t) ==
  /\ turn[t].pc = "creating"
  /\ IF turn[t].thread \in conversations THEN Throws(t) ELSE Goes(t, "meeting") /\ UNCHANGED failed
  /\ conversations' = conversations \cup {turn[t].thread}
  /\ UNCHANGED <<settings, participants, started, memory, money, behind, history, faults>>

Meet(t) ==
  /\ turn[t].pc = "meeting"
  /\ Goes(t, IF Member(t) \in participants THEN "preparing" ELSE "joining")
  /\ UNCHANGED <<settings, rows, started, memory, money, behind, history, failed, faults>>

Join(t) ==
  /\ turn[t].pc = "joining"
  /\ IF Member(t) \in participants THEN Throws(t) ELSE Goes(t, "preparing") /\ UNCHANGED failed
  /\ participants' = participants \cup {Member(t)}
  /\ UNCHANGED <<settings, conversations, started, memory, money, behind, history, faults>>

\* A statement nothing guards fails: finding or writing a row, reading the settings
\* or the cost of the month, writing the reply.
StatementFails(t) ==
  /\ turn[t].pc \in {"finding", "creating", "meeting", "joining", "preparing", "replying"}
  /\ Fault /\ Throws(t)
  /\ UNCHANGED <<settings, rows, started, memory, money, behind, history>>

-----------------------------------------------------------------------------
(* The model calls.                                                        *)

Outcome(t, r, stage, monthly, cost) ==
  enforceSpendControls(r, turn[t].kind, settings, stage, PromptTokens[stage], monthly, cost)

\* What the spend controls decide: the next call, or a reply without it.
Controlled(t, outcome, monthly, pc, blocked) ==
  turn' = [turn EXCEPT ![t].pc = IF outcome.blocked THEN blocked ELSE pc,
                       ![t].routing = outcome.routing,
                       ![t].maxTokens = outcome.maxTokens, ![t].monthly = monthly]

\* sumCostCurrentMonth
Recorded == SumFunction(usage)

\* The inbound message is written, memories, tools and history are read; then the
\* cost of the month, if there is a budget, and the model is chosen.
Prepare(t) ==
  LET monthly == IF settings.monthlyCap # NoCap THEN Recorded ELSE 0 IN
  /\ turn[t].pc = "preparing"
  /\ Controlled(t, Outcome(t, routeModel(turn[t].kind, settings), "initial", monthly, 0),
                monthly, "calling", "apologizing")
  /\ UNCHANGED <<settings, rows, started, memory, money, behind, history, failed, faults>>

MKnown(cost) == cost

\* An unknown cost is recorded as none.
Known(cost) == IF cost = NoCap THEN 0 ELSE cost

\* What the provider says of an answered call: its name of the model, the prompt as it
\* counts it, and as many tokens as estimated or all that it may.
Answered(t, stage) ==
  LET estimated == CompletionTokens(turn[t].kind, stage)
      limit == turn[t].maxTokens
  IN [model : {Reported[turn[t].routing.model]}, prompt : PromptCharges[stage],
      completion : IF limit = NoCap THEN {estimated} ELSE {minDefined(estimated, limit), limit}]

Price(a) == Known(Cost(a.model, a.prompt, a.completion))
Expected(t, stage, a) == Known(Cost(turn[t].routing.model, PromptTokens[stage], a.completion))

\* The call is charged.
Pays(t, stage, a) ==
  /\ spent' = [spent EXCEPT ![t] = @ + Price(a)]
  /\ excess' = [excess EXCEPT ![t] = Larger(Price(a) - Expected(t, stage, a), 0)]

Answers(t) == \E a \in Answered(t, "initial"), next \in {"using_tools", "replying"} :
  /\ turn[t].pc \in {"calling", "retrying"}
  /\ turn' = [turn EXCEPT ![t].pc = next, ![t].cost = Price(a)]
  /\ Pays(t, "initial", a)
  /\ UNCHANGED <<settings, rows, started, memory, usage, behind, history, failed, faults>>

\* The provider refused, or gave no answer in time after its own retries, having
\* charged for one perhaps.
Charged(t) ==
  UNCHANGED <<spent, faults>> \/ (spent' = [spent EXCEPT ![t] = @ + 1] /\ Fault)

CallFails(t) ==
  LET r == turn[t].routing
      next == escalateModel(r, turn[t].kind, settings)
  IN
  /\ turn[t].pc = "calling"
  /\ Charged(t)
  /\ IF Escalates(r)
     THEN Controlled(t, Outcome(t, next, "initial", turn[t].monthly, 0), turn[t].monthly,
                     "retrying", "apologizing")
     ELSE Goes(t, "apologizing")
  /\ UNCHANGED <<settings, rows, started, memory, usage, excess, behind, history, failed>>

RetryFails(t) ==
  /\ turn[t].pc = "retrying"
  /\ Charged(t)
  /\ Goes(t, "apologizing")
  /\ UNCHANGED <<settings, rows, started, memory, usage, excess, behind, history, failed>>

\* Without a model or without budget: a reply is written, or not, and returned.
Apologize(t) ==
  /\ turn[t].pc = "apologizing"
  /\ Ends(t)
  /\ UNCHANGED <<settings, rows, started, memory, money, behind, history, failed, faults>>

\* The tools have given results, for a second call if the budget, the cost of the
\* first included, leaves room, or none.
UseTools(t) ==
  LET monthly == turn[t].monthly + turn[t].cost
      outcome == Outcome(t, turn[t].routing, "follow_up", monthly, turn[t].cost)
  IN
  /\ turn[t].pc = "using_tools"
  /\ \/ Controlled(t, [outcome EXCEPT !.routing = turn[t].routing], turn[t].monthly,
                   "following", "replying")
     \/ Goes(t, "replying")
  /\ UNCHANGED <<settings, rows, started, memory, money, behind, history, failed, faults>>

MAdded(cost, more) == cost

\* The cost of the second call is added if both are known; as the model is the same, and
\* is reported by the same name, both are or neither.
Added(cost, more) == cost + more

FollowUpAnswers(t) == \E a \in Answered(t, "follow_up") :
  /\ turn[t].pc = "following"
  /\ turn' = [turn EXCEPT ![t].pc = "replying", ![t].cost = Added(@, Price(a))]
  /\ Pays(t, "follow_up", a)
  /\ UNCHANGED <<settings, rows, started, memory, usage, behind, history, failed, faults>>

FollowUpFails(t) ==
  /\ turn[t].pc = "following"
  /\ Charged(t)
  /\ Goes(t, "replying")
  /\ UNCHANGED <<settings, rows, started, memory, usage, excess, behind, history, failed>>

-----------------------------------------------------------------------------
(* The reply and what follows it.                                          *)

Reply(t) ==
  /\ turn[t].pc = "replying"
  /\ Goes(t, IF turn[t].fact = NoFact THEN "logging" ELSE "remembering")
  /\ UNCHANGED <<settings, rows, started, memory, money, behind, history, failed, faults>>

\* The namespace of a fact is the user's, whichever thread the message came by.
Row(t) == memory[turn[t].user][turn[t].fact]

\* Of a fact that does not last only the first is kept.
Remember(t) ==
  /\ turn[t].pc = "remembering"
  /\ Goes(t, IF Row(t) > 0 /\ turn[t].fact \notin Lasting THEN "logging" ELSE "storing")
  /\ UNCHANGED <<settings, rows, started, memory, money, behind, history, failed, faults>>

MStore(t) ==
  /\ turn[t].pc = "storing"
  /\ Goes(t, "inserting")
  /\ UNCHANGED <<settings, rows, started, memory, money, behind, history, failed, faults>>

\* upsert: one row of the key is looked for and updated, all facts of a key having
\* the same importance; no unique key stands behind the insert.
Store(t) ==
  /\ turn[t].pc = "storing"
  /\ Goes(t, IF Row(t) > 0 THEN "logging" ELSE "inserting")
  /\ UNCHANGED <<settings, rows, started, memory, money, behind, history, failed, faults>>

Insert(t) ==
  /\ turn[t].pc = "inserting"
  /\ memory' = [memory EXCEPT ![turn[t].user][turn[t].fact] = @ + 1]
  /\ Goes(t, "logging")
  /\ UNCHANGED <<settings, rows, started, money, behind, history, failed, faults>>

\* An error in the memory or the usage log is a warning.
StepSkipped(t) ==
  /\ Fault
  /\ \/ turn[t].pc \in {"remembering", "storing", "inserting"} /\ Goes(t, "logging")
     \/ turn[t].pc = "logging" /\ Goes(t, "finishing")
  /\ UNCHANGED <<settings, rows, started, memory, money, behind, history, failed>>

LogUsage(t) ==
  /\ turn[t].pc = "logging"
  /\ usage' = [usage EXCEPT ![t] = @ + turn[t].cost]
  /\ Goes(t, "finishing")
  /\ UNCHANGED <<settings, rows, started, memory, spent, excess, behind, history, failed, faults>>

\* The turn returns; a title is generated behind it if the conversation has none.
Finish(t) == LET c == turn[t].thread IN
  /\ turn[t].pc = "finishing"
  /\ titling' = IF titles[c] > 0 THEN titling ELSE [titling EXCEPT ![c] = @ + 1]
  /\ titlers' = [titlers EXCEPT ![c] = Larger(@, titling'[c])]
  /\ Ends(t)
  /\ UNCHANGED <<settings, rows, started, memory, money, titles, history, failed, faults>>

\* The call for the title came back, with a title or not; its cost is not recorded.
Titled(c) ==
  /\ titling[c] > 0
  /\ titling' = [titling EXCEPT ![c] = @ - 1]
  /\ titles' \in {titles, [titles EXCEPT ![c] = @ + 1]}
  /\ UNCHANGED <<settings, rows, turn, started, memory, money, titlers, history, failed, faults>>

-----------------------------------------------------------------------------
Step(t) ==
  \/ FindConversation(t) \/ CreateConversation(t) \/ Meet(t) \/ Join(t)
  \/ Prepare(t) \/ Answers(t) \/ CallFails(t) \/ RetryFails(t) \/ Apologize(t)
  \/ UseTools(t) \/ FollowUpAnswers(t) \/ FollowUpFails(t)
  \/ Reply(t) \/ Remember(t) \/ Store(t) \/ Insert(t) \/ LogUsage(t) \/ Finish(t)

Next ==
  \/ \E c \in Threads, user \in Users, message \in Messages : Begin(c, user, message)
  \/ \E t \in Slots : Step(t) \/ StatementFails(t) \/ StepSkipped(t)
  \/ \E c \in Threads : Titled(c)

Spec == Init /\ [][Next]_vars

-----------------------------------------------------------------------------
(* Correctness.                                                            *)

Routed == [model : Models \cup {"none"}, tier : Tiers, escalated : BOOLEAN]
Turn == [pc : Pcs, thread : Threads \cup {NoThread}, user : Users \cup {NoUser}, kind : Signals,
         fact : Facts \cup {NoFact}, routing : Routed, maxTokens : Nat \cup {NoCap},
         monthly : Nat, cost : Nat]

TypeOK ==
  /\ settings \in SettingsSet
  /\ conversations \subseteq Threads /\ participants \subseteq conversations \X Users
  /\ turn \in [Slots -> Turn]
  /\ started \in 0..MaxEvents
  /\ memory \in [Users -> [Facts -> Nat]]
  /\ usage \in [Slots -> Nat] /\ spent \in [Slots -> Nat] /\ excess \in [Slots -> Nat]
  /\ titling \in [Threads -> Nat] /\ titles \in [Threads -> Nat] /\ titlers \in [Threads -> Nat]
  /\ raced \subseteq Threads /\ atOnce \in [Users -> Nat] /\ failed \subseteq Threads
  /\ faults \in 0..MaxFaults

\* What a turn has still to write to the usage log.
Unlogged(r) == IF r.pc = "finishing" THEN 0 ELSE r.cost

\* The calls of a turn, first, escalated and second, cost no more than a request may and
\* what the last of them cost beyond its estimate: the next call has to make up for one
\* that cost too much.  So it is with the month and the turns that follow one another in
\* a slot: n turns at once cost at most n budgets, whatever the log has seen of the others
\* when one reads it, and estimates that are too low do not add up.
WithinCaps == \A t \in Slots :
  /\ settings.requestCap # NoCap => turn[t].cost <= settings.requestCap + excess[t]
  /\ settings.monthlyCap # NoCap => usage[t] + Unlogged(turn[t]) <= settings.monthlyCap + excess[t]

\* Without faults what was spent is in the usage log, or with a turn that has still to
\* write to it, whichever way the turn goes on after a call that failed.
LogIsComplete == faults = 0 =>
  \A t \in Slots : spent[t] = usage[t] + Unlogged(turn[t])

\* An event is refused by the database only if its thread had two under way at once,
\* or a statement failed.
FailsOnlyInARace == failed \subseteq raced \/ faults > 0

\* Whatever the rules, the escalation and the spend controls make of a request, its
\* image goes to a model that sees, and never to one estimated dearer than the model
\* it was routed to.
CallingModel(t) == turn[t].pc \in {"calling", "retrying", "following"}
DowngradeIsSound == \A t \in Slots : CallingModel(t) =>
  LET s == turn[t].kind
      model == turn[t].routing.model
      estimate(m) == Cost(m, PromptTokens["initial"], CompletionTokens(s, "initial"))
      first == routeModel(s, settings).model
  IN /\ s.vision => model \in VisionModels
     /\ ~turn[t].routing.escalated /\ Priced(first) => estimate(model) <= estimate(first)

\* A fact has no more rows, and a conversation was given no more titles, than turns of
\* the user were under way, and titles were generated, at once: what was written is found
\* by everyone who looks later, in whichever thread of the user.
WrittenOncePerRace ==
  /\ \A user \in Users, f \in Facts : memory[user][f] <= atOnce[user]
  /\ \A c \in Threads : titles[c] <= titlers[c]

=============================================================================
