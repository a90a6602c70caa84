------------------------------- MODULE Skills -------------------------------
(***************************************************************************)
(* External skills from upload to execution: ingestion with the scan and   *)
(* the policy, the manual override of a verdict, the switch that enables a *)
(* skill, the tool catalog a turn of a conversation resolves, and the guard*)
(* before each run.  services/skills, security, orchestration/tool-resolver*)
(* and external-tool-executor.  Rows of the audit log, which nothing here  *)
(* reads back, are left out.                                               *)
(***************************************************************************)
EXTENDS Integers, FiniteSets, Sequences

CONSTANTS
  SkillIds,      \* slugs
  NoSkill,
  Sources,       \* texts of skills
  Matches,       \* the rules the scan finds in a text
  Trimmed,       \* a text without the white space around it, NoSource if none is left
  NoSource,
  Tools,         \* names of tool definitions
  NoTool,        \* metadata without a complete tool definition
  AdminCalls,    \* slots for toggle and override requests under way
  Turns,         \* slots for turns of conversations
  MaxVersions,   \* bound: versions of all skills together
  MaxFaults      \* bound: requests that break between two statements

\* The rules of the scanner, by what they look for and how severe it is: what starts
\* other code, and what reaches for files, secrets, modules and the network.
CodeRules ==
  ({"os_command", "shell_exec", "subprocess", "dynamic_code"} \X {"critical"})
    \cup {<<"dynamic_code", "high">>}
ResourceRules ==
  ({"filesystem", "env_access", "import_risk"} \X {"high"})
    \cup ({"filesystem", "import_risk", "network"} \X {"medium"})
    \cup {<<"import_risk", "critical">>}
ScanRules == CodeRules \cup ResourceRules

ASSUME SkillsAssumption ==
  /\ Matches \in [Sources -> SUBSET ScanRules]
  /\ Trimmed \in [Sources -> Sources \cup {NoSource}]
  /\ NoSkill \notin SkillIds /\ NoSource \notin Sources /\ NoTool \notin Tools
  /\ IsFiniteSet(SkillIds) /\ MaxVersions \in Nat /\ MaxFaults \in Nat

VARIABLES
  skill,      \* rows: enabled, index of the current version or 0, tool of the metadata
  versions,   \* rows per skill in the order of their creation, with their latest verdict
  request,    \* toggle and override requests
  turn,       \* turns: what the catalog query returned, the catalog, the call at hand,
              \* the version its guard has read
  faults,
  live        \* history: turns that call a text that has been the current one of its
              \* skill, and the skill enabled, since the model asked for it

vars == <<skill, versions, request, turn, faults, live>>

Verdict == {"passed", "warning", "failed"}
Approving == {"passed", "warning"}
Version == [source : Sources, verdict : Verdict, overridden : BOOLEAN]
Entry == [skill : SkillIds, tool : Tools, source : Sources, version : 1..MaxVersions]

Idle == [pc |-> "idle", skill |-> NoSkill, target |-> 0, flag |-> FALSE]
NoTurn == [pc |-> "idle", todo |-> {}, catalog |-> {}, call |-> {}, read |-> 0]

Init ==
  /\ skill = [s \in SkillIds |-> [enabled |-> FALSE, current |-> 0, tool |-> NoTool]]
  /\ versions = [s \in SkillIds |-> <<>>]
  /\ request = [c \in AdminCalls |-> Idle]
  /\ turn = [t \in Turns |-> NoTurn]
  /\ faults = 0
  /\ live = {}

Fault == faults < MaxFaults /\ faults' = faults + 1

-----------------------------------------------------------------------------
(* Ingestion.                                                              *)

Level(severity) ==
  CASE severity = "critical" -> 4 [] severity = "high" -> 3 [] severity = "medium" -> 2
    [] OTHER -> 1

BlockThreshold == 3

scanSource(source) == Matches[source]

MevaluatePolicy(risks) ==
  IF \E r \in risks : Level(r[2]) > BlockThreshold THEN "failed"
  ELSE IF risks # {} THEN "warning" ELSE "passed"

\* evaluatePolicy with the default policy, and the vetting result of its decision.
evaluatePolicy(risks) ==
  IF \E r \in risks : Level(r[2]) >= BlockThreshold THEN "failed"
  ELSE IF risks # {} THEN "warning" ELSE "passed"

\* Rows of the versions table, by their skill and place.
Stored == {r \in SkillIds \X (1..MaxVersions) : r[2] <= Len(versions[r[1]])}

MPointedNext(s, verdict, index) == [skill[s] EXCEPT !.current = index + 1]
MPointed(s, verdict, index) == [skill[s] EXCEPT !.current = index]

\* Only an approved version becomes the current one.
Pointed(s, verdict, index) ==
  IF verdict \in Approving THEN [skill[s] EXCEPT !.current = index] ELSE skill[s]

\* One transaction: the row of the skill with its metadata, the version, its
\* verdict and the pointer.  A label a skill already has is refused without effect.
Ingest(s, source, tool) ==
  LET verdict == evaluatePolicy(scanSource(source))
      index == Len(versions[s]) + 1
  IN
  /\ Cardinality(Stored) < MaxVersions
  /\ versions' = [versions EXCEPT ![s] =
       Append(@, [source |-> source, verdict |-> verdict, overridden |-> FALSE])]
  /\ skill' = [skill EXCEPT ![s] = [Pointed(s, verdict, index) EXCEPT !.tool = tool]]
  /\ UNCHANGED <<request, turn, faults>>

-----------------------------------------------------------------------------
(* Toggle and override: each reads the skill first and writes later.       *)

\* resolveDisplayVersion, and the target of an override.
DisplayVersion(s) == IF skill[s].current # 0 THEN skill[s].current ELSE Len(versions[s])

Returns(c) == request' = [request EXCEPT ![c] = Idle]

Enableable(s) == versions[s][DisplayVersion(s)].verdict \in Approving

ToggleRead(c, s, enabled) ==
  /\ request[c].pc = "idle" /\ versions[s] # <<>>
  /\ enabled => Enableable(s)
  /\ request' = [request EXCEPT ![c] = [pc |-> "toggle", skill |-> s, target |-> 0,
                                        flag |-> enabled]]
  /\ UNCHANGED <<skill, versions, turn, faults>>

ToggleWrite(c) ==
  /\ request[c].pc = "toggle"
  /\ skill' = [skill EXCEPT ![request[c].skill].enabled = request[c].flag]
  /\ Returns(c)
  /\ UNCHANGED <<versions, turn, faults>>

\* The flag: the skill had no current version when it was read.
OverrideRead(c, s) ==
  /\ request[c].pc = "idle" /\ versions[s] # <<>>
  /\ request' = [request EXCEPT ![c] = [pc |-> "vet", skill |-> s, target |-> DisplayVersion(s),
                                        flag |-> skill[s].current = 0]]
  /\ UNCHANGED <<skill, versions, turn, faults>>

OverrideVet(c, verdict) ==
  LET s == request[c].skill v == request[c].target IN
  /\ request[c].pc = "vet"
  /\ versions' = [versions EXCEPT ![s][v] =
       [source |-> @.source, verdict |-> verdict, overridden |-> TRUE]]
  /\ IF request[c].flag THEN request' = [request EXCEPT ![c].pc = "point"] ELSE Returns(c)
  /\ UNCHANGED <<skill, turn, faults>>

OverridePoint(c) ==
  /\ request[c].pc = "point"
  /\ skill' = [skill EXCEPT ![request[c].skill].current = request[c].target]
  /\ Returns(c)
  /\ UNCHANGED <<versions, turn, faults>>

\* The server ends or the database fails between two statements of a request.
Breaks(c) ==
  /\ request[c].pc # "idle" /\ Fault
  /\ Returns(c)
  /\ UNCHANGED <<skill, versions, turn>>

-----------------------------------------------------------------------------
(* The tool catalog and the runs of a turn.                                *)

Current(s) == versions[s][skill[s].current]
Enabled(s) == skill[s].enabled /\ skill[s].current # 0

\* canExecute up to the integrity of the source.
Vetted(s) == Enabled(s) /\ Current(s).verdict \in Approving

\* The hash of the version is that of the text as it was uploaded.
HashMatches(version, source) == source = version.source

MverifySource(version, source) == source # NoSource
verifySource(version, source) == source # NoSource /\ HashMatches(version, source)

\* A tool definition and a source are required of each row; the source is trimmed.
Rows ==
  {[skill |-> s, tool |-> skill[s].tool, source |-> Trimmed[Current(s).source],
    version |-> skill[s].current] :
    s \in {r \in SkillIds : Vetted(r) /\ skill[r].tool # NoTool
                            /\ Trimmed[Current(r).source] # NoSource}}

Resolving(todo, catalog) ==
  [pc |-> "resolving", todo |-> todo, catalog |-> catalog, call |-> {}, read |-> 0]

\* The query, the only read of what the catalog will hold.
Resolve(t) ==
  /\ turn[t].pc = "idle"
  /\ turn' = [turn EXCEPT ![t] = Resolving(Rows, {})]
  /\ UNCHANGED <<skill, versions, request, faults>>

\* The guard looks at the skill again, with the source of the version it finds
\* current.  The first binding of a tool name wins.
Offered(e, catalog) ==
  /\ Vetted(e.skill) /\ Trimmed[Current(e.skill).source] # NoSource
  /\ \A d \in catalog : d.tool # e.tool

GuardEntry(t) == \E e \in turn[t].todo :
  /\ turn[t].pc = "resolving"
  /\ turn' = [turn EXCEPT ![t] =
       Resolving(@.todo \ {e}, IF Offered(e, @.catalog) THEN @.catalog \cup {e} ELSE @.catalog)]
  /\ UNCHANGED <<skill, versions, request, faults>>

\* The model asks for a tool of the catalog.
CallTool(t) == \E e \in turn[t].catalog :
  /\ turn[t].pc = "resolving" /\ turn[t].todo = {}
  /\ turn' = [turn EXCEPT ![t] = [pc |-> "guarding", todo |-> {}, catalog |-> @.catalog,
                                  call |-> {e}, read |-> 0]]
  /\ UNCHANGED <<skill, versions, request, faults>>

\* canExecute before a run: it reads the skill, and then the version it found current,
\* by its id, with the latest verdict.  Uploads and requests come in between.
GuardReads(t) == \E e \in turn[t].call :
  /\ turn[t].pc = "guarding" /\ Enabled(e.skill)
  /\ turn' = [turn EXCEPT ![t] = [@ EXCEPT !.pc = "verifying", !.read = skill[e.skill].current]]
  /\ UNCHANGED <<skill, versions, request, faults>>

GuardDenies(t) == \E e \in turn[t].call :
  /\ turn[t].pc = "guarding" /\ ~Enabled(e.skill)
  /\ turn' = [turn EXCEPT ![t].pc = "blocked"]
  /\ UNCHANGED <<skill, versions, request, faults>>

Read(t, e) == versions[e.skill][turn[t].read]

RunAllowed(t) == \E e \in turn[t].call :
  /\ turn[t].pc = "verifying"
  /\ Read(t, e).verdict \in Approving /\ verifySource(Read(t, e), e.source)
  /\ turn' = [turn EXCEPT ![t] = [@ EXCEPT !.pc = "running", !.read = 0]]
  /\ UNCHANGED <<skill, versions, request, faults>>

\* The hash is the last reason to refuse a run; versions that a skill points at are
\* approved (EnabledWasVetted), so it is the only one left here.
RunBlocked(t) == \E e \in turn[t].call :
  /\ turn[t].pc = "verifying"
  /\ ~(Read(t, e).verdict \in Approving /\ verifySource(Read(t, e), e.source))
  /\ turn' = [turn EXCEPT ![t] = [@ EXCEPT
       !.pc = IF Read(t, e).verdict \in Approving THEN "mismatch" ELSE "blocked", !.read = 0]]
  /\ UNCHANGED <<skill, versions, request, faults>>

\* The run has returned, thrown or exceeded its time, or was blocked: a result
\* for the model either way, and the next call.
Answered(t) ==
  /\ turn[t].pc \in {"running", "blocked", "mismatch"}
  /\ turn' = [turn EXCEPT ![t] = Resolving({}, @.catalog)]
  /\ UNCHANGED <<skill, versions, request, faults>>

\* An error while the catalog is built leaves it as far as it is; one in the guard
\* of a call ends the turn.
DatabaseFails(t) ==
  /\ Fault
  /\ \/ /\ turn[t].pc = "resolving" /\ turn[t].todo # {}
        /\ turn' = [turn EXCEPT ![t].todo = {}]
     \/ turn[t].pc \in {"guarding", "verifying"} /\ turn' = [turn EXCEPT ![t] = NoTurn]
  /\ UNCHANGED <<skill, versions, request>>

EndTurn(t) ==
  /\ turn[t].pc = "resolving" /\ turn[t].todo = {}
  /\ turn' = [turn EXCEPT ![t] = NoTurn]
  /\ UNCHANGED <<skill, versions, request, faults>>

-----------------------------------------------------------------------------
Steps ==
  \/ \E s \in SkillIds, source \in Sources, tool \in Tools \cup {NoTool} : Ingest(s, source, tool)
  \/ \E c \in AdminCalls :
       \/ \E s \in SkillIds : OverrideRead(c, s) \/ \E on \in BOOLEAN : ToggleRead(c, s, on)
       \/ ToggleWrite(c) \/ OverridePoint(c) \/ Breaks(c)
       \/ \E verdict \in Approving : OverrideVet(c, verdict)
  \/ \E t \in Turns :
       \/ Resolve(t) \/ GuardEntry(t) \/ CallTool(t)
       \/ GuardReads(t) \/ GuardDenies(t) \/ RunAllowed(t) \/ RunBlocked(t) \/ Answered(t)
       \/ DatabaseFails(t) \/ EndTurn(t)

Live(t) == \E e \in turn[t].call : Enabled(e.skill) /\ e.source = Current(e.skill).source

Remembers == live' =
  {t \in Turns : turn'[t].pc \in {"guarding", "verifying", "running"} /\ (t \in live \/ Live(t)')}

Next == Steps /\ Remembers

Spec == Init /\ [][Next]_vars

-----------------------------------------------------------------------------
(* Correctness.                                                            *)

TypeOK ==
  /\ skill \in [SkillIds -> [enabled : BOOLEAN, current : 0..MaxVersions,
                             tool : Tools \cup {NoTool}]]
  /\ \A s \in SkillIds : /\ versions[s] \in Seq(Version) /\ Len(versions[s]) <= MaxVersions
                         /\ skill[s].current <= Len(versions[s])
  /\ request \in [AdminCalls -> [pc : {"idle", "toggle", "vet", "point"},
                                 skill : SkillIds \cup {NoSkill},
                                 target : 0..MaxVersions, flag : BOOLEAN]]
  /\ turn \in [Turns -> [pc : {"idle", "resolving", "guarding", "verifying", "running",
                               "blocked", "mismatch"},
                         todo : SUBSET Entry, catalog : SUBSET Entry, call : SUBSET Entry,
                         read : 0..MaxVersions]]
  /\ live \subseteq Turns
  /\ faults \in 0..MaxFaults

Dangerous(source) == \E r \in Matches[source] : r[2] \in {"critical", "high"}

\* Text in which the scan finds a critical or high risk runs only if a version of
\* that skill with that text, but for the white space around it, was overridden by
\* hand, however uploads, overrides, catalogs and runs overlap.
DangerNeedsOverride == \A t \in Turns : turn[t].pc = "running" =>
  \A e \in turn[t].call : Dangerous(e.source) =>
    \E i \in 1..Len(versions[e.skill]) :
      LET v == versions[e.skill][i] IN v.overridden /\ e.source \in {v.source, Trimmed[v.source]}

\* A skill that is enabled has a version that was approved, and the current version
\* of a skill is one: the check and the writes of toggles, overrides and uploads
\* interleave.
EnabledWasVetted == \A s \in SkillIds :
  /\ skill[s].enabled => \E i \in 1..Len(versions[s]) : versions[s][i].verdict \in Approving
  /\ skill[s].current # 0 => Current(s).verdict \in Approving

\* What runs is a text that was the current one of its skill, and the skill enabled, at
\* some moment since the model asked for it: a text of the catalog that uploads replaced,
\* or whose skill was disabled, before the call does not run, although uploads, toggles
\* and overrides come between what the guard reads and the run.
StaleNeverRuns == \A t \in Turns : turn[t].pc = "running" => t \in live

\* What the guard's comment promises of a hash mismatch: the text was changed since
\* it was vetted.  So no call is refused for it when the guard reads the version that
\* its catalog was made of.
MismatchMeansChanged == [][\A t \in Turns :
  (turn[t].pc = "verifying" /\ turn'[t].pc = "mismatch") =>
    \A e \in turn[t].call : e.version # turn[t].read]_vars
=============================================================================
