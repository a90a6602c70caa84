---------------------------- MODULE Skills_proofs ----------------------------
(***************************************************************************)
(* Machine-checked proofs about Skills, for any skills, texts, rules that  *)
(* the scan finds in them, and any number of versions, requests, turns and *)
(* faults.                                                                 *)
(***************************************************************************)
EXTENDS Skills, SequenceTheorems, FiniteSetTheorems, TLAPS

USE SkillsAssumption DEF SkillsAssumption

AnyEntry == [skill : SkillIds, tool : Tools, source : Sources, version : Nat]

\* The types without the bound on versions, which nothing here depends on.
Types ==
  /\ skill \in [SkillIds -> [enabled : BOOLEAN, current : Nat, tool : Tools \cup {NoTool}]]
  /\ versions \in [SkillIds -> Seq(Version)]
  /\ request \in [AdminCalls -> [pc : {"idle", "toggle", "vet", "point"},
                                 skill : SkillIds \cup {NoSkill},
                                 target : Nat, flag : BOOLEAN]]
  /\ turn \in [Turns -> [pc : {"idle", "resolving", "guarding", "verifying", "running",
                               "blocked", "mismatch"},
                         todo : SUBSET AnyEntry, catalog : SUBSET AnyEntry,
                         call : SUBSET AnyEntry, read : Nat]]

There(s, i) == i \in 1..Len(versions[s])
Approved(s, i) == There(s, i) /\ versions[s][i].verdict \in Approving

\* The same of the next state.
ApprovedNext(s, i) == i \in 1..Len(versions'[s]) /\ versions'[s][i].verdict \in Approving

\* What the pointer of a skill points at is there.
Pointing == \A s \in SkillIds : skill[s].current # 0 => Approved(s, skill[s].current)

\* An enabled skill has an approved version.
EnabledHas == \A s \in SkillIds : skill[s].enabled => \E i \in Nat : Approved(s, i)

\* What a request has read still holds when it writes.
RequestKnows(c) ==
  LET q == request[c] IN
  /\ q.pc # "idle" => q.skill \in SkillIds
  /\ q.pc = "toggle" /\ q.flag => \E i \in Nat : Approved(q.skill, i)
  /\ q.pc = "vet" => There(q.skill, q.target)
  /\ q.pc = "point" => Approved(q.skill, q.target)

Requests == \A c \in AdminCalls : RequestKnows(c)

\* A version with a dangerous text is approved by hand only.
Verdicts == \A s \in SkillIds : \A i \in Nat :
  Approved(s, i) /\ Dangerous(versions[s][i].source) => versions[s][i].overridden

\* A turn makes one call at a time.
OneCall == \A t \in Turns : \A d, e \in turn[t].call : d = e

\* The version a guard has read is there; if its text is that of the call, it was the
\* current one of its skill, and the skill enabled, since the call.
Reading == \A t \in Turns : turn[t].pc = "verifying" => \A e \in turn[t].call :
  /\ There(e.skill, turn[t].read)
  /\ e.source = Read(t, e).source => t \in live

IndInv ==
  /\ Types /\ Pointing /\ EnabledHas /\ Requests /\ Verdicts /\ OneCall /\ Reading
  /\ DangerNeedsOverride /\ StaleNeverRuns

-----------------------------------------------------------------------------
(* Types.                                                                  *)

\* A sequence keeps its length and type when an element is replaced.
LEMMA Replaced ==
  ASSUME NEW S, NEW q \in Seq(S), NEW i \in 1..Len(q), NEW x \in S
  PROVE  /\ [q EXCEPT ![i] = x] \in Seq(S)
         /\ Len([q EXCEPT ![i] = x]) = Len(q)
         /\ [q EXCEPT ![i] = x][i] = x
         /\ \A j \in 1..Len(q) : j # i => [q EXCEPT ![i] = x][j] = q[j]
BY ExceptSeq

\* An appended version comes after those that were there.
LEMMA Appended ==
  ASSUME NEW S, NEW q \in Seq(S), NEW x \in S
  PROVE  /\ Append(q, x) \in Seq(S)
         /\ Len(Append(q, x)) = Len(q) + 1
         /\ Append(q, x)[Len(q) + 1] = x
         /\ \A j \in 1..Len(q) : Append(q, x)[j] = q[j]
BY AppendProperties

\* The policy gives a verdict, and never approves what the scan finds dangerous.
LEMMA PolicyBlocksDanger ==
  ASSUME NEW source \in Sources
  PROVE  /\ evaluatePolicy(scanSource(source)) \in Verdict
         /\ Dangerous(source) => evaluatePolicy(scanSource(source)) \notin Approving
BY DEF evaluatePolicy, scanSource, Dangerous, Level, BlockThreshold, Verdict, Approving

Uploaded(source) ==
  [source |-> source, verdict |-> evaluatePolicy(scanSource(source)), overridden |-> FALSE]

\* What an upload does to the versions and to the row of its skill.
LEMMA IngestEffect ==
  ASSUME Types, NEW s \in SkillIds, NEW source \in Sources, NEW tool \in Tools \cup {NoTool},
         Ingest(s, source, tool)
  PROVE  LET index == Len(versions[s]) + 1 IN
         /\ versions' = [versions EXCEPT ![s] = Append(versions[s], Uploaded(source))]
         /\ Uploaded(source) \in Version
         /\ skill' = [skill EXCEPT ![s] =
              [enabled |-> skill[s].enabled, tool |-> tool,
               current |-> IF Uploaded(source).verdict \in Approving THEN index
                           ELSE skill[s].current]]
         /\ UNCHANGED <<request, turn>>
<1>1. Uploaded(source) \in Version
  BY PolicyBlocksDanger DEF Uploaded, Version
<1>2. skill[s] \in [enabled : BOOLEAN, current : Nat, tool : Tools \cup {NoTool}]
  BY DEF Types
<1>3. [Pointed(s, evaluatePolicy(scanSource(source)), Len(versions[s]) + 1) EXCEPT !.tool = tool]
        = [enabled |-> skill[s].enabled, tool |-> tool,
           current |-> IF Uploaded(source).verdict \in Approving THEN Len(versions[s]) + 1
                       ELSE skill[s].current]
  BY <1>2 DEF Pointed, Uploaded
<1> QED
  BY <1>1, <1>3 DEF Ingest, Uploaded

\* What the first statement of an override does to the versions.
LEMMA VetEffect ==
  ASSUME Types, Requests, NEW c \in AdminCalls, NEW verdict \in Approving, OverrideVet(c, verdict)
  PROVE  LET s == request[c].skill  v == request[c].target
             vetted == [source |-> versions[s][v].source, verdict |-> verdict, overridden |-> TRUE]
         IN
         /\ s \in SkillIds /\ There(s, v)
         /\ vetted \in Version
         /\ versions' = [versions EXCEPT ![s] = [versions[s] EXCEPT ![v] = vetted]]
         /\ UNCHANGED <<skill, turn>>
<1> DEFINE s == request[c].skill
           v == request[c].target
           vetted == [source |-> versions[s][v].source, verdict |-> verdict, overridden |-> TRUE]
<1>1. s \in SkillIds /\ There(s, v)
  BY DEF OverrideVet, Requests, RequestKnows
<1>2. versions[s] \in Seq(Version) /\ versions[s][v] \in Version
  BY <1>1 DEF Types, There
<1>3. vetted \in Version
  BY <1>2 DEF Version, Verdict, Approving
<1>4. versions' = [versions EXCEPT ![s] = [versions[s] EXCEPT ![v] = vetted]]
  BY <1>1, <1>2 DEF OverrideVet, Types
<1> QED
  BY <1>1, <1>3, <1>4 DEF OverrideVet

-----------------------------------------------------------------------------
(* Versions only grow: no row is removed, no text changes, and neither an  *)
(* approval nor the mark of an override is taken back.                     *)

Grown == \A s \in SkillIds : \A i \in Nat : There(s, i) =>
  /\ There(s, i)'
  /\ versions'[s][i].source = versions[s][i].source
  /\ versions[s][i].verdict \in Approving => versions'[s][i].verdict \in Approving
  /\ versions[s][i].overridden => versions'[s][i].overridden

\* An upload adds a version.
LEMMA IngestGrows ==
  ASSUME Types, NEW s \in SkillIds, NEW source \in Sources, NEW tool \in Tools \cup {NoTool},
         Ingest(s, source, tool)
  PROVE  Grown /\ versions' \in [SkillIds -> Seq(Version)]
<1>1. /\ versions' = [versions EXCEPT ![s] = Append(versions[s], Uploaded(source))]
      /\ Uploaded(source) \in Version
  BY IngestEffect
<1>2. versions \in [SkillIds -> Seq(Version)]
  BY DEF Types
<1>3. versions' \in [SkillIds -> Seq(Version)]
  BY <1>1, <1>2, Appended
<1>4. ASSUME NEW r \in SkillIds, NEW i \in Nat, There(r, i)
      PROVE  There(r, i)' /\ versions'[r][i] = versions[r][i]
  <2>1. CASE r = s
    BY <1>1, <1>2, <1>4, <2>1, Appended DEF There
  <2>2. CASE r # s
    BY <1>1, <1>2, <1>4, <2>2 DEF There
  <2> QED
    BY <2>1, <2>2
<1> QED
  BY <1>3, <1>4 DEF Grown

\* An override changes the verdict of one version, to an approving one.
LEMMA VetGrows ==
  ASSUME Types, Requests, NEW c \in AdminCalls, NEW verdict \in Approving, OverrideVet(c, verdict)
  PROVE  Grown /\ versions' \in [SkillIds -> Seq(Version)]
<1> DEFINE s == request[c].skill
           v == request[c].target
           vetted == [source |-> versions[s][v].source, verdict |-> verdict, overridden |-> TRUE]
<1>1. /\ s \in SkillIds /\ v \in 1..Len(versions[s])
      /\ vetted \in Version
      /\ versions' = [versions EXCEPT ![s] = [versions[s] EXCEPT ![v] = vetted]]
  BY VetEffect DEF There
<1>2. versions \in [SkillIds -> Seq(Version)]
  BY DEF Types
<1> HIDE DEF vetted
<1>3. versions' \in [SkillIds -> Seq(Version)]
  BY <1>1, <1>2, Replaced
<1>4. ASSUME NEW r \in SkillIds, NEW i \in Nat, There(r, i)
      PROVE  /\ There(r, i)'
             /\ versions'[r][i] = IF r = s /\ i = v THEN vetted ELSE versions[r][i]
  <2>1. CASE r = s
    BY <1>1, <1>2, <1>4, <2>1, Replaced DEF There
  <2>2. CASE r # s
    BY <1>1, <1>2, <1>4, <2>2 DEF There
  <2> QED
    BY <2>1, <2>2
<1>5. vetted.source = versions[s][v].source /\ vetted.verdict \in Approving /\ vetted.overridden
  BY DEF vetted
<1> QED
  BY <1>3, <1>4, <1>5 DEF Grown

\* Every step lets the versions grow, and only uploads and overrides change them.
LEMMA VersionsGrow ==
  ASSUME Types, Requests, [Next]_vars
  PROVE  Grown /\ versions' \in [SkillIds -> Seq(Version)]
<1>1. CASE UNCHANGED versions
  BY <1>1 DEF Grown, There, Types
<1>2. ASSUME NEW s \in SkillIds, NEW source \in Sources, NEW tool \in Tools \cup {NoTool},
             Ingest(s, source, tool)
      PROVE  Grown /\ versions' \in [SkillIds -> Seq(Version)]
  BY <1>2, IngestGrows
<1>3. ASSUME NEW c \in AdminCalls, NEW verdict \in Approving, OverrideVet(c, verdict)
      PROVE  Grown /\ versions' \in [SkillIds -> Seq(Version)]
  BY <1>3, VetGrows
<1> QED
  BY <1>1, <1>2, <1>3 DEF Next, Steps, vars, ToggleRead, ToggleWrite, OverrideRead, OverridePoint, Breaks,
     Resolve, GuardEntry, CallTool, GuardReads, GuardDenies, RunAllowed, RunBlocked, Answered, DatabaseFails, EndTurn

\* So what is approved stays so.
LEMMA ApprovedStays ==
  ASSUME Grown, NEW s \in SkillIds, NEW i \in Nat, Approved(s, i)
  PROVE  ApprovedNext(s, i)
BY DEF Grown, Approved, ApprovedNext, There
-----------------------------------------------------------------------------
(* The types.                                                              *)

Row == [enabled : BOOLEAN, current : Nat, tool : Tools \cup {NoTool}]
Request == [pc : {"idle", "toggle", "vet", "point"}, skill : SkillIds \cup {NoSkill},
            target : Nat, flag : BOOLEAN]
Turn == [pc : {"idle", "resolving", "guarding", "verifying", "running", "blocked", "mismatch"},
         todo : SUBSET AnyEntry, catalog : SUBSET AnyEntry, call : SUBSET AnyEntry, read : Nat]

Judged(t, p, n) == turn' = [turn EXCEPT ![t] =
  [pc |-> p, todo |-> turn[t].todo, catalog |-> turn[t].catalog, call |-> turn[t].call, read |-> n]]

\* Where the guard of a call goes, and from what.
LEMMA Judging ==
  ASSUME Types, NEW t \in Turns,
         GuardReads(t) \/ GuardDenies(t) \/ RunAllowed(t) \/ RunBlocked(t)
  PROVE  \E p \in {"verifying", "running", "mismatch", "blocked"}, n \in Nat :
           /\ Judged(t, p, n) /\ UNCHANGED <<skill, versions>>
           /\ p = "verifying" => \E e \in turn[t].call : Enabled(e.skill) /\ n = skill[e.skill].current
           /\ p = "running" =>
                /\ turn[t].pc = "verifying"
                /\ \E e \in turn[t].call : /\ Read(t, e).verdict \in Approving
                                           /\ e.source = Read(t, e).source
           /\ p # "verifying" => n \in {0, turn[t].read}
<1>0. turn[t] \in Turn /\ turn[t].read \in Nat
  BY DEF Types, Turn
<1>1. ASSUME NEW p \in {"verifying", "running", "mismatch", "blocked"}, NEW n \in Nat,
             turn' = [turn EXCEPT ![t] = [turn[t] EXCEPT !.pc = p, !.read = n]]
      PROVE  Judged(t, p, n)
  <2> DEFINE w == [turn[t] EXCEPT !.pc = p, !.read = n]
  <2>1. w \in Turn
    BY <1>0 DEF Turn
  <2>2. /\ w.pc = p /\ w.read = n /\ w.todo = turn[t].todo
        /\ w.catalog = turn[t].catalog /\ w.call = turn[t].call
    BY <1>0 DEF Turn
  <2>3. turn' = [turn EXCEPT ![t] = w]
    BY <1>1
  <2> HIDE DEF w
  <2>4. w = [pc |-> w.pc, todo |-> w.todo, catalog |-> w.catalog, call |-> w.call, read |-> w.read]
    BY <2>1 DEF Turn
  <2> QED
    BY <2>2, <2>3, <2>4 DEF Judged
<1>2. CASE GuardReads(t)
  <2>1. PICK e \in turn[t].call :
          /\ Enabled(e.skill) /\ UNCHANGED <<skill, versions>>
          /\ turn' = [turn EXCEPT ![t] =
               [turn[t] EXCEPT !.pc = "verifying", !.read = skill[e.skill].current]]
    BY <1>2 DEF GuardReads
  <2>3. skill[e.skill].current \in Nat
    BY <1>0, <2>1 DEF Turn, AnyEntry, Types
  <2>2. Judged(t, "verifying", skill[e.skill].current)
    BY <1>1, <2>1, <2>3
  <2> QED
    BY <2>1, <2>2, <2>3
<1>3. CASE GuardDenies(t)
  <2>1. turn' = [turn EXCEPT ![t] = [turn[t] EXCEPT !.pc = "blocked"]] /\ UNCHANGED <<skill, versions>>
    BY <1>3 DEF GuardDenies
  <2>2. [turn[t] EXCEPT !.pc = "blocked"] =
          [pc |-> "blocked", todo |-> turn[t].todo, catalog |-> turn[t].catalog,
           call |-> turn[t].call, read |-> turn[t].read]
    <3> DEFINE k == turn[t]
    <3>1. k \in Turn
      BY <1>0
    <3> HIDE DEF k
    <3>2. [k EXCEPT !.pc = "blocked"] = [pc |-> "blocked", todo |-> k.todo, catalog |-> k.catalog,
                                         call |-> k.call, read |-> k.read]
      BY <3>1 DEF Turn
    <3> QED
      BY <3>2 DEF k
  <2>3. Judged(t, "blocked", turn[t].read)
    BY <2>1, <2>2 DEF Judged
  <2> QED
    BY <1>0, <2>1, <2>3
<1>4. CASE RunAllowed(t)
  <2>1. PICK e \in turn[t].call :
          /\ turn[t].pc = "verifying" /\ UNCHANGED <<skill, versions>>
          /\ Read(t, e).verdict \in Approving /\ e.source = Read(t, e).source
          /\ turn' = [turn EXCEPT ![t] = [turn[t] EXCEPT !.pc = "running", !.read = 0]]
    BY <1>4 DEF RunAllowed, verifySource, HashMatches
  <2>2. Judged(t, "running", 0)
    BY <1>1, <2>1
  <2> QED
    BY <2>1, <2>2
<1>5. CASE RunBlocked(t)
  <2>1. PICK p \in {"mismatch", "blocked"} :
          turn' = [turn EXCEPT ![t] = [turn[t] EXCEPT !.pc = p, !.read = 0]]
    BY <1>5 DEF RunBlocked
  <2>3. Judged(t, p, 0)
    BY <1>1, <2>1
  <2> QED
    BY <1>5, <2>3 DEF RunBlocked
<1> QED
  BY <1>2, <1>3, <1>4, <1>5

\* What the query of the catalog returns are entries.
LEMMA ResolvedEntries ==
  ASSUME Types, Pointing
  PROVE  Rows \in SUBSET AnyEntry
<1> SUFFICES ASSUME NEW s \in SkillIds, Vetted(s), skill[s].tool # NoTool,
                    Trimmed[Current(s).source] # NoSource
             PROVE  [skill |-> s, tool |-> skill[s].tool, source |-> Trimmed[Current(s).source],
                     version |-> skill[s].current] \in AnyEntry
  BY DEF Rows
<1>1. skill[s].current \in Nat /\ skill[s].tool \in Tools
  BY DEF Types
<1>2. Current(s) \in Version
  BY DEF Types, Pointing, Approved, There, Vetted, Enabled, Current
<1>3. Trimmed[Current(s).source] \in Sources
  BY <1>2 DEF Version
<1> QED
  BY <1>1, <1>3 DEF AnyEntry

\* Rows keep their types.
LEMMA RowsTyped ==
  ASSUME Types, Requests, [Next]_vars
  PROVE  skill' \in [SkillIds -> Row]
<1>0. skill \in [SkillIds -> Row]
  BY DEF Types, Row
<1>1. ASSUME NEW s \in SkillIds, NEW source \in Sources, NEW tool \in Tools \cup {NoTool},
             Ingest(s, source, tool)
      PROVE  skill' \in [SkillIds -> Row]
  <2> DEFINE row == [enabled |-> skill[s].enabled, tool |-> tool,
                     current |-> IF Uploaded(source).verdict \in Approving
                                 THEN Len(versions[s]) + 1 ELSE skill[s].current]
  <2>1. Len(versions[s]) + 1 \in Nat
    BY LenProperties DEF Types
  <2>2. skill[s].enabled \in BOOLEAN /\ skill[s].current \in Nat
    BY <1>0 DEF Row
  <2>3. row \in Row
    BY <2>1, <2>2 DEF Row
  <2>4. skill' = [skill EXCEPT ![s] = row]
    BY <1>1, IngestEffect
  <2> HIDE DEF row
  <2> QED
    BY <1>0, <2>3, <2>4
<1>2. ASSUME NEW c \in AdminCalls, ToggleWrite(c) PROVE skill' \in [SkillIds -> Row]
  <2>1. request[c].skill \in SkillIds /\ request[c].flag \in BOOLEAN
    BY <1>2 DEF ToggleWrite, Requests, RequestKnows, Types
  <2>2. [skill[request[c].skill] EXCEPT !.enabled = request[c].flag] \in Row
    BY <1>0, <2>1 DEF Row
  <2>3. skill' = [skill EXCEPT ![request[c].skill] =
                    [skill[request[c].skill] EXCEPT !.enabled = request[c].flag]]
    BY <1>2 DEF ToggleWrite
  <2> QED
    BY <1>0, <2>1, <2>2, <2>3
<1>3. ASSUME NEW c \in AdminCalls, OverridePoint(c) PROVE skill' \in [SkillIds -> Row]
  <2>1. request[c].skill \in SkillIds /\ request[c].target \in Nat
    BY <1>3 DEF OverridePoint, Requests, RequestKnows, Types
  <2>2. [skill[request[c].skill] EXCEPT !.current = request[c].target] \in Row
    BY <1>0, <2>1 DEF Row
  <2>3. skill' = [skill EXCEPT ![request[c].skill] =
                    [skill[request[c].skill] EXCEPT !.current = request[c].target]]
    BY <1>3 DEF OverridePoint
  <2> QED
    BY <1>0, <2>1, <2>2, <2>3
<1>4. CASE UNCHANGED skill
  BY <1>0, <1>4
<1> QED
  BY <1>1, <1>2, <1>3, <1>4 DEF Next, Steps, vars, ToggleRead, OverrideRead, OverrideVet, Breaks,
     Resolve, GuardEntry, CallTool, GuardReads, GuardDenies, RunAllowed, RunBlocked, Answered, DatabaseFails, EndTurn

\* The version shown, or overridden, is one that is there.
LEMMA DisplayedIsThere ==
  ASSUME Types, Pointing, NEW s \in SkillIds, versions[s] # <<>>
  PROVE  DisplayVersion(s) \in Nat /\ There(s, DisplayVersion(s))
<1>1. versions[s] \in Seq(Version) /\ skill[s].current \in Nat
  BY DEF Types
<1>2. Len(versions[s]) \in Nat \ {0}
  BY <1>1, EmptySeq
<1> QED
  BY <1>1, <1>2 DEF DisplayVersion, Pointing, Approved, There

\* Requests keep their types.
LEMMA RequestsTyped ==
  ASSUME Types, Pointing, [Next]_vars
  PROVE  request' \in [AdminCalls -> Request]
<1>0. request \in [AdminCalls -> Request]
  BY DEF Types, Request
<1>i. Idle \in Request
  BY DEF Request, Idle
<1>1. ASSUME NEW c \in AdminCalls, NEW s \in SkillIds, OverrideRead(c, s)
      PROVE  request' \in [AdminCalls -> Request]
  <2> DEFINE q == [pc |-> "vet", skill |-> s, target |-> DisplayVersion(s),
                   flag |-> skill[s].current = 0]
  <2>1. q \in Request
    BY <1>1, DisplayedIsThere DEF OverrideRead, Request
  <2>2. request' = [request EXCEPT ![c] = q]
    BY <1>1 DEF OverrideRead
  <2> HIDE DEF q
  <2> QED
    BY <1>0, <2>1, <2>2
<1>2. ASSUME NEW c \in AdminCalls, NEW s \in SkillIds, NEW on \in BOOLEAN, ToggleRead(c, s, on)
      PROVE  request' \in [AdminCalls -> Request]
  <2> DEFINE q == [pc |-> "toggle", skill |-> s, target |-> 0, flag |-> on]
  <2>1. q \in Request
    BY DEF Request
  <2>2. request' = [request EXCEPT ![c] = q]
    BY <1>2 DEF ToggleRead
  <2> HIDE DEF q
  <2> QED
    BY <1>0, <2>1, <2>2
<1>3. ASSUME NEW c \in AdminCalls, ToggleWrite(c) \/ OverridePoint(c) \/ Breaks(c)
      PROVE  request' \in [AdminCalls -> Request]
  BY <1>0, <1>i, <1>3 DEF ToggleWrite, OverridePoint, Breaks, Returns
<1>4. ASSUME NEW c \in AdminCalls, NEW verdict \in Approving, OverrideVet(c, verdict)
      PROVE  request' \in [AdminCalls -> Request]
  <2>1. [request[c] EXCEPT !.pc = "point"] \in Request
    BY <1>0 DEF Request
  <2>2. \/ request' = [request EXCEPT ![c] = [request[c] EXCEPT !.pc = "point"]]
        \/ request' = [request EXCEPT ![c] = Idle]
    BY <1>4 DEF OverrideVet, Returns
  <2> QED
    BY <1>0, <1>i, <2>1, <2>2
<1>5. CASE UNCHANGED request
  BY <1>0, <1>5
<1> QED
  BY <1>1, <1>2, <1>3, <1>4, <1>5 DEF Next, Steps, vars, Ingest,
     Resolve, GuardEntry, CallTool, GuardReads, GuardDenies, RunAllowed, RunBlocked, Answered, DatabaseFails, EndTurn

\* Turns keep their types, and make one call at a time.
LEMMA TurnsTyped ==
  ASSUME Types, Pointing, OneCall, [Next]_vars
  PROVE  turn' \in [Turns -> Turn] /\ OneCall'
<1> USE DEF Turn, OneCall
<1>0. turn \in [Turns -> Turn]
  BY DEF Types
<1>r. ASSUME NEW todo \in SUBSET AnyEntry, NEW catalog \in SUBSET AnyEntry
      PROVE  Resolving(todo, catalog) \in Turn /\ Resolving(todo, catalog).call = {}
  BY DEF Resolving
<1>c. ASSUME NEW t \in Turns, NEW w \in Turn, \A d, e \in w.call : d = e,
             turn' = [turn EXCEPT ![t] = w]
      PROVE  turn' \in [Turns -> Turn] /\ OneCall'
  <2>1. turn' \in [Turns -> Turn]
    BY <1>0, <1>c
  <2>2. \A u \in Turns : turn'[u] = IF u = t THEN w ELSE turn[u]
    BY <1>0, <1>c
  <2> QED
    BY <1>c, <2>1, <2>2
<1> HIDE DEF Turn
<1>1. ASSUME NEW t \in Turns, Resolve(t) PROVE turn' \in [Turns -> Turn] /\ OneCall'
  <2>1. turn' = [turn EXCEPT ![t] = Resolving(Rows, {})]
    BY <1>1 DEF Resolve
  <2> QED
    BY <1>r, <1>c, <2>1, ResolvedEntries
<1>2. ASSUME NEW t \in Turns, GuardEntry(t) PROVE turn' \in [Turns -> Turn] /\ OneCall'
  <2> DEFINE cat(e) == IF Offered(e, turn[t].catalog) THEN turn[t].catalog \cup {e}
                       ELSE turn[t].catalog
  <2>1. PICK e \in turn[t].todo :
          turn' = [turn EXCEPT ![t] = Resolving(turn[t].todo \ {e}, cat(e))]
    BY <1>2 DEF GuardEntry
  <2>2. turn[t].todo \ {e} \in SUBSET AnyEntry /\ cat(e) \in SUBSET AnyEntry
    BY <1>0 DEF Turn
  <2> HIDE DEF cat
  <2> QED
    BY <1>r, <1>c, <2>1, <2>2
<1>3. ASSUME NEW t \in Turns, CallTool(t) PROVE turn' \in [Turns -> Turn] /\ OneCall'
  <2> DEFINE w(e) == [pc |-> "guarding", todo |-> {}, catalog |-> turn[t].catalog, call |-> {e},
                   read |-> 0]
  <2>1. PICK e \in turn[t].catalog : turn' = [turn EXCEPT ![t] = w(e)]
    BY <1>3 DEF CallTool
  <2>2. w(e) \in Turn /\ \A d, f \in w(e).call : d = f
    BY <1>0 DEF Turn
  <2> HIDE DEF w
  <2> QED
    BY <1>c, <2>1, <2>2
<1>4. ASSUME NEW t \in Turns, GuardReads(t) \/ GuardDenies(t) \/ RunAllowed(t) \/ RunBlocked(t)
      PROVE  turn' \in [Turns -> Turn] /\ OneCall'
  <2>1. PICK p \in {"verifying", "running", "mismatch", "blocked"}, n \in Nat : Judged(t, p, n)
    BY <1>4, Judging
  <2> DEFINE w == [pc |-> p, todo |-> turn[t].todo, catalog |-> turn[t].catalog,
                   call |-> turn[t].call, read |-> n]
  <2>2. w \in Turn /\ w.call = turn[t].call
    BY <1>0 DEF Turn
  <2>3. turn' = [turn EXCEPT ![t] = w]
    BY <2>1 DEF Judged
  <2> HIDE DEF w
  <2>4. \A d, e \in w.call : d = e
    BY <2>2
  <2> QED
    BY <1>c, <2>2, <2>3, <2>4
<1>5. ASSUME NEW t \in Turns, Answered(t) PROVE turn' \in [Turns -> Turn] /\ OneCall'
  <2>1. turn' = [turn EXCEPT ![t] = Resolving({}, turn[t].catalog)]
    BY <1>5 DEF Answered
  <2>2. turn[t].catalog \in SUBSET AnyEntry /\ {} \in SUBSET AnyEntry
    BY <1>0 DEF Turn
  <2>3. Resolving({}, turn[t].catalog) \in Turn /\ Resolving({}, turn[t].catalog).call = {}
    BY <1>r, <2>2
  <2> QED
    BY <1>c, <2>1, <2>3
<1>7. NoTurn \in Turn /\ NoTurn.call = {}
  BY DEF Turn, NoTurn
<1>8. ASSUME NEW t \in Turns, DatabaseFails(t) \/ EndTurn(t)
      PROVE  turn' \in [Turns -> Turn] /\ OneCall'
  <2>1. [turn[t] EXCEPT !.todo = {}] \in Turn /\ [turn[t] EXCEPT !.todo = {}].call = turn[t].call
    BY <1>0 DEF Turn
  <2>2. CASE turn' = [turn EXCEPT ![t] = [turn[t] EXCEPT !.todo = {}]]
    <3> DEFINE w == [turn[t] EXCEPT !.todo = {}]
    <3>1. w \in Turn /\ \A d, e \in w.call : d = e
      BY <2>1
    <3>2. turn' = [turn EXCEPT ![t] = w]
      BY <2>2
    <3> HIDE DEF w
    <3> QED
      BY <1>c, <3>1, <3>2
  <2>3. CASE turn' = [turn EXCEPT ![t] = NoTurn]
    BY <1>c, <1>7, <2>3
  <2> QED
    BY <1>8, <2>2, <2>3 DEF DatabaseFails, EndTurn
<1>6. CASE UNCHANGED turn
  BY <1>0, <1>6
<1> QED
  BY <1>1, <1>2, <1>3, <1>4, <1>5, <1>6, <1>8 DEF Next, Steps, vars, Ingest, ToggleRead, ToggleWrite,
     OverrideRead, OverrideVet, OverridePoint, Breaks

\* Every step keeps the types.
LEMMA TypesStep ==
  ASSUME Types, Pointing, Requests, OneCall, [Next]_vars
  PROVE  Types' /\ OneCall'
<1>1. skill' \in [SkillIds -> Row]
  BY RowsTyped
<1>2. versions' \in [SkillIds -> Seq(Version)]
  BY VersionsGrow
<1>3. request' \in [AdminCalls -> Request]
  BY RequestsTyped
<1>4. turn' \in [Turns -> Turn] /\ OneCall'
  BY TurnsTyped
<1> QED
  BY <1>1, <1>2, <1>3, <1>4 DEF Types, Row, Request, Turn

-----------------------------------------------------------------------------
(* The invariant, part by part.                                            *)

\* What a step does to the row of a skill: an upload of an approved text or an
\* override points it at an approved version, a toggle writes what was read.
LEMMA RowChanges ==
  ASSUME Types, Requests, [Next]_vars, NEW r \in SkillIds
  PROVE  /\ \/ skill'[r].current = skill[r].current
            \/ ApprovedNext(r, skill'[r].current)
         /\ \/ skill'[r].enabled => skill[r].enabled
            \/ \E i \in Nat : Approved(r, i)
<1>0. skill \in [SkillIds -> Row]
  BY DEF Types, Row
<1>1. ASSUME NEW s \in SkillIds, NEW source \in Sources, NEW tool \in Tools \cup {NoTool},
             Ingest(s, source, tool)
      PROVE  /\ \/ skill'[r].current = skill[r].current
                \/ ApprovedNext(r, skill'[r].current)
             /\ skill'[r].enabled => skill[r].enabled
  <2> DEFINE index == Len(versions[s]) + 1
  <2>1. /\ versions' = [versions EXCEPT ![s] = Append(versions[s], Uploaded(source))]
        /\ Uploaded(source) \in Version
        /\ skill' = [skill EXCEPT ![s] =
             [enabled |-> skill[s].enabled, tool |-> tool,
              current |-> IF Uploaded(source).verdict \in Approving THEN index
                          ELSE skill[s].current]]
    BY <1>1, IngestEffect
  <2>2. CASE r # s
    BY <1>0, <2>1, <2>2
  <2>3. CASE r = s
    <3>1. versions[s] \in Seq(Version) /\ versions \in [SkillIds -> Seq(Version)]
      BY DEF Types
    <3>2. versions'[s] = Append(versions[s], Uploaded(source))
      BY <2>1, <3>1
    <3>3. /\ Len(versions'[s]) = index /\ versions'[s][index] = Uploaded(source)
          /\ index \in 1..index
      BY <2>1, <3>1, <3>2, Appended, LenProperties
    <3>5. ApprovedNext(s, index) <=> Uploaded(source).verdict \in Approving
      BY <3>3 DEF ApprovedNext
    <3>4. /\ skill'[s].enabled = skill[s].enabled
          /\ skill'[s].current = IF Uploaded(source).verdict \in Approving THEN index
                                 ELSE skill[s].current
      BY <1>0, <2>1
    <3> QED
      BY <2>3, <3>4, <3>5
  <2> QED
    BY <2>2, <2>3
<1>2. ASSUME NEW c \in AdminCalls, ToggleWrite(c)
      PROVE  /\ skill'[r].current = skill[r].current
             /\ \/ skill'[r].enabled => skill[r].enabled
                \/ \E i \in Nat : Approved(r, i)
  BY <1>0, <1>2 DEF ToggleWrite, Requests, RequestKnows, Row
<1>3. ASSUME NEW c \in AdminCalls, OverridePoint(c)
      PROVE  /\ \/ skill'[r].current = skill[r].current
                \/ ApprovedNext(r, skill'[r].current)
             /\ skill'[r].enabled => skill[r].enabled
  <2>1. Approved(request[c].skill, request[c].target) /\ UNCHANGED versions
    BY <1>3 DEF OverridePoint, Requests, RequestKnows
  <2>2. request[c].skill \in SkillIds
    BY <1>3 DEF OverridePoint, Requests, RequestKnows
  <2>3. skill' = [skill EXCEPT ![request[c].skill] =
                    [skill[request[c].skill] EXCEPT !.current = request[c].target]]
    BY <1>3 DEF OverridePoint
  <2> QED
    BY <1>0, <2>1, <2>2, <2>3 DEF Row, Approved, ApprovedNext, There
<1>4. CASE UNCHANGED skill
  BY <1>4
<1> QED
  BY <1>1, <1>2, <1>3, <1>4 DEF Next, Steps, vars, ToggleRead, OverrideRead, OverrideVet, Breaks,
     Resolve, GuardEntry, CallTool, GuardReads, GuardDenies, RunAllowed, RunBlocked, Answered, DatabaseFails, EndTurn

\* So the pointer keeps pointing at an approved version, and an enabled skill keeps
\* having one.
LEMMA PointersStep ==
  ASSUME Types, Pointing, EnabledHas, Requests, [Next]_vars
  PROVE  Pointing' /\ EnabledHas'
<1>1. Grown
  BY VersionsGrow
<1>2. skill \in [SkillIds -> Row]
  BY DEF Types, Row
<1>3. ASSUME NEW s \in SkillIds, skill'[s].current # 0 PROVE ApprovedNext(s, skill'[s].current)
  <2>1. CASE skill'[s].current = skill[s].current
    <3>1. Approved(s, skill[s].current) /\ skill[s].current \in Nat
      BY <1>2, <1>3, <2>1 DEF Pointing, Row
    <3> QED
      BY <1>1, <2>1, <3>1, ApprovedStays
  <2> QED
    BY <2>1, RowChanges
<1>4. ASSUME NEW s \in SkillIds, skill'[s].enabled PROVE \E i \in Nat : ApprovedNext(s, i)
  <2>1. PICK i \in Nat : Approved(s, i)
    BY <1>4, RowChanges DEF EnabledHas
  <2>2. ApprovedNext(s, i)
    BY <1>1, <2>1, ApprovedStays
  <2> QED
    BY <2>2
<1>5. Pointing'
  BY <1>3 DEF Pointing, Approved, ApprovedNext, There
<1>6. EnabledHas'
  BY <1>4 DEF EnabledHas, Approved, ApprovedNext, There
<1> QED
  BY <1>5, <1>6

\* What a request has read still holds when it writes.
LEMMA RequestsStep ==
  ASSUME Types, Pointing, EnabledHas, Requests, [Next]_vars
  PROVE  Requests'
<1>0. request \in [AdminCalls -> Request]
  BY DEF Types, Request
<1>1. Grown
  BY VersionsGrow
<1>i. ASSUME NEW c \in AdminCalls, request'[c] = Idle PROVE RequestKnows(c)'
  BY <1>i DEF RequestKnows, Idle
<1>3. ASSUME NEW c \in AdminCalls, request'[c] = request[c] PROVE RequestKnows(c)'
  <2>1. RequestKnows(c) /\ request[c].target \in Nat
    BY <1>0 DEF Requests, Request
  <2>3. CASE request[c].pc = "idle"
    BY <1>3, <2>3 DEF RequestKnows
  <2>4. CASE request[c].pc # "idle"
    <3>1. request[c].skill \in SkillIds
      BY <2>1, <2>4 DEF RequestKnows
    <3> QED
      BY <1>1, <1>3, <2>1, <3>1 DEF RequestKnows, Grown, Approved, There
  <2> QED
    BY <2>3, <2>4
<1>4. ASSUME NEW c \in AdminCalls, NEW s \in SkillIds, OverrideRead(c, s) PROVE Requests'
  <2>1. DisplayVersion(s) \in Nat /\ There(s, DisplayVersion(s)) /\ UNCHANGED versions
    BY <1>4, DisplayedIsThere DEF OverrideRead
  <2>2. request'[c].pc = "vet" /\ request'[c].skill = s /\ request'[c].target = DisplayVersion(s)
    BY <1>0, <1>4 DEF OverrideRead
  <2>3. RequestKnows(c)'
    BY <2>1, <2>2 DEF RequestKnows, There
  <2>4. \A d \in AdminCalls \ {c} : request'[d] = request[d]
    BY <1>0, <1>4 DEF OverrideRead
  <2> QED
    BY <1>3, <2>3, <2>4 DEF Requests
<1>5. ASSUME NEW c \in AdminCalls, NEW s \in SkillIds, NEW on \in BOOLEAN, ToggleRead(c, s, on)
      PROVE  Requests'
  <2>1. request'[c].pc = "toggle" /\ request'[c].skill = s /\ request'[c].flag = on
    BY <1>0, <1>5 DEF ToggleRead
  <2>2. on => \E i \in Nat : Approved(s, i)
    <3>1. versions[s] # <<>> /\ (on => Enableable(s))
      BY <1>5 DEF ToggleRead
    <3>2. DisplayVersion(s) \in Nat /\ There(s, DisplayVersion(s))
      BY <3>1, DisplayedIsThere
    <3>3. on => Approved(s, DisplayVersion(s))
      BY <3>1, <3>2 DEF Enableable, Approved
    <3> QED
      BY <3>2, <3>3
  <2>3. UNCHANGED versions
    BY <1>5 DEF ToggleRead
  <2>4. RequestKnows(c)'
    BY <2>1, <2>2, <2>3 DEF RequestKnows, Approved, There
  <2>5. \A d \in AdminCalls \ {c} : request'[d] = request[d]
    BY <1>0, <1>5 DEF ToggleRead
  <2> QED
    BY <1>3, <2>4, <2>5 DEF Requests
<1>6. ASSUME NEW c \in AdminCalls, ToggleWrite(c) \/ OverridePoint(c) \/ Breaks(c)
      PROVE  Requests'
  <2>1. request'[c] = Idle /\ \A d \in AdminCalls \ {c} : request'[d] = request[d]
    BY <1>0, <1>6 DEF ToggleWrite, OverridePoint, Breaks, Returns
  <2> QED
    BY <1>3, <1>i, <2>1 DEF Requests
<1>7. ASSUME NEW c \in AdminCalls, NEW verdict \in Approving, OverrideVet(c, verdict)
      PROVE  Requests'
  <2> DEFINE s == request[c].skill
             v == request[c].target
             vetted == [source |-> versions[s][v].source, verdict |-> verdict, overridden |-> TRUE]
  <2>1. /\ s \in SkillIds /\ There(s, v)
        /\ vetted \in Version
        /\ versions' = [versions EXCEPT ![s] = [versions[s] EXCEPT ![v] = vetted]]
    BY <1>7, VetEffect
  <2>2. versions \in [SkillIds -> Seq(Version)] /\ v \in Nat
    BY <1>0 DEF Types, Request
  <2>3. vetted.verdict \in Approving
    OBVIOUS
  <2> HIDE DEF vetted
  <2>4. versions'[s][v] = vetted /\ Len(versions'[s]) = Len(versions[s])
    BY <2>1, <2>2, Replaced DEF There
  <2>5. \A d \in AdminCalls \ {c} : request'[d] = request[d]
    BY <1>0, <1>7 DEF OverrideVet, Returns
  <2>6. \/ request'[c] = Idle
        \/ request'[c].pc = "point" /\ request'[c].skill = s /\ request'[c].target = v
    BY <1>0, <1>7 DEF OverrideVet, Returns, Request
  <2>7. RequestKnows(c)'
    BY <1>i, <2>1, <2>2, <2>3, <2>4, <2>6 DEF RequestKnows, Approved, There
  <2> QED
    BY <1>3, <2>5, <2>7 DEF Requests
<1>8. CASE UNCHANGED request
  BY <1>3, <1>8 DEF Requests
<1> QED
  BY <1>4, <1>5, <1>6, <1>7, <1>8 DEF Next, Steps, vars, Ingest,
     Resolve, GuardEntry, CallTool, GuardReads, GuardDenies, RunAllowed, RunBlocked, Answered, DatabaseFails, EndTurn

\* A dangerous text is approved by an override only.
LEMMA VerdictsStep ==
  ASSUME Types, Requests, Verdicts, [Next]_vars
  PROVE  Verdicts'
<1>1. CASE UNCHANGED versions
  BY <1>1 DEF Verdicts, Approved, There
<1>2. ASSUME NEW s \in SkillIds, NEW source \in Sources, NEW tool \in Tools \cup {NoTool},
             Ingest(s, source, tool)
      PROVE  Verdicts'
  <2>1. /\ versions' = [versions EXCEPT ![s] = Append(versions[s], Uploaded(source))]
        /\ Uploaded(source) \in Version
    BY <1>2, IngestEffect
  <2>2. versions \in [SkillIds -> Seq(Version)] /\ Len(versions[s]) \in Nat
    BY LenProperties DEF Types
  <2>3. Dangerous(Uploaded(source).source) => Uploaded(source).verdict \notin Approving
    BY PolicyBlocksDanger DEF Uploaded
  <2>4. ASSUME NEW r \in SkillIds, NEW i \in Nat, i \in 1..Len(versions'[r])
        PROVE  \/ i \in 1..Len(versions[r]) /\ versions'[r][i] = versions[r][i]
               \/ versions'[r][i] = Uploaded(source)
    <3>1. CASE r = s
      BY <2>1, <2>2, <2>4, <3>1, Appended
    <3>2. CASE r # s
      BY <2>1, <2>2, <2>4, <3>2
    <3> QED
      BY <3>1, <3>2
  <2> QED
    BY <2>3, <2>4 DEF Verdicts, Approved, There, Dangerous
<1>3. ASSUME NEW c \in AdminCalls, NEW verdict \in Approving, OverrideVet(c, verdict)
      PROVE  Verdicts'
  <2> DEFINE s == request[c].skill
             v == request[c].target
             vetted == [source |-> versions[s][v].source, verdict |-> verdict, overridden |-> TRUE]
  <2>1. /\ s \in SkillIds /\ v \in 1..Len(versions[s])
        /\ vetted \in Version
        /\ versions' = [versions EXCEPT ![s] = [versions[s] EXCEPT ![v] = vetted]]
    BY <1>3, VetEffect DEF There
  <2>2. versions \in [SkillIds -> Seq(Version)]
    BY DEF Types
  <2>3. vetted.overridden
    OBVIOUS
  <2> HIDE DEF vetted
  <2>4. ASSUME NEW r \in SkillIds, NEW i \in Nat, i \in 1..Len(versions'[r])
        PROVE  \/ i \in 1..Len(versions[r]) /\ versions'[r][i] = versions[r][i]
               \/ versions'[r][i] = vetted
    <3>1. CASE r = s
      BY <2>1, <2>2, <2>4, <3>1, Replaced
    <3>2. CASE r # s
      BY <2>1, <2>2, <2>4, <3>2
    <3> QED
      BY <3>1, <3>2
  <2> QED
    BY <2>3, <2>4 DEF Verdicts, Approved, There, Dangerous
<1> QED
  BY <1>1, <1>2, <1>3 DEF Next, Steps, vars, ToggleRead, ToggleWrite, OverrideRead, OverridePoint, Breaks,
     Resolve, GuardEntry, CallTool, GuardReads, GuardDenies, RunAllowed, RunBlocked, Answered, DatabaseFails, EndTurn

\* The text of an entry was overridden by hand.
Overridden(e) == \E i \in 1..Len(versions[e.skill]) :
  LET v == versions[e.skill][i] IN v.overridden /\ e.source \in {v.source, Trimmed[v.source]}

Runs == {"verifying", "running"}

\* A guard is under way as it was, or has just read the current version of an enabled
\* skill; a turn runs what it ran, or what the guard let through of the version it read.
LEMMA RunsFromGuard ==
  ASSUME Types, [Next]_vars, NEW t \in Turns, turn'[t].pc \in Runs
  PROVE  /\ turn'[t].call = turn[t].call
         /\ \/ turn'[t] = turn[t]
            \/ /\ turn'[t].pc = "verifying" /\ UNCHANGED <<skill, versions>>
               /\ \E e \in turn[t].call : Enabled(e.skill) /\ turn'[t].read = skill[e.skill].current
            \/ /\ turn'[t].pc = "running" /\ turn[t].pc = "verifying" /\ UNCHANGED <<skill, versions>>
               /\ \E e \in turn[t].call : /\ Read(t, e).verdict \in Approving
                                          /\ e.source = Read(t, e).source
<1> DEFINE Goal ==
      /\ turn'[t].call = turn[t].call
      /\ \/ turn'[t] = turn[t]
         \/ /\ turn'[t].pc = "verifying" /\ UNCHANGED <<skill, versions>>
            /\ \E e \in turn[t].call : Enabled(e.skill) /\ turn'[t].read = skill[e.skill].current
         \/ /\ turn'[t].pc = "running" /\ turn[t].pc = "verifying" /\ UNCHANGED <<skill, versions>>
            /\ \E e \in turn[t].call : /\ Read(t, e).verdict \in Approving
                                       /\ e.source = Read(t, e).source
<1>0. turn \in [Turns -> Turn]
  BY DEF Types, Turn
<1>1. CASE turn'[t] = turn[t]
  BY <1>1
<1>2. ASSUME NEW u \in Turns,
             \E w : turn' = [turn EXCEPT ![u] = w] /\ w.pc \notin Runs
      PROVE  Goal
  BY <1>0, <1>1, <1>2
<1>3. ASSUME NEW u \in Turns, GuardReads(u) \/ GuardDenies(u) \/ RunAllowed(u) \/ RunBlocked(u)
      PROVE  Goal
  <2>1. PICK p \in {"verifying", "running", "mismatch", "blocked"}, n \in Nat :
           /\ Judged(u, p, n) /\ UNCHANGED <<skill, versions>>
           /\ p = "verifying" => \E e \in turn[u].call : Enabled(e.skill) /\ n = skill[e.skill].current
           /\ p = "running" =>
                /\ turn[u].pc = "verifying"
                /\ \E e \in turn[u].call : /\ Read(u, e).verdict \in Approving
                                           /\ e.source = Read(u, e).source
    BY <1>3, Judging
  <2>2. CASE u = t
    <3>1. turn'[t].pc = p /\ turn'[t].call = turn[t].call /\ turn'[t].read = n
      BY <1>0, <2>1, <2>2 DEF Judged
    <3> QED
      BY <2>1, <2>2, <3>1 DEF Runs
  <2>3. CASE u # t
    BY <1>0, <1>1, <2>1, <2>3 DEF Judged
  <2> QED
    BY <2>2, <2>3
<1>4. ASSUME NEW u \in Turns,
             Resolve(u) \/ GuardEntry(u) \/ CallTool(u) \/ Answered(u)
      PROVE  \E w : turn' = [turn EXCEPT ![u] = w] /\ w.pc \notin Runs
  BY <1>4 DEF Resolve, GuardEntry, CallTool, Answered, Resolving, Runs
<1>5. ASSUME NEW u \in Turns, DatabaseFails(u) \/ EndTurn(u)
      PROVE  \E w : turn' = [turn EXCEPT ![u] = w] /\ w.pc \notin Runs
  <2>2. CASE DatabaseFails(u) /\ turn[u].pc = "resolving"
    <3>1. turn' = [turn EXCEPT ![u] = [turn[u] EXCEPT !.todo = {}]]
      BY <2>2 DEF DatabaseFails
    <3>2. [turn[u] EXCEPT !.todo = {}].pc \notin Runs
      BY <1>0, <2>2 DEF Turn, Runs
    <3> QED
      BY <3>1, <3>2
  <2>3. CASE turn' = [turn EXCEPT ![u] = NoTurn]
    <3>1. NoTurn.pc \notin Runs
      BY DEF NoTurn, Runs
    <3> QED
      BY <2>3, <3>1
  <2> QED
    BY <1>5, <2>2, <2>3 DEF DatabaseFails, EndTurn
<1>6. CASE UNCHANGED turn
  BY <1>1, <1>6
<1>7. CASE \E u \in Turns : Resolve(u) \/ GuardEntry(u) \/ CallTool(u) \/ GuardReads(u)
             \/ GuardDenies(u) \/ RunAllowed(u) \/ RunBlocked(u) \/ Answered(u) \/ DatabaseFails(u) \/ EndTurn(u)
  BY <1>2, <1>3, <1>4, <1>5, <1>7
<1> QED
  BY <1>6, <1>7 DEF Next, Steps, vars, Ingest, ToggleRead, ToggleWrite,
     OverrideRead, OverrideVet, OverridePoint, Breaks

\* What the guard lets through is the text of an approved version.
LEMMA AllowedIsOverridden ==
  ASSUME Types, Reading, Verdicts, NEW t \in Turns, turn[t].pc = "verifying",
         NEW e \in turn[t].call, Read(t, e).verdict \in Approving, e.source = Read(t, e).source,
         Dangerous(e.source)
  PROVE  Overridden(e)
<1> DEFINE i == turn[t].read
<1>1. e.skill \in SkillIds /\ i \in Nat
  BY DEF AnyEntry, Types
<1>2. Approved(e.skill, i) /\ e.source = versions[e.skill][i].source
  BY DEF Read, Reading, Approved
<1>3. versions[e.skill][i].overridden
  BY <1>1, <1>2 DEF Verdicts
<1> QED
  BY <1>2, <1>3 DEF Overridden, Approved, There

\* What the guard has read is there, and its text was the current one when it read it.
LEMMA ReadingStep ==
  ASSUME Types, Pointing, Requests, OneCall, Reading, [Next]_vars
  PROVE  Reading'
<1> SUFFICES ASSUME NEW t \in Turns, turn'[t].pc = "verifying", NEW e \in turn'[t].call
             PROVE  /\ turn'[t].read \in 1..Len(versions'[e.skill])
                    /\ e.source = versions'[e.skill][turn'[t].read].source => t \in live'
  BY DEF Reading, Read, There
<1>0. turn'[t].pc \in Runs /\ turn'[t].call = turn[t].call
  BY RunsFromGuard DEF Runs
<1>1. e \in turn[t].call /\ e.skill \in SkillIds /\ turn[t].read \in Nat
  BY <1>0 DEF Types, AnyEntry
<1>2. CASE turn'[t] = turn[t]
  <2>1. There(e.skill, turn[t].read) /\ (e.source = Read(t, e).source => t \in live)
    BY <1>1, <1>2 DEF Reading
  <2>2. /\ turn[t].read \in 1..Len(versions'[e.skill])
        /\ versions'[e.skill][turn[t].read].source = Read(t, e).source
    BY <1>1, <1>2, <2>1, VersionsGrow DEF Grown, There, Read
  <2>3. t \in live => t \in live'
    BY DEF Next, Remembers, vars
  <2> QED
    BY <1>2, <2>1, <2>2, <2>3
<1>3. CASE turn'[t] # turn[t]
  <2>1. /\ UNCHANGED <<skill, versions>>
        /\ \E d \in turn[t].call : Enabled(d.skill) /\ turn'[t].read = skill[d.skill].current
    BY <1>0, <1>3, RunsFromGuard
  <2>2. Enabled(e.skill) /\ turn'[t].read = skill[e.skill].current
    BY <1>1, <2>1 DEF OneCall
  <2>3. turn'[t].read \in 1..Len(versions'[e.skill])
    BY <1>1, <2>1, <2>2 DEF Enabled, Pointing, Approved, There
  <2>4. ASSUME e.source = versions'[e.skill][turn'[t].read].source PROVE t \in live'
    <3>1. Live(t)'
      BY <2>1, <2>2, <2>4 DEF Live, Enabled, Current
    <3>2. Remembers
      BY <1>3 DEF Next, vars
    <3> QED
      BY <3>1, <3>2 DEF Remembers
  <2> QED
    BY <2>3, <2>4
<1> QED
  BY <1>2, <1>3

\* So what runs was current since the model asked for it.
LEMMA StaleStep ==
  ASSUME Types, OneCall, Reading, StaleNeverRuns, [Next]_vars
  PROVE  StaleNeverRuns'
<1> SUFFICES ASSUME NEW t \in Turns, turn'[t].pc = "running" PROVE t \in live'
  BY DEF StaleNeverRuns
<1>1. t \in live
  <2>1. CASE turn'[t] = turn[t]
    BY <2>1 DEF StaleNeverRuns
  <2>2. CASE turn'[t] # turn[t]
    <3>1. turn[t].pc = "verifying" /\ \E e \in turn[t].call : e.source = Read(t, e).source
      BY <2>2, RunsFromGuard DEF Runs
    <3> QED
      BY <3>1 DEF Reading
  <2> QED
    BY <2>1, <2>2
<1> QED
  BY <1>1 DEF Next, Remembers, vars

\* So a dangerous text that runs was overridden, and stays so.
LEMMA DangerStep ==
  ASSUME Types, Requests, Verdicts, OneCall, Reading, DangerNeedsOverride, [Next]_vars
  PROVE  DangerNeedsOverride'
<1> SUFFICES ASSUME NEW t \in Turns, turn'[t].pc = "running", NEW e \in turn'[t].call,
                    Dangerous(e.source)
             PROVE  \E i \in 1..Len(versions'[e.skill]) :
                      LET v == versions'[e.skill][i]
                      IN  v.overridden /\ e.source \in {v.source, Trimmed[v.source]}
  BY DEF DangerNeedsOverride, Dangerous
<1>1. turn'[t].call = turn[t].call /\ turn[t].call \in SUBSET AnyEntry
  BY RunsFromGuard DEF Types, Runs
<1>2. e \in AnyEntry /\ e.skill \in SkillIds
  BY <1>1 DEF AnyEntry
<1>3. Overridden(e)
  <2>1. CASE turn'[t] = turn[t]
    BY <1>1, <2>1 DEF DangerNeedsOverride, Overridden
  <2>2. CASE turn'[t] # turn[t]
    <3>1. turn[t].pc = "verifying"
      BY <2>2, RunsFromGuard DEF Runs
    <3>2. PICK d \in turn[t].call : Read(t, d).verdict \in Approving /\ d.source = Read(t, d).source
      BY <2>2, RunsFromGuard DEF Runs
    <3>3. d = e
      BY <1>1, <3>2 DEF OneCall
    <3> QED
      BY <3>1, <3>2, <3>3, AllowedIsOverridden
  <2> QED
    BY <2>1, <2>2
<1>4. PICK i \in 1..Len(versions[e.skill]) :
        versions[e.skill][i].overridden
        /\ e.source \in {versions[e.skill][i].source, Trimmed[versions[e.skill][i].source]}
  BY <1>3 DEF Overridden
<1>5. i \in Nat /\ There(e.skill, i)
  BY <1>2, <1>4, LenProperties DEF Types, There
<1>6. /\ i \in 1..Len(versions'[e.skill])
      /\ versions'[e.skill][i].source = versions[e.skill][i].source
      /\ versions'[e.skill][i].overridden
  BY <1>2, <1>4, <1>5, VersionsGrow DEF Grown, There
<1> QED
  BY <1>4, <1>6

-----------------------------------------------------------------------------
(* The bounds of the types: no skill has more versions than the table may  *)
(* hold, so neither has anything that names one.                           *)

Held(t) == turn[t].todo \cup turn[t].catalog \cup turn[t].call

\* What a turn holds in the next state.
HeldNext(t) == turn'[t].todo \cup turn'[t].catalog \cup turn'[t].call

Bounded ==
  /\ \A s \in SkillIds : Len(versions[s]) <= MaxVersions
  /\ \A c \in AdminCalls : request[c].target <= MaxVersions
  /\ \A t \in Turns : turn[t].read <= MaxVersions /\ \A e \in Held(t) : e.version \in 1..MaxVersions
  /\ faults \in 0..MaxFaults

\* A skill with as many versions as there may be fills the table.
LEMMA FullSkillFillsTable ==
  ASSUME NEW s \in SkillIds, Len(versions[s]) \in Nat, Len(versions[s]) >= MaxVersions
  PROVE  Cardinality(Stored) >= MaxVersions
<1> DEFINE Places == 1..MaxVersions
           Table == SkillIds \X Places
           Own == {s} \X Places
<1>1. IsFiniteSet(Places) /\ Cardinality(Places) = MaxVersions
  BY FS_Interval
<1>2. IsFiniteSet({s}) /\ Cardinality({s}) = 1
  BY FS_Singleton
<1>3. Own \in SUBSET Stored /\ Stored \in SUBSET Table
  BY DEF Stored
<1> HIDE DEF Places
<1>4. IsFiniteSet(Table)
  BY <1>1, FS_Product
<1>5. Cardinality(Own) = 1 * MaxVersions
  BY <1>1, <1>2, FS_Product
<1> HIDE DEF Table, Own
<1>6. IsFiniteSet(Stored)
  BY <1>3, <1>4, FS_Subset
<1>7. Cardinality(Own) <= Cardinality(Stored)
  BY <1>3, <1>6, FS_Subset
<1>8. IsFiniteSet(Own) /\ Cardinality(Stored) \in Nat
  BY <1>3, <1>6, FS_Subset, FS_CardinalityType
<1> QED
  BY <1>5, <1>7, <1>8

\* So an upload finds room, or is refused.
LEMMA VersionsBounded ==
  ASSUME Types, Requests, Bounded, [Next]_vars
  PROVE  \A s \in SkillIds : Len(versions'[s]) <= MaxVersions
<1>1. CASE UNCHANGED versions
  BY <1>1 DEF Bounded
<1>2. ASSUME NEW s \in SkillIds, NEW source \in Sources, NEW tool \in Tools \cup {NoTool},
             Ingest(s, source, tool)
      PROVE  \A r \in SkillIds : Len(versions'[r]) <= MaxVersions
  <2>1. /\ versions' = [versions EXCEPT ![s] = Append(versions[s], Uploaded(source))]
        /\ Uploaded(source) \in Version
    BY <1>2, IngestEffect
  <2>2. versions \in [SkillIds -> Seq(Version)] /\ Len(versions[s]) \in Nat
    BY LenProperties DEF Types
  <2>3. Cardinality(Stored) < MaxVersions
    BY <1>2 DEF Ingest
  <2>4. IsFiniteSet(Stored)
    <3>1. IsFiniteSet(1..MaxVersions)
      BY FS_Interval
    <3>2. IsFiniteSet(SkillIds \X (1..MaxVersions))
      BY <3>1, FS_Product
    <3> QED
      BY <3>2, FS_Subset DEF Stored
  <2>5. Cardinality(Stored) \in Nat
    BY <2>4, FS_CardinalityType
  <2>6. Len(versions[s]) < MaxVersions
    BY <2>2, <2>3, <2>5, FullSkillFillsTable
  <2>7. Len(versions'[s]) = Len(versions[s]) + 1
    BY <2>1, <2>2, Appended
  <2>8. \A r \in SkillIds : r # s => versions'[r] = versions[r]
    BY <2>1, <2>2
  <2> QED
    BY <2>2, <2>6, <2>7, <2>8 DEF Bounded
<1>3. ASSUME NEW c \in AdminCalls, NEW verdict \in Approving, OverrideVet(c, verdict)
      PROVE  \A r \in SkillIds : Len(versions'[r]) <= MaxVersions
  <2> DEFINE s == request[c].skill
             v == request[c].target
             vetted == [source |-> versions[s][v].source, verdict |-> verdict, overridden |-> TRUE]
  <2>1. /\ s \in SkillIds /\ v \in 1..Len(versions[s])
        /\ vetted \in Version
        /\ versions' = [versions EXCEPT ![s] = [versions[s] EXCEPT ![v] = vetted]]
    BY <1>3, VetEffect DEF There
  <2>2. versions \in [SkillIds -> Seq(Version)]
    BY DEF Types
  <2> HIDE DEF vetted
  <2>3. \A r \in SkillIds : Len(versions'[r]) = Len(versions[r])
    BY <2>1, <2>2, Replaced
  <2> QED
    BY <2>3 DEF Bounded
<1> QED
  BY <1>1, <1>2, <1>3 DEF Next, Steps, vars, ToggleRead, ToggleWrite, OverrideRead, OverridePoint, Breaks,
     Resolve, GuardEntry, CallTool, GuardReads, GuardDenies, RunAllowed, RunBlocked, Answered, DatabaseFails, EndTurn

\* A request names a version that is there.
LEMMA TargetsBounded ==
  ASSUME Types, Pointing, Bounded, [Next]_vars
  PROVE  \A c \in AdminCalls : request'[c].target <= MaxVersions
<1>0. request \in [AdminCalls -> Request] /\ \A s \in SkillIds : Len(versions[s]) \in Nat
  BY LenProperties DEF Types, Request
<1>1. ASSUME NEW c \in AdminCalls, \A d \in AdminCalls \ {c} : request'[d] = request[d],
             request'[c].target <= MaxVersions
      PROVE  \A d \in AdminCalls : request'[d].target <= MaxVersions
  BY <1>1 DEF Bounded
<1>2. ASSUME NEW c \in AdminCalls, NEW s \in SkillIds, OverrideRead(c, s)
      PROVE  \A d \in AdminCalls : request'[d].target <= MaxVersions
  <2>1. DisplayVersion(s) \in Nat /\ DisplayVersion(s) <= MaxVersions
    BY <1>0, <1>2, DisplayedIsThere DEF OverrideRead, There, Bounded
  <2>2. request'[c].target = DisplayVersion(s) /\ \A d \in AdminCalls \ {c} : request'[d] = request[d]
    BY <1>0, <1>2 DEF OverrideRead
  <2> QED
    BY <1>1, <2>1, <2>2
<1>3. ASSUME NEW c \in AdminCalls, NEW s \in SkillIds, NEW on \in BOOLEAN, ToggleRead(c, s, on)
      PROVE  \A d \in AdminCalls : request'[d].target <= MaxVersions
  <2>1. request'[c].target = 0 /\ \A d \in AdminCalls \ {c} : request'[d] = request[d]
    BY <1>0, <1>3 DEF ToggleRead
  <2> QED
    BY <1>1, <2>1
<1>4. ASSUME NEW c \in AdminCalls, request' = [request EXCEPT ![c] = Idle]
      PROVE  \A d \in AdminCalls : request'[d].target <= MaxVersions
  <2>1. request'[c].target = 0 /\ \A d \in AdminCalls \ {c} : request'[d] = request[d]
    BY <1>0, <1>4 DEF Idle
  <2> QED
    BY <1>1, <2>1
<1>5. ASSUME NEW c \in AdminCalls, NEW verdict \in Approving, OverrideVet(c, verdict)
      PROVE  \A d \in AdminCalls : request'[d].target <= MaxVersions
  <2>1. CASE request' = [request EXCEPT ![c].pc = "point"]
    <3>1. request'[c].target = request[c].target
          /\ \A d \in AdminCalls \ {c} : request'[d] = request[d]
      BY <1>0, <2>1 DEF Request
    <3> QED
      BY <1>1, <3>1 DEF Bounded
  <2> QED
    BY <1>4, <1>5, <2>1 DEF OverrideVet, Returns
<1>6. CASE UNCHANGED request
  BY <1>6 DEF Bounded
<1>7. ASSUME NEW c \in AdminCalls, ToggleWrite(c) \/ OverridePoint(c) \/ Breaks(c)
      PROVE  \A d \in AdminCalls : request'[d].target <= MaxVersions
  BY <1>4, <1>7 DEF ToggleWrite, OverridePoint, Breaks, Returns
<1> QED
  BY <1>2, <1>3, <1>5, <1>6, <1>7 DEF Next, Steps, vars, Ingest,
     Resolve, GuardEntry, CallTool, GuardReads, GuardDenies, RunAllowed, RunBlocked, Answered, DatabaseFails, EndTurn

\* A turn holds what it held, or what the query of the catalog returned.
LEMMA TurnsHold ==
  ASSUME Types, [Next]_vars, NEW t \in Turns
  PROVE  HeldNext(t) \in SUBSET (Held(t) \cup Rows)
<1>0. turn \in [Turns -> Turn]
  BY DEF Types, Turn
<1>1. CASE turn'[t] = turn[t]
  BY <1>1 DEF Held, HeldNext
<1>2. ASSUME NEW todo \in SUBSET (Held(t) \cup Rows), NEW catalog \in SUBSET Held(t),
             turn'[t] = Resolving(todo, catalog)
      PROVE  HeldNext(t) \in SUBSET (Held(t) \cup Rows)
  BY <1>2 DEF HeldNext, Resolving
<1>3. CASE Resolve(t)
  <2>1. turn'[t] = Resolving(Rows, {})
    BY <1>0, <1>3 DEF Resolve
  <2> QED
    BY <1>2, <2>1
<1>4. CASE GuardEntry(t)
  <2> DEFINE cat(e) == IF Offered(e, turn[t].catalog) THEN turn[t].catalog \cup {e}
                       ELSE turn[t].catalog
  <2>1. PICK e \in turn[t].todo : turn'[t] = Resolving(turn[t].todo \ {e}, cat(e))
    BY <1>0, <1>4 DEF GuardEntry
  <2>2. cat(e) \in SUBSET Held(t) /\ turn[t].todo \ {e} \in SUBSET (Held(t) \cup Rows)
    BY DEF Held
  <2> HIDE DEF cat
  <2> QED
    BY <1>2, <2>1, <2>2
<1>5. CASE CallTool(t)
  <2>1. PICK e \in turn[t].catalog :
          turn'[t] = [pc |-> "guarding", todo |-> {}, catalog |-> turn[t].catalog, call |-> {e},
                   read |-> 0]
    BY <1>0, <1>5 DEF CallTool
  <2> QED
    BY <2>1 DEF Held, HeldNext
<1>6. CASE GuardReads(t) \/ GuardDenies(t) \/ RunAllowed(t) \/ RunBlocked(t)
  <2>1. PICK p \in {"verifying", "running", "mismatch", "blocked"}, n \in Nat : Judged(t, p, n)
    BY <1>6, Judging
  <2>3. /\ turn'[t].todo = turn[t].todo /\ turn'[t].catalog = turn[t].catalog
        /\ turn'[t].call = turn[t].call
    BY <1>0, <2>1 DEF Judged
  <2> QED
    BY <2>3 DEF Held, HeldNext
<1>7. CASE Answered(t)
  <2>1. turn'[t] = Resolving({}, turn[t].catalog)
    BY <1>0, <1>7 DEF Answered
  <2> QED
    BY <1>2, <2>1 DEF Held
<1>8. CASE turn' = [turn EXCEPT ![t] = NoTurn]
  BY <1>0, <1>8 DEF HeldNext, NoTurn
<1>9. CASE DatabaseFails(t) \/ EndTurn(t)
  <2>1. CASE turn' = [turn EXCEPT ![t].todo = {}]
    <3>1. turn'[t] = [turn[t] EXCEPT !.todo = {}]
      BY <1>0, <2>1
    <3>2. turn'[t].todo = {} /\ turn'[t].catalog = turn[t].catalog /\ turn'[t].call = turn[t].call
      BY <1>0, <3>1 DEF Turn
    <3> QED
      BY <3>2 DEF Held, HeldNext
  <2> QED
    BY <1>8, <1>9, <2>1 DEF DatabaseFails, EndTurn
<1>10. ASSUME NEW u \in Turns, u # t,
              Resolve(u) \/ GuardEntry(u) \/ CallTool(u) \/ GuardReads(u) \/ GuardDenies(u)
                \/ RunAllowed(u) \/ RunBlocked(u) \/ Answered(u) \/ DatabaseFails(u) \/ EndTurn(u)
       PROVE  turn'[t] = turn[t]
  <2>1. \E w : turn' = [turn EXCEPT ![u] = w]
    BY <1>10 DEF Resolve, GuardEntry, CallTool, GuardReads, GuardDenies, RunAllowed, RunBlocked, Answered, DatabaseFails,
       EndTurn
  <2> QED
    BY <1>0, <1>10, <2>1
<1> QED
  BY <1>1, <1>3, <1>4, <1>5, <1>6, <1>7, <1>9, <1>10 DEF Next, Steps, vars, Ingest, ToggleRead, ToggleWrite,
     OverrideRead, OverrideVet, OverridePoint, Breaks

\* A guard reads a current version.
LEMMA ReadBounded ==
  ASSUME Types, Pointing, Bounded, [Next]_vars, NEW t \in Turns
  PROVE  turn'[t].read <= MaxVersions
<1>0. turn \in [Turns -> Turn] /\ turn[t].read <= MaxVersions
  BY DEF Types, Turn, Bounded
<1>1. CASE turn'[t] = turn[t]
  BY <1>0, <1>1
<1>2. ASSUME NEW u \in Turns, \E w : turn' = [turn EXCEPT ![u] = w] /\ (w.read = 0 \/ w.read = turn[u].read)
      PROVE  turn'[t].read <= MaxVersions
  BY <1>0, <1>1, <1>2
<1>3. ASSUME NEW u \in Turns, Resolve(u) \/ GuardEntry(u) \/ CallTool(u) \/ Answered(u)
      PROVE  \E w : turn' = [turn EXCEPT ![u] = w] /\ w.read = 0
  <2>1. \A todo, catalog : Resolving(todo, catalog).read = 0
    BY DEF Resolving
  <2>2. CASE Resolve(u) \/ Answered(u)
    BY <2>1, <2>2 DEF Resolve, Answered
  <2>3. CASE GuardEntry(u)
    <3>1. PICK catalog, todo : turn' = [turn EXCEPT ![u] = Resolving(todo, catalog)]
      BY <2>3 DEF GuardEntry
    <3> QED
      BY <2>1, <3>1
  <2>4. CASE CallTool(u)
    <3> DEFINE w(e) == [pc |-> "guarding", todo |-> {}, catalog |-> turn[u].catalog, call |-> {e},
                        read |-> 0]
    <3>1. PICK e \in turn[u].catalog : turn' = [turn EXCEPT ![u] = w(e)]
      BY <2>4 DEF CallTool
    <3>2. w(e).read = 0
      OBVIOUS
    <3> HIDE DEF w
    <3> QED
      BY <3>1, <3>2
  <2> QED
    BY <1>3, <2>2, <2>3, <2>4
<1>4. ASSUME NEW u \in Turns, DatabaseFails(u) \/ EndTurn(u)
      PROVE  \E w : turn' = [turn EXCEPT ![u] = w] /\ (w.read = 0 \/ w.read = turn[u].read)
  <2>1. CASE turn' = [turn EXCEPT ![u] = [turn[u] EXCEPT !.todo = {}]]
    <3>1. [turn[u] EXCEPT !.todo = {}].read = turn[u].read
      BY <1>0 DEF Turn
    <3> QED
      BY <2>1, <3>1
  <2>2. CASE turn' = [turn EXCEPT ![u] = NoTurn]
    <3>1. NoTurn.read = 0
      BY DEF NoTurn
    <3> QED
      BY <2>2, <3>1
  <2> QED
    BY <1>4, <2>1, <2>2 DEF DatabaseFails, EndTurn
<1>5. ASSUME NEW u \in Turns, GuardReads(u) \/ GuardDenies(u) \/ RunAllowed(u) \/ RunBlocked(u)
      PROVE  turn'[t].read <= MaxVersions
  <2>1. PICK p \in {"verifying", "running", "mismatch", "blocked"}, n \in Nat :
           /\ Judged(u, p, n)
           /\ p = "verifying" => \E e \in turn[u].call : Enabled(e.skill) /\ n = skill[e.skill].current
           /\ p # "verifying" => n \in {0, turn[u].read}
    BY <1>5, Judging
  <2>2. CASE u # t
    BY <1>0, <1>1, <2>1, <2>2 DEF Judged
  <2>3. CASE u = t
    <3>1. turn'[t].read = n
      BY <1>0, <2>1, <2>3 DEF Judged
    <3>2. CASE p # "verifying"
      BY <1>0, <2>1, <2>3, <3>1, <3>2
    <3>3. CASE p = "verifying"
      <4>1. PICK e \in turn[t].call : Enabled(e.skill) /\ n = skill[e.skill].current
        BY <2>1, <2>3, <3>3
      <4>2. e.skill \in SkillIds
        BY <4>1 DEF Types, AnyEntry
      <4>3. n \in 1..Len(versions[e.skill]) /\ Len(versions[e.skill]) \in Nat
        BY <4>1, <4>2, LenProperties DEF Types, Pointing, Enabled, Approved, There
      <4> QED
        BY <3>1, <4>2, <4>3 DEF Bounded
    <3> QED
      BY <3>2, <3>3
  <2> QED
    BY <2>2, <2>3
<1>6. CASE UNCHANGED turn
  BY <1>1, <1>6
<1>7. CASE \E u \in Turns :
             \/ Resolve(u) \/ GuardEntry(u) \/ CallTool(u) \/ Answered(u)
             \/ DatabaseFails(u) \/ EndTurn(u)
             \/ GuardReads(u) \/ GuardDenies(u) \/ RunAllowed(u) \/ RunBlocked(u)
  BY <1>2, <1>3, <1>4, <1>5, <1>7
<1> QED
  BY <1>6, <1>7 DEF Next, Steps, vars, Ingest, ToggleRead, ToggleWrite,
     OverrideRead, OverrideVet, OverridePoint, Breaks

\* And the query returns current versions.
LEMMA BoundedStep ==
  ASSUME Types, Pointing, Requests, Bounded, [Next]_vars
  PROVE  Bounded'
<1>1. ASSUME NEW t \in Turns, NEW e \in HeldNext(t) PROVE e.version \in 1..MaxVersions
  <2>1. CASE e \in Held(t)
    BY <2>1 DEF Bounded
  <2>2. CASE e \in Rows
    <3>1. PICK s \in SkillIds : Vetted(s) /\ e.version = skill[s].current
      BY <2>2 DEF Rows
    <3>2. Len(versions[s]) \in Nat /\ skill[s].current \in 1..Len(versions[s])
      BY <3>1, LenProperties DEF Types, Pointing, Vetted, Enabled, Approved, There
    <3> QED
      BY <3>1, <3>2 DEF Bounded
  <2> QED
    BY <1>1, <2>1, <2>2, TurnsHold
<1>2. faults' \in 0..MaxFaults
  <2>1. faults' = faults \/ (faults < MaxFaults /\ faults' = faults + 1)
    BY DEF Next, Steps, vars, Ingest, ToggleRead, ToggleWrite, OverrideRead, OverrideVet, OverridePoint,
       Breaks, Resolve, GuardEntry, CallTool, GuardReads, GuardDenies, RunAllowed, RunBlocked, Answered, DatabaseFails,
       EndTurn, Fault
  <2> QED
    BY <2>1 DEF Bounded
<1> QED
  BY <1>1, <1>2, VersionsBounded, TargetsBounded, ReadBounded DEF Bounded, Held, HeldNext

-----------------------------------------------------------------------------
(* The theorems.                                                           *)

\* It holds at first: there is no skill.
LEMMA InitHolds == Init => IndInv
<1> SUFFICES ASSUME Init PROVE IndInv
  OBVIOUS
<1>1. Types
  <2>1. [enabled |-> FALSE, current |-> 0, tool |-> NoTool] \in Row
    BY DEF Row
  <2>2. <<>> \in Seq(Version)
    BY EmptySeq
  <2>3. Idle \in Request
    BY DEF Idle, Request
  <2>4. NoTurn \in Turn
    BY DEF NoTurn, Turn
  <2>5. /\ skill \in [SkillIds -> Row] /\ versions \in [SkillIds -> Seq(Version)]
        /\ request \in [AdminCalls -> Request] /\ turn \in [Turns -> Turn]
    BY <2>1, <2>2, <2>3, <2>4 DEF Init
  <2> QED
    BY <2>5 DEF Types, Row, Request, Turn
<1>2. \A s \in SkillIds : skill[s].current = 0 /\ ~skill[s].enabled /\ versions[s] = <<>>
  BY DEF Init
<1>3. \A t \in Turns : turn[t].call = {} /\ turn[t].pc = "idle"
  BY DEF Init, NoTurn
<1>4. \A c \in AdminCalls : request[c].pc = "idle"
  BY DEF Init, Idle
<1>5. \A s \in SkillIds, i \in Nat : ~Approved(s, i)
  BY <1>2 DEF Approved, There
<1>6. Pointing /\ EnabledHas /\ Verdicts
  BY <1>2, <1>5 DEF Pointing, EnabledHas, Verdicts
<1>7. Requests
  BY <1>4 DEF Requests, RequestKnows
<1>8. OneCall /\ DangerNeedsOverride /\ Reading /\ StaleNeverRuns
  BY <1>3 DEF OneCall, DangerNeedsOverride, Reading, StaleNeverRuns
<1> QED
  BY <1>1, <1>6, <1>7, <1>8 DEF IndInv

\* Every step keeps it.
LEMMA StepHolds == IndInv /\ [Next]_vars => IndInv'
<1> SUFFICES ASSUME IndInv, [Next]_vars PROVE IndInv'
  OBVIOUS
<1>1. /\ Types /\ Pointing /\ EnabledHas /\ Requests /\ Verdicts /\ OneCall /\ Reading
      /\ DangerNeedsOverride /\ StaleNeverRuns
  BY DEF IndInv
<1> QED
  BY <1>1, TypesStep, PointersStep, RequestsStep, VerdictsStep, ReadingStep, DangerStep, StaleStep DEF IndInv

\* It holds in every state that admins, uploads and turns reach.
THEOREM Invariance == Spec => []IndInv
BY InitHolds, StepHolds, PTL DEF Spec

\* Text in which the scan finds a critical or high risk runs only if a version of that
\* skill with that text was overridden by hand.
THEOREM DangerousTextWasOverridden == Spec => []DangerNeedsOverride
<1>1. IndInv => DangerNeedsOverride
  BY DEF IndInv
<1> QED
  BY <1>1, Invariance, PTL

\* An enabled skill has an approved version, and a current version is one.
THEOREM EnabledSkillWasVetted == Spec => []EnabledWasVetted
<1>1. IndInv => EnabledWasVetted
  <2> SUFFICES ASSUME IndInv, NEW s \in SkillIds
               PROVE  /\ skill[s].enabled =>
                           \E i \in 1..Len(versions[s]) : versions[s][i].verdict \in Approving
                      /\ skill[s].current # 0 => Current(s).verdict \in Approving
    BY DEF EnabledWasVetted
  <2> QED
    BY DEF IndInv, Pointing, EnabledHas, Approved, There, Current
<1> QED
  BY <1>1, Invariance, PTL

\* What runs is a text that was the current one of its skill, and the skill enabled, at
\* some moment since the model asked for it.
THEOREM StaleTextNeverRuns == Spec => []StaleNeverRuns
<1>1. IndInv => StaleNeverRuns
  BY DEF IndInv
<1> QED
  BY <1>1, Invariance, PTL

\* The variables have their types, and no index of a version exceeds the bound or
\* points past the versions of its skill.
THEOREM TypeCorrect == Spec => []TypeOK
<1>1. Init => Bounded /\ live \subseteq Turns
  <2> SUFFICES ASSUME Init PROVE Bounded /\ live \subseteq Turns
    OBVIOUS
  <2>1. \A s \in SkillIds : Len(versions[s]) = 0
    BY EmptySeq DEF Init
  <2>2. \A c \in AdminCalls : request[c].target = 0
    BY DEF Init, Idle
  <2>3. \A t \in Turns : Held(t) = {} /\ turn[t].read = 0
    BY DEF Init, NoTurn, Held
  <2> QED
    BY <2>1, <2>2, <2>3 DEF Init, Bounded
<1>2. IndInv /\ Bounded /\ live \subseteq Turns /\ [Next]_vars => (Bounded /\ live \subseteq Turns)'
  BY BoundedStep DEF IndInv, Next, Remembers, vars
<1>3. IndInv /\ Bounded /\ live \subseteq Turns => TypeOK
  <2> SUFFICES ASSUME IndInv, Bounded, live \subseteq Turns PROVE TypeOK
    OBVIOUS
  <2>1. Types /\ Pointing
    BY DEF IndInv
  <2>2. \A s \in SkillIds : /\ Len(versions[s]) \in Nat /\ Len(versions[s]) <= MaxVersions
                            /\ skill[s].current \in 0..Len(versions[s])
    BY <2>1, LenProperties DEF Types, Pointing, Approved, There, Bounded
  <2>3. skill \in [SkillIds -> [enabled : BOOLEAN, current : 0..MaxVersions,
                                tool : Tools \cup {NoTool}]]
    BY <2>1, <2>2 DEF Types
  <2>4. request \in [AdminCalls -> [pc : {"idle", "toggle", "vet", "point"},
                                    skill : SkillIds \cup {NoSkill},
                                    target : 0..MaxVersions, flag : BOOLEAN]]
    BY <2>1 DEF Types, Bounded
  <2>5. ASSUME NEW t \in Turns PROVE Held(t) \in SUBSET Entry
    BY <2>1 DEF Types, Bounded, Held, AnyEntry, Entry
  <2>6. turn \in [Turns -> [pc : {"idle", "resolving", "guarding", "verifying", "running",
                                  "blocked", "mismatch"},
                            todo : SUBSET Entry, catalog : SUBSET Entry, call : SUBSET Entry,
                            read : 0..MaxVersions]]
    BY <2>1, <2>5 DEF Types, Held, Bounded
  <2> QED
    BY <2>1, <2>2, <2>3, <2>4, <2>6 DEF Types, TypeOK, Bounded
<1> QED
  BY <1>1, <1>2, <1>3, Invariance, PTL DEF Spec

=============================================================================
