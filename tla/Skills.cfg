CONSTANTS
  SkillIds = {s1, s2}
  Sources = {clean, padded, bad}
  clean = clean
  padded = padded
  bad = bad
  NoSkill = NoSkill
  NoSource = NoSource
  Matches <- MCMatches
  Trimmed <- MCTrimmed
  Tools = {lookup}
  NoTool = NoTool
  AdminCalls = {c1}
  Turns = {t1}
  MaxVersions = 3
  MaxFaults = 1
SPECIFICATION Spec
INVARIANTS TypeOK DangerNeedsOverride EnabledWasVetted StaleNeverRuns
SYMMETRY Symmetry
