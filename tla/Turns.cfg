CONSTANTS
  Threads = {a, b}
  Slots = {t1, t2}
  MaxEvents = 2
  Messages <- MCMessages
  Facts = {"name", "preference"}
  OtherModels = {"llama"}
  SettingsSet <- MCSettings
  PromptTokens <- MCPrompt
  PromptCharges <- MCCharges
  Reported <- MCReported
  Users = {u, v}
  MaxFaults = 1
SYMMETRY Symmetry
SPECIFICATION Spec
INVARIANTS TypeOK WithinCaps LogIsComplete FailsOnlyInARace DowngradeIsSound WrittenOncePerRace
CHECK_DEADLOCK FALSE
