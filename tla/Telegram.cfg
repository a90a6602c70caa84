CONSTANTS
  Servers = {s1, s2}
  Handlers = {h1, h2}
  MaxUpdates = 2
  Configs <- MCConfigs
  MaxProcessed = 1
  Slack = 1
  MaxRetries = 1
  MaxFaults = 2
SPECIFICATION Spec
INVARIANTS TypeOK ProcessedOnce AnsweredOnce NothingLost
PROPERTIES EveryUpdateTaken
CHECK_DEADLOCK FALSE
