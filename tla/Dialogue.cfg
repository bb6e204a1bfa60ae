\* Turns, topics, settings, accounts, goals and memory.
SPECIFICATION DialogueSpec
CONSTANTS
  Messages <- MCMessages
  Retries = 1
  Scenarios <- ChatScenarios
  SettingsScenarios <- MCSettingsScenarios
  LastVersion = 5
  AccountScenarios <- MCAccountScenarios
  LastTime = 4
  Grace = 2
  InviteTtl = 2
  TopicScenarios <- MCTopicScenarios
  MaxTopics = 4
  Checkpoint = 2
  GoalScenarios <- MCGoalScenarios
  Goals <- MCRows
  Tasks <- MCRows
  Facts <- MCRows
  LastRow = 4
  OverviewLimit = 1
  IdleDays = 1
  AttentionLimit = 1
INVARIANTS
  TypesOK
  TurnsAreApart
  OnceIsOnce
PROPERTIES
  Refines
  UndoIsExact
  NothingUnasked
CHECK_DEADLOCK FALSE
