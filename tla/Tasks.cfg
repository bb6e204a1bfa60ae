\* A recurring series, the reminders of one date, and a task without a date.
SPECIFICATION LifeSpec
CONSTANTS
  Rules <- MCRules
  First = "daily"
  DatesOf <- MCDatesOf
  Ahead = 1
  LastDay = 2
  LastRevision = 2
  Loop = "loop"
  After = "after"
  Scenarios <- MCScenarios
  Moments <- MCMoments
  Explicit <- OneReminder
  FollowUps <- OneFollowUp
  LastVersion = 4
  RebuildWorkers <- LoopAndTwo
  RebuildScenarios <- MCRebuildScenarios
  Own <- TwoReminders
  Covering <- FirstReminder
  LastReview = 5
  UndatedWorkers <- LoopAndOne
  UndatedScenarios <- MCUndatedScenarios
INVARIANTS
  TypesOK
  StoppedIsQuiet
  DatesFollowTheRule
  RemindersAreCurrent
PROPERTIES
  UndoIsExact
  SeriesIsFilled
  RequestsAreServed
CHECK_DEADLOCK FALSE
