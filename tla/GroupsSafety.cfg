\* Packages confirmed, applied, undone and repaired, whatever they meet.
SPECIFICATION Spec
CONSTANTS
  t1 = t1
  t2 = t2
  t3 = t3
  t4 = t4
  d1 = d1
  d2 = d2
  g1 = g1
  g2 = g2
  g3 = g3
  g4 = g4
  w = w
  Chat = Chat
  Retry = Retry
  None = None
  Original = Original
  System = System
  Tasks <- AllTasks
  Dates <- AllDates
  TaskOf <- Owner
  OneTime <- OneTimeDates
  Rank <- Ids
  Groups <- AllGroups
  Steps <- Packages
  Gated <- Cards
  Replaces <- NoReplacement
  Web <- OneForm
  ConfirmTtl = 1
  UndoTtl = 1
  Horizon = 2
  Scenarios <- Disturbances
INVARIANTS TypeOK OutcomeIsHonest AppliesDoNotDeadlock JournalOutlivesWindow
PROPERTIES UndoLosesNothing NothingUnseen
CHECK_DEADLOCK FALSE
