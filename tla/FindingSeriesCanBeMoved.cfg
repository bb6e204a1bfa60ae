\* The reschedule sheet of a recurring task: a move of the whole series is refused.
SPECIFICATION Spec
CONSTANTS
  WeekScenarios <- MCWeekScenarios
  QueryScenarios <- MCQueryScenarios
  ScreenScenarios <- MCScreenScenarios
  RequestScenarios <- MCRequestScenarios
  ListScenarios <- MCListScenarios
  ScheduleScenarios <- MCScheduleScenarios
  RouterScenarios <- MCRouterScenarios
  IpLimit = 2
  UserLimit = 2
  Window = 3
  MaxKeys = 2
  MaxAge = 4
  MaxTime = 4
  PageSizes <- MCPageSizes
  ListPages <- MCPages
  HorizonDays = 9
  LastMonth = 35
  MaxEntries = 4
INVARIANTS
  SeriesCanBeMoved
CHECK_DEADLOCK FALSE
