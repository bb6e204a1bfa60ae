\* An edit of a recurring task deletes its excluded dates, and they come back.
SPECIFICATION Spec
CONSTANTS
  WeekScenarios <- MCWeekScenarios
  QueryScenarios <- MCQueryScenarios
  ScreenScenarios <- MCScreenScenarios
  RequestScenarios <- MCRequestScenarios
  ListScenarios <- MCListScenarios
  ScheduleScenarios <- MCScheduleScenarios
  RouterScenarios <- MCRouterScenarios
  IpLimit = 2
  UserLimit = 2
  Window = 3
  MaxKeys = 2
  MaxAge = 4
  MaxTime = 4
  PageSizes <- MCPageSizes
  ListPages <- MCPages
  HorizonDays = 9
  LastMonth = 35
  MaxEntries = 4
INVARIANTS
  SkippedStaySkipped
CHECK_DEADLOCK FALSE
