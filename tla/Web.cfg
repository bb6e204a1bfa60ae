\* The app and its server: requests, cache, router, screens, lists, weeks, dates.
SPECIFICATION Spec
CONSTANTS
  WeekScenarios <- MCWeekScenarios
  QueryScenarios <- MCQueryScenarios
  ScreenScenarios <- MCScreenScenarios
  RequestScenarios <- MCRequestScenarios
  ListScenarios <- MCListScenarios
  ScheduleScenarios <- MCScheduleScenarios
  RouterScenarios <- MCRouterScenarios
  IpLimit = 2
  UserLimit = 2
  Window = 3
  MaxKeys = 2
  MaxAge = 4
  MaxTime = 4
  PageSizes <- MCPageSizes
  ListPages <- MCPages
  HorizonDays = 9
  LastMonth = 35
  MaxEntries = 4
INVARIANTS
  TypeOK
  ScreenIsHonest
  RefusalsAreFair
  DatesKeepTheRule
  RouterIsSound
PROPERTIES
  TapsMeanWhatTheyShow
CHECK_DEADLOCK FALSE
