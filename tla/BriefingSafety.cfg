\* Crashes, failing calls, 429s; settings changed, account disabled, restored.
SPECIFICATION Spec
CONSTANTS
  h1 = h1
  h2 = h2
  Workers <- TwoHandlers
  Day = 4
  Slots <- OneHour
  Zones <- TwoZones
  LateGrace = 0
  MaxAttempts = 2
  RetryDelay = 1
  RetryAfter <- OneMoment
  Quiet <- NoQuiet
  QuietSearch = 4
  Horizon = 2
  Scenarios <- Disturbances
SYMMETRY Symmetry
INVARIANTS TypeOK ContactsAreCounted LateSlotsStayUnsent
