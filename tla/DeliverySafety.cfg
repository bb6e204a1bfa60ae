\* Edits, failures and escalation: whatever handlers, the sweep and boot do.
SPECIFICATION Spec
CONSTANTS
  h1 = h1
  h2 = h2
  Rows <- ThreeRows
  Workers <- TwoHandlers
  Interval = 1
  SlotTolerance = 0
  MaxBundleWait = 2
  WaitStep = 1
  MaxAttempts = 2
  RetryDelay = 1
  RetryAfter <- OneMinute
  SweepAhead = 1
  Quiet <- NoQuiet
  QuietSearch = 0
  Grace = 1
  MaxDeferral = 10
  Horizon = 2
  Scenarios <- Disturbances
SYMMETRY Symmetry
INVARIANTS
  TypeOK ContactsAreCounted ProcessingIsOwned EscalationKeepsPace
PROPERTIES ClaimsAreCurrent FinalIsFinal
