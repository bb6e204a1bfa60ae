\* A 429 longer than the grace: the row is dropped when retry_after has passed.
SPECIFICATION Spec
CONSTANTS
  h1 = h1
  h2 = h2
  Rows <- TwoRows
  Workers <- TwoHandlers
  Interval = 2
  SlotTolerance = 0
  MaxBundleWait = 2
  WaitStep = 1
  MaxAttempts = 2
  RetryDelay = 1
  RetryAfter <- TwoMinutes
  SweepAhead = 1
  Quiet <- NoQuiet
  QuietSearch = 0
  Grace = 1
  MaxDeferral = 10
  Horizon = 3
  Scenarios <- RateLimited
SYMMETRY Symmetry
PROPERTIES RateLimitedIsKept
