\* README: an ambiguous card is never resent automatically.
SPECIFICATION Spec
CONSTANTS
  h1 = h1
  h2 = h2
  Workers <- OneHandler
  Day = 4
  Slots <- OneHour
  Zones <- OneZone
  LateGrace = 1
  MaxAttempts = 2
  RetryDelay = 1
  RetryAfter <- OneMoment
  Quiet <- NoQuiet
  QuietSearch = 4
  Horizon = 3
  Scenarios <- AnswerLost
SYMMETRY Symmetry
PROPERTIES AmbiguousIsFinal
