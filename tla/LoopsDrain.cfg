\* Under fair scheduling reminders, digests, packages and promises come to an end.
SPECIFICATION Spec
CONSTANTS
  h1 = h1
  t1 = t1
  t2 = t2
  t3 = t3
  t4 = t4
  d1 = d1
  d2 = d2
  g1 = g1
  g2 = g2
  g3 = g3
  w = w
  Updates = Updates
  Retried = Retried
  None = None
  Original = Original
  System = System
PROPERTIES NothingWaitsForever
CHECK_DEADLOCK FALSE
