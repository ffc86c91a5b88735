\* Two poll cycles that overlap, with failed claims, lost answers and reports.
SPECIFICATION Spec
CONSTANTS
  m1 = m1
  m2 = m2
  m3 = m3
  a1 = a1
  a2 = a2
  Msg = {m1, m2}
  Agents = {a1, a2}
  Limit = 2
  MaxTime = 1
  MaxMishaps = 2
SYMMETRY Symmetric
INVARIANTS
  TypeOK
  SentMeansDelivered
PROPERTIES
  SettledStays
CHECK_DEADLOCK FALSE
