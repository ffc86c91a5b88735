\* Two poll cycles that overlap; nothing fails and nothing is lost.
SPECIFICATION Spec
CONSTANTS
  m1 = m1
  m2 = m2
  m3 = m3
  a1 = a1
  a2 = a2
  Msg = {m1, m2}
  Agents = {a1, a2}
  Limit = 1
  MaxTime = 0
  MaxMishaps = 0
INVARIANTS
  NoDoubleSend
CHECK_DEADLOCK FALSE
