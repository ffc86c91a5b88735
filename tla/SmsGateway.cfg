\* One gateway, more replies than a poll returns: duplicates, stranded rows,
\* and progress.
SPECIFICATION FairSpec
CONSTANTS
  m1 = m1
  m2 = m2
  m3 = m3
  a1 = a1
  a2 = a2
  Msg = {m1, m2, m3}
  Agents = {a1}
  Limit = 2
  MaxTime = 1
  MaxMishaps = 2
INVARIANTS
  CopiesNeedFailedClaims
  StrandedByMishaps
PROPERTIES
  EveryReplySettled
CHECK_DEADLOCK FALSE
