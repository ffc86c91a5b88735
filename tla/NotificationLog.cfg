\* Two broadcasts and a send to one user, with up to two faults.
SPECIFICATION FairSpec
CONSTANTS
  b1 = b1
  b2 = b2
  u1 = u1
  Sends = {b1, b2, u1}
  Broadcasts = {b1, b2}
  MaxFaults = 2
INVARIANTS
  TypeOK
  OneBroadcast
  SentMeansPushed
  FinalStatusTrue
PROPERTIES
  NoRowStuck
CHECK_DEADLOCK FALSE
