SPECIFICATION FairSpec
CONSTANTS
  Conns = {c1, c2}
  MAX_BUCKETS = 2
  NR_SLOT_PER_BKT = 2
  SLOT_WIDTH_NS = 2
  TW_BATCH_SIZE = 2
  Probes = 2
  Deltas = {1, 3}
  LinkDelta = 1
  MaxPkts = 2
  MaxTime = 8
 
PROPERTIES InOrder OnTime Drains
CHECK_DEADLOCK FALSE
