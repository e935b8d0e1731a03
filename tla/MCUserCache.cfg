\* A read of a row that two overlapping requests change; keys may be absent
\* at first, any Redis command may fail and keys be dropped.
CONSTANTS
  Readers = {r1}
  Writers = {w1, w2}
  Null = Null
  MaxVersion = 2
  MaxClock = 2
  MaxGen = 3
SPECIFICATION FairSpec
PROPERTY StalenessEnds
CHECK_DEADLOCK FALSE
