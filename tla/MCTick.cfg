CONSTANTS
  TICK_EVENTS = 3
  M = 4
  Freqs = {1, 3}
SPECIFICATION FairSpec
INVARIANT RecordsAgree
INVARIANT OnTime
PROPERTY ImplementsTimers
PROPERTY KeepsFiring
