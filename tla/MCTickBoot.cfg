CONSTANTS
  TICK_EVENTS = 2
  M = 5
  Freqs = {1, 3}
  CW_ADVANCE = 1
  Hyper = 1
SPECIFICATION BootSpec
INVARIANT BootHarmless
