CONSTANTS
  PresetCount = 2
  FieldCount = 3
  Unchecked = {2}
  MemoryCount = 2
  Freqs = {0, 2}
  Minutes = 4
  CountMod = 4
SPECIFICATION Spec
CONSTRAINT Few
INVARIANT TypeOK
INVARIANT StoredInUse
INVARIANT SurvivesPowerCycle
INVARIANT WholePresets
INVARIANT DueInPeriod
INVARIANT RepeatsTick
