CONSTANTS
  Tones = {0, 7, 8, 12, 13, 60, 255}
SPECIFICATION Spec
INVARIANT SilentUnlessKeyed
INVARIANT OffAir
INVARIANT ToneTrue
PROPERTY QuietIsQuiet
