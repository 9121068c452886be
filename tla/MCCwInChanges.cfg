CONSTANTS
  Modes = {"straight", "ultimatic", "bug", "paddle", "iambic_a", "iambic_b"}
  LeftKeys = {0, 1}
  DitLens = {1, 2}
  Changes = {"mode", "left", "speed"}
  Bounces = TRUE
  IdleSleep = 5
  MaxTicks = 13
SPECIFICATION Spec
INVARIANT NoPhantomKey
INVARIANT NoStuckPort
VIEW Keying
