CONSTANTS
  Modes = {"straight", "ultimatic", "bug", "paddle", "iambic_a", "iambic_b"}
  LeftKeys = {0}
  DitLens = {1}
  Changes = {"space"}
  Bounces = TRUE
  IdleSleep = 7
  MaxTicks = 7
SPECIFICATION FairSpec
INVARIANT TracksPaddles
INVARIANT SqueezeOrder
INVARIANT RepeatsPerCycle
INVARIANT ClosedBeforeSleep
PROPERTY SqueezeCompletes
PROPERTY HeldRepeats
