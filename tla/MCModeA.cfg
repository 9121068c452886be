CONSTANTS
  Modes = {"iambic_a"}
  LeftKeys = {0}
  DitLens = {1}
  Changes = {}
  Bounces = FALSE
  IdleSleep = 7
  MaxTicks = 7
SPECIFICATION RestedSpec
PROPERTY OnlyModeBCompletes
