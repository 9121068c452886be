CONSTANTS
  Size = 3
  Values = {0, 1, 2}
SPECIFICATION Spec
INVARIANT IndexesAgree
PROPERTY ImplementsLossyQueue
