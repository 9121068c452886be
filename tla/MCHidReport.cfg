CONSTANTS
  Chars = {97, 61, 43, 39}
  KeyCode <- MCKeyCode
  Shift <- MCShift
  HidSize = 2
  MaxQueued = 4
SPECIFICATION FairSpec
INVARIANT AllTyped
INVARIANT NothingTwice
PROPERTY LetsGo
