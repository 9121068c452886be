CONSTANTS
  TextSize = 2
  DidahSize = 3
  IdleWrap = 3
  BitsMod = 8
  Chars <- MCChars
  Space = " "
  Blanks = {" ", "bs"}
  Encode <- MCEncode
  Decode <- MCDecode
SPECIFICATION FairSpec
INVARIANT TypeOK
INVARIANT TimedByDitLen
INVARIANT KeyDownInMarks
PROPERTY ImplementsKeyLine
PROPERTY Drains
PROPERTY KeyReleased
