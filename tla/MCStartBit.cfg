CONSTANTS
  TextSize = 1
  DidahSize = 16
  IdleWrap = 256
  BitsMod = 65536
  Chars <- MCChars
  Space = " "
  Blanks = {" ", "bs"}
  Encode <- MCEncode
  Decode <- MCDecode
SPECIFICATION HeldDit
INVARIANT StartBitKept
