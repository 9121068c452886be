CONSTANTS
  Chars <- MCChars
  Coded <- MCCoded
  Echo <- MCEcho
  Keyed <- MCKeyed
  MsgLen = 1
  TextSize = 7
  ByteMod = 8
  Repeated = {5}
  Backlog = 0
  Insistent = FALSE
  Stray <- MCStray
SPECIFICATION FairSpec
VIEW Seen
INVARIANT TypeOK
INVARIANT StaysInBounds
INVARIANT LineOwned
 
PROPERTY AlwaysLeft
