CONSTANTS
  NoToken = NoToken
  MaxClicks = 4
  MaxFaults = 2
SPECIFICATION FairSpec
INVARIANTS
  TypeOK
  SignedAsAsked
  RightMode
  SettledTokens
PROPERTIES
  SpinnersStop
CHECK_DEADLOCK FALSE
