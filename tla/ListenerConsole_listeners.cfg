CONSTANTS
  Keys = {l1}
  StockKey = l1
  NoIdent = NoIdent
  MaxClicks = 4
  MaxOpen = 1
  MaxLeaves = 1
  MaxFaults = 1
  MaxSecond = 1
  MaxUuid = 1
SPECIFICATION Spec
INVARIANTS
  TypeOK
  SettledTab
  NoOrphanSecret
  LastClickWins
  ShownSecretActive
CHECK_DEADLOCK FALSE
