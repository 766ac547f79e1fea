CONSTANTS
  k1 = k1
  k2 = k2
  k3 = k3
  Keys = {k1, k2, k3}
  StockKey <- StoredKeys
  None = None
  NoKey = NoKey
  Blank = Blank
  Unread = Unread
  NoCall = NoCall
  FirstClick = 2
  MaxClicks = 6
  MaxFaults = 1
SPECIFICATION Spec
INVARIANTS
  TypeOK
  OwnValue
  CreatedOnce
  EditedExists
CHECK_DEADLOCK FALSE
