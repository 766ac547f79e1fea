CONSTANTS
  a = a
  b = b
  Types = {a, b}
  Stock <- FirstRows
  ListenerLists <- Lists
  ManualKeys = {k1}
  PackKeys = {p1, p2}
  PresetKey = preset
  NoType = NoType
  NoSkill = NoSkill
  Unread = Unread
  NoCall = NoCall
  MaxClicks = 2
  MaxLeaves = 1
  MaxFaults = 1
SPECIFICATION Spec
INVARIANTS
  TypeOK
  CountsMatchLists
  SettledScreen
  PackInstalledOnce
PROPERTIES
  OnlyEmptyFirstIsLeft
CHECK_DEADLOCK FALSE
