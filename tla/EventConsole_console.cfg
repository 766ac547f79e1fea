CONSTANTS
  a = a
  b = b
  e1 = e1
  e3 = e3
  urgent = urgent
  Events = {e1, e2, e3}
  Types = {a, b}
  TypeOf <- Owners
  Stock <- FirstRows
  Created <- Seconds
  Limit = 2
  FirstType = a
  Tags = {urgent}
  NoTag = NoTag
  NoEvent = NoEvent
  Unread = Unread
  NoCall = NoCall
  MaxClicks = 4
  MaxFaults = 1
SPECIFICATION FairSpec
INVARIANTS
  TypeOK
  
  SettledMessages
PROPERTIES
  AnnouncedReran
  SpinnersStop
CHECK_DEADLOCK FALSE
