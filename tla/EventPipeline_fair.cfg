CONSTANTS
  r1 = r1
  r2 = r2
  e1 = e1
  e2 = e2
  s1 = s1
  t1 = t1
  Requests = {r1, r2}
  EventIds = {e1, e2}
  Sources = {s1}
  Targets = {t1}
  HttpTargets = {t1}
  NoSource = NoSource
  Nobody = Nobody
  NoEvent = NoEvent
  MaxFaults = 1
SPECIFICATION FairSpec
PROPERTIES
  EveryRequestEnds
  RowsSettle
