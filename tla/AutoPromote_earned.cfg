CONSTANTS
  w1 = w1
  w2 = w2
  Workers = {w1, w2}
  ValidatedToShadow = 2
  ShadowToActive = 2
  MinSuccessPct = 90
  MaxCalls = 5
  MaxFaults = 1
SPECIFICATION Spec
SYMMETRY Symmetry
CHECK_DEADLOCK FALSE
INVARIANTS
  TypeOK
  PromotionEarned
  PromotedIsMatched
PROPERTY
  ActivationEarned
