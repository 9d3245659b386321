CONSTANTS
  ByHand <- MCByHand
  GlobalSets = {0, 9}
  CsimPoints = {27}
  MaxTimeouts = 1
SPECIFICATION Spec
INVARIANTS SizesMeantForValidate PointsDeserved
