\* Three calls of the service, two decisions, two disputes, four days.
SPECIFICATION Spec
CONSTANTS
  Calls = {k1, k2, k3}
  Hashes = {d1, d2}
  ResolutionTypes = {"PAY_SELLER", "REFUND_BUYER"}
  Delays = {1, 2}
  MaxTime = 3
  MaxDisputes = 2
  HashesPrefixed = FALSE
  NoHash = NoHash
SYMMETRY MCSymmetry
INVARIANTS
  DecisionBinds
  AnsweredTimeHolds
CHECK_DEADLOCK FALSE
