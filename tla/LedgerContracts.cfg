\* Two contracts, two banks and four transaction references over two days.
SPECIFICATION Spec
CONSTANTS
  c1 = c1
  c2 = c2
  Contracts = {c1, c2}
  Banks = {b1, b2}
  Refs = {r1, r2, r3, r4}
  ResolutionTypes = {"PAY_SELLER", "REFUND_BUYER"}
  totalAmount <- MCTotalAmount
  resolutionDelay = 1
  MaxDelay = 2
  MaxTime = 2
  NoBank = NoBank
SYMMETRY MCSymmetry
INVARIANTS
  DisputeMatchesStatus
  SomeBankAvailable
  BankCoversContracts
  OneReferencePerTransition
PROPERTIES
  ResolutionTakesItsTime
  KeepsToMatrix
CHECK_DEADLOCK FALSE
