\* One notification delivered again: a second account at the bank.
SPECIFICATION Spec
CONSTANTS
  Handlers = {h1, h2}
  MaxCalls = 3
  MaxRuns = 0
  Total = 1000000
  Structures <- MCStructures
  References = {r1}
  Amounts = {1000000}
  SchemaModes = {TRUE}
  None = None
INVARIANTS
  OneEscrowPerPayment
CHECK_DEADLOCK FALSE
