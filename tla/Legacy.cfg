\* Two calls at once, five in all, and one run of the job.
SPECIFICATION Spec
CONSTANTS
  Handlers = {h1, h2}
  MaxCalls = 5
  MaxRuns = 1
  Total = 1000000
  Structures <- MCStructures
  References = {r1}
  Amounts = {1000000, 1}
  SchemaModes = {TRUE, FALSE}
  None = None
SYMMETRY Symmetry
INVARIANTS
  SettledIsPaid
  FundedIsHeld
PROPERTIES
  QuietRunTells
CHECK_DEADLOCK FALSE
