\* The amounts of one contract from the akad to the ledger's verdict.
SPECIFICATION Spec
CONSTANTS
  Totals <- MCTotals
  Structures <- MCStructures
  NetworkFees = {0, 1, 5, 6, 39, 99}
  Slips <- MCSlips
  MAX_FEE_BPS = 500
  MAX_EXACT = 512
  None = None
INVARIANTS
  LegsPayEverything
  LedgerTermsSplit
  TrueReportSettles
CHECK_DEADLOCK FALSE
