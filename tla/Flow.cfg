\* Two concurrent orchestrator calls and a poll, with every fault, one
\* dispute and one restart, against the transactional store.
SPECIFICATION Spec
CONSTANTS
  h1 = h1
  h2 = h2
  p1 = p1
  p2 = p2
  Nobody = Nobody
  Handlers = {h1, h2}
  Pollers = {p1}
  Total = 2
  Deposit = 4
  MaxRetries = 1
  StoredStatuses = {"INITIATED", "ESCROW_LOCKED", "BANK_PENDING", "BANK_SUCCESS",
    "BANK_FAILED", "BLOCKCHAIN_PENDING", "BLOCKCHAIN_FAILED", "COMPLETED",
    "CANCELLED", "MANUAL_REVIEW", "BLOCKED_BY_STATE_CHANGE", "FROZEN_BY_DISPUTE"}
  ConfirmationApi = TRUE
  ContractIds = {"bytes32"}
  FeeBearer = "BUYER"
  LedgerVersion = "V3"
  LogsDecode = TRUE
  Faults = {"db_error", "bank_reject", "bank_error", "chain_error",
    "callback_lost", "callback_repeated"}
  MaxDisputes = 1
  MaxCrashes = 1
SYMMETRY MCSymmetry
INVARIANTS
  BankBeforeChain
  UnbookedPaymentBacked
  IInv
PROPERTIES
  SafetyStatusSticky
  SettleUnderLock
  KeepsPromise
CHECK_DEADLOCK FALSE
