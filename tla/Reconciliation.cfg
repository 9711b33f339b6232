\* The job beside two handlers, with the bank's reference and without: lost
\* webhooks, bank and ledger errors, one restart.
SPECIFICATION ReconcileSpec
CONSTANTS
  Nobody = Nobody
  Handlers = {h1, h2}
  Pollers = {}
  Total = 2
  Deposit = 4
  MaxRetries = 1
  StoredStatuses = {"INITIATED", "ESCROW_LOCKED", "BANK_PENDING", "BANK_SUCCESS",
    "BANK_FAILED", "BLOCKCHAIN_PENDING", "BLOCKCHAIN_FAILED", "COMPLETED",
    "CANCELLED", "MANUAL_REVIEW", "BLOCKED_BY_STATE_CHANGE", "FROZEN_BY_DISPUTE"}
  ConfirmationApi = TRUE
  ContractIds = {"bytes32"}
  FeeBearer = "BUYER"
  LedgerVersion = "V3"
  LogsDecode = TRUE
  Faults = {"bank_error", "callback_lost", "chain_error"}
  MaxDisputes = 0
  MaxCrashes = 1
  ReferenceKept = {TRUE, FALSE}
  MaxRuns = 2
INVARIANTS
  CompletedIsPaidAndBooked
  NoMissingRecordReported
CHECK_DEADLOCK FALSE
