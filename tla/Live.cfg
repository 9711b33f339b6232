\* Fair scheduling of a call and two overlapping polls, with two disputes.
SPECIFICATION FairSpec
CONSTANTS
  h1 = h1
  h2 = h2
  p1 = p1
  p2 = p2
  Nobody = Nobody
  Handlers = {h1}
  Pollers = {p1, p2}
  Total = 2
  Deposit = 4
  MaxRetries = 0
  StoredStatuses = {"INITIATED", "ESCROW_LOCKED", "BANK_PENDING", "BANK_SUCCESS",
    "BANK_FAILED", "BLOCKCHAIN_PENDING", "BLOCKCHAIN_FAILED", "COMPLETED",
    "CANCELLED", "MANUAL_REVIEW", "BLOCKED_BY_STATE_CHANGE", "FROZEN_BY_DISPUTE"}
  ConfirmationApi = TRUE
  ContractIds = {"bytes32", "plain"}
  FeeBearer = "BUYER"
  LedgerVersion = "V3"
  LogsDecode = TRUE
  Faults = {}
  MaxDisputes = 2
  MaxCrashes = 0
PROPERTIES
  HandlersFinish
  DisputesPolled
  DisputeHaltsPayment
CHECK_DEADLOCK FALSE
