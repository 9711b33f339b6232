-------------------------- MODULE SettlementStatus --------------------------
(***************************************************************************)
(* The settlement status machine of escrow/domain/settlement-status.enum.ts *)
(* and the status rules that the Settlement entity adds to it.  Everything *)
(* here is pure: SettlementFlow applies these operators to the stored row. *)
(***************************************************************************)
EXTENDS Integers

(***************************************************************************)
(* "ABSENT" is no status of the code: it says that no settlement row has   *)
(* been inserted for the contract yet.                                     *)
(***************************************************************************)
Statuses == {"INITIATED", "ESCROW_LOCKED", "BANK_PENDING", "BANK_SUCCESS",
             "BANK_FAILED", "BLOCKCHAIN_PENDING", "BLOCKCHAIN_FAILED",
             "COMPLETED", "CANCELLED", "MANUAL_REVIEW",
             "BLOCKED_BY_STATE_CHANGE", "FROZEN_BY_DISPUTE"}

Absent == "ABSENT"

SETTLEMENT_TRANSITIONS ==
  [s \in Statuses |->
    CASE s = "INITIATED" ->
           {"ESCROW_LOCKED", "CANCELLED", "FROZEN_BY_DISPUTE"}
      [] s = "ESCROW_LOCKED" ->
           {"BANK_PENDING", "CANCELLED", "FROZEN_BY_DISPUTE"}
      [] s = "BANK_PENDING" ->
           {"BANK_SUCCESS", "BANK_FAILED", "FROZEN_BY_DISPUTE"}
      [] s = "BANK_SUCCESS" ->
           {"BLOCKCHAIN_PENDING", "BLOCKED_BY_STATE_CHANGE",
            "FROZEN_BY_DISPUTE"}
      [] s = "BANK_FAILED" ->
           {"ESCROW_LOCKED", "MANUAL_REVIEW", "FROZEN_BY_DISPUTE"}
      [] s = "BLOCKCHAIN_PENDING" ->
           {"COMPLETED", "BLOCKCHAIN_FAILED", "FROZEN_BY_DISPUTE"}
      [] s = "BLOCKCHAIN_FAILED" ->
           {"BLOCKCHAIN_PENDING", "MANUAL_REVIEW",
            "BLOCKED_BY_STATE_CHANGE", "FROZEN_BY_DISPUTE"}
      [] s = "MANUAL_REVIEW" ->
           {"ESCROW_LOCKED", "CANCELLED", "FROZEN_BY_DISPUTE"}
      [] s = "BLOCKED_BY_STATE_CHANGE" -> {"MANUAL_REVIEW", "CANCELLED"}
      [] s = "FROZEN_BY_DISPUTE" ->
           {"ESCROW_LOCKED", "CANCELLED", "MANUAL_REVIEW"}
      [] OTHER -> {}]

isValidTransition(from, to) ==
  from \in Statuses /\ to \in SETTLEMENT_TRANSITIONS[from]

TerminalStatuses == {"COMPLETED", "CANCELLED"}

isTerminalStatus(s) == s \in TerminalStatuses

isSafetyBlockedStatus(s) ==
  s \in {"BLOCKED_BY_STATE_CHANGE", "FROZEN_BY_DISPUTE"}

canBeFrozenByDispute(s) ==
  s \in Statuses /\ ~isTerminalStatus(s) /\ s # "FROZEN_BY_DISPUTE"

(***************************************************************************)
(* The retry rule of the entity.  maxRetries stands for the literal 3.     *)
(***************************************************************************)
isFailed(s) == s \in {"BANK_FAILED", "BLOCKCHAIN_FAILED"}

canRetry(s, retries, maxRetries) ==
  isFailed(s) /\ retries < maxRetries /\ ~isSafetyBlockedStatus(s)
=============================================================================
