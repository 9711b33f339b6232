---------------------- MODULE ReconciliationProperties ----------------------
(***************************************************************************)
(* What the reconciliation of settlements must not break, and what it must *)
(* not report.                                                             *)
(***************************************************************************)
EXTENDS SettlementReconciliation, SettlementProperties

(* The critical discrepancy, a settlement COMPLETED in the database but    *)
(* not settled on the ledger, is never reported: reading the row before    *)
(* the ledger, while handlers complete settlements, raises no false alarm. *)
NoMissingRecordReported ==
  \A j \in Jobs : "MISSING_BLOCKCHAIN_RECORD" \notin found[j]

(* What makes NoMissingRecordReported inductive beside the invariant of    *)
(* the flow: a job that has read COMPLETED will find the ledger SETTLED,   *)
(* for completing comes after settling and settling is final.              *)
JobTypeOK ==
  /\ jpc \in [Jobs -> {"idle", "bank", "chain", "repair", "sync"}]
  /\ seen \in [Jobs -> Statuses \cup {Absent}]
  /\ found \in [Jobs -> SUBSET Discrepancies]
  /\ todo \in [Jobs -> SUBSET autoRepairEligible]
  /\ failures \in [Jobs -> Nat]
  /\ report \in {"none", "COMPLETED", "PARTIAL", "FAILED"}
  /\ runs \in 0..MaxRuns

SeenIsSettled == \A j \in Jobs : seen[j] = "COMPLETED" => chain = "SETTLED"

ReconcileIInv ==
  IInv /\ JobTypeOK /\ SeenIsSettled /\ NoMissingRecordReported
=============================================================================
