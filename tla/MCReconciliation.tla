-------------------------- MODULE MCReconciliation --------------------------
(***************************************************************************)
(* Values for the constants of SettlementReconciliation in TLC's runs.     *)
(***************************************************************************)
EXTENDS ReconciliationProperties
=============================================================================
