-------------------------- MODULE MCLedgerGovernance --------------------------
(***************************************************************************)
(* Values for the constants of LedgerGovernance and GovernanceContinuity   *)
(* in TLC's runs.                                                          *)
(***************************************************************************)
EXTENDS ContinuityProperties

CONSTANTS oracle, hisbah, backupSafe

MCInitialHolder ==
  [r \in Roles |-> CASE r = "ORACLE" -> oracle
                     [] r = "HISBAH" -> hisbah
                     [] r = "BACKUP" -> backupSafe]
=============================================================================
