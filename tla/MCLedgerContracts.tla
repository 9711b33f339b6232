-------------------------- MODULE MCLedgerContracts --------------------------
(***************************************************************************)
(* Values for the constants of LedgerContracts in TLC's runs.              *)
(***************************************************************************)
EXTENDS LedgerContractsProperties, TLC

CONSTANTS c1, c2

MCTotalAmount == c1 :> 1 @@ c2 :> 2

MCSymmetry == Permutations(Refs) \cup Permutations(Banks)
=============================================================================
