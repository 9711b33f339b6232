---------------------------- MODULE MCSettlement ----------------------------
(***************************************************************************)
(* Values for the constants of SettlementFlow in TLC's runs.               *)
(***************************************************************************)
EXTENDS SettlementProperties, TLC

CONSTANTS h1, h2, p1, p2

MCSymmetry == Permutations(Handlers) \cup Permutations(Pollers)
=============================================================================
