---------------------------- MODULE MCArbitration ----------------------------
(***************************************************************************)
(* Symmetry for TLC's run of the arbitration council.                      *)
(***************************************************************************)
EXTENDS ArbitrationProperties, TLC

MCSymmetry == Permutations(Calls) \cup Permutations(Hashes)
=============================================================================
