------------------------------- MODULE MCLegacy -------------------------------
EXTENDS LegacyProperties, TLC

structure(bps, mediatorBps) ==
  [platformFeeBps |-> bps, mediatorFeeBps |-> mediatorBps, platformFixedFee |-> 0,
   minimumPlatformFee |-> 5000, maximumPlatformFee |-> 500000]

MCStructures == {structure(100, 0), structure(100, 200)}
Symmetry == Permutations(Handlers)
=============================================================================
