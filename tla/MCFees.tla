-------------------------------- MODULE MCFees --------------------------------
EXTENDS FeeProperties

structure(bps, mediatorBps, minimum, maximum) ==
  [platformFeeBps |-> bps, mediatorFeeBps |-> mediatorBps, platformFixedFee |-> 0,
   minimumPlatformFee |-> minimum, maximumPlatformFee |-> maximum]

\* The default structure scaled down, one with a mediator, one without a
\* platform fee, and one whose basis points the ledger does not accept.
MCStructures == {structure(100, 0, 5, 20), structure(250, 150, 0, 0),
                 structure(0, 50, 0, 0), structure(600, 0, 0, 0)}
\* A total of zero, one below the minimum fee, ties of the rounding, and
\* totals whose seller's share has a tolerance of nothing, 1, 2 and 5; the
\* last two are above MAX_EXACT, where numbers are even, or multiples of 4.
MCTotals == {0, 4, 40, 100, 150, 199, 250, 512, 1001, 1025}
MCSlips == -1 .. 1
=============================================================================
