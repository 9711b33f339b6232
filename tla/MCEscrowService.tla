--------------------------- MODULE MCEscrowService ---------------------------
EXTENDS EscrowServiceProperties, TLC

MCSymmetry == Permutations(Calls)
\* As shipped; agreed but for the freeze id; agreed on every field.
MCAgreements == {{}, {"bankAccountId"}, {"bankAccountId", "freezeId", "balance"}}
=============================================================================
