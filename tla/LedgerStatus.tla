---------------------------- MODULE LedgerStatus ----------------------------
(***************************************************************************)
(* The contract status matrix that the AmantraLedger contracts fill in     *)
(* _initializeTransitionMatrix.  V3 adds VERIFIED -> DISPUTED to the matrix *)
(* of V2, nothing else; the matrix of V5 is that of V3.                    *)
(***************************************************************************)
EXTENDS Integers

LedgerStatuses ==
  {"CREATED", "FUNDED", "VERIFIED", "SETTLED", "DISPUTED", "CANCELLED"}

AllowedTransitionsV2 ==
  {<<"CREATED", "FUNDED">>, <<"CREATED", "CANCELLED">>,
   <<"FUNDED", "VERIFIED">>, <<"FUNDED", "DISPUTED">>,
   <<"VERIFIED", "SETTLED">>,
   <<"DISPUTED", "VERIFIED">>, <<"DISPUTED", "CANCELLED">>}

AllowedTransitionsV3 ==
  AllowedTransitionsV2 \cup {<<"VERIFIED", "DISPUTED">>}

ledgerAllows(version, from, to) ==
  <<from, to>> \in (IF version = "V2" THEN AllowedTransitionsV2
                                      ELSE AllowedTransitionsV3)
=============================================================================
