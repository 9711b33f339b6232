---------------------- MODULE LedgerContractsProperties ----------------------
(***************************************************************************)
(* What AmantraLedgerV5 promises about contracts, disputes and banks.      *)
(***************************************************************************)
EXTENDS LedgerContracts, Totals

ContractRecords ==
  [status : LedgerStatuses \cup {"NONE"}, bankId : Banks \cup {NoBank},
   version : Nat]

DisputeRecords ==
  [active : BOOLEAN, raisedAt : Nat, resolutionQueued : BOOLEAN,
   queuedResolutionType : ResolutionTypes \cup {"CONTINUE_SETTLEMENT"},
   resolutionExecutableAt : Nat, appealed : BOOLEAN]

(* Every variable has its type; a contract that exists has a registered    *)
(* bank, so that no balance is booked on the zero bank id.                 *)
TypeOK ==
  /\ contracts \in [Contracts -> ContractRecords]
  /\ disputes \in [Contracts -> DisputeRecords]
  /\ processed \subseteq Refs
  /\ isFrozen \in [Banks -> BOOLEAN]
  /\ totalBalance \in [Banks -> Nat]
  /\ registeredBanks \in Seq(Banks)
  /\ primaryBankId \in Banks \cup {NoBank}
  /\ paused \in BOOLEAN
  /\ now \in Nat
  /\ \A c \in Contracts : contractExists(c) => contracts[c].bankId \in Banks

(* A dispute is active exactly while its contract is DISPUTED.             *)
(* executeResolution relies on it: it moves the contract from DISPUTED     *)
(* without looking at the status.                                          *)
DisputeMatchesStatus ==
  \A c \in Contracts :
    disputes[c].active <=> contracts[c].status = "DISPUTED"

\* When a resolution of dispute d may take effect.
timelockOf(d) ==
  d.raisedAt + (IF d.appealed THEN MaxDelay ELSE resolutionDelay)

(* The resolution queued for an open dispute was queued in that dispute,   *)
(* not in one the operator ended before: it waits out a delay that began   *)
(* after the dispute was raised, the longer one after an appeal.           *)
ResolutionTimelock ==
  \A c \in Contracts :
    disputes[c].active /\ disputes[c].resolutionQueued =>
      disputes[c].resolutionExecutableAt >= timelockOf(disputes[c])

(* Once a bank is registered a new contract always finds one: freezing     *)
(* leaves an unfrozen bank, whatever the order of freezes and unfreezes.   *)
SomeBankAvailable ==
  registeredBanks # << >> => \E b \in Banks : available(b)

Held(b) ==
  {c \in Contracts : /\ contracts[c].bankId = b
                     /\ contracts[c].status \in {"FUNDED", "VERIFIED", "DISPUTED"}}

(* A bank's balance covers the contracts it holds the money of, so that    *)
(* the checked subtraction in markSettled never stops a settlement.        *)
BankCoversContracts ==
  \A b \in Banks :
    totalBalance[b] >= SumOver(totalAmount, Held(b))

\* The changes of status a contract has seen: it is created with version 1.
transitions == [c \in Contracts |-> contracts[c].version - 1]

(* Every change of status has consumed a transaction reference of its own, *)
(* so that a transaction sent again after a lost receipt changes nothing.  *)
OneReferencePerTransition ==
  Cardinality(processed) =
    SumOver(transitions, {c \in Contracts : contractExists(c)})

terminalStays ==
  \A c \in Contracts :
    contracts[c].status \in {"SETTLED", "CANCELLED"}
      => contracts'[c] = contracts[c]

(* A settled or cancelled contract stays as it is: no verification,        *)
(* dispute or late resolution brings it back (proved only; what it says of *)
(* the status is part of KeepsToMatrix, which a run checks).               *)
TerminalIsFinal == [][terminalStays]_vars

executesResolution(c) ==
  /\ contracts[c].status = "DISPUTED"
  /\ disputes[c].resolutionQueued
  /\ ~disputes'[c].resolutionQueued

waitsOutItsDelay ==
  \A c \in Contracts :
    executesResolution(c) => now >= timelockOf(disputes[c])

(* The council's resolution takes effect no earlier than its delay after   *)
(* the dispute was raised, the longer delay when a party has appealed.     *)
ResolutionTakesItsTime == [][waitsOutItsDelay]_vars
(* The ledger as SettlementFlow takes it to be, a V3 as to its matrix.     *)
Life ==
  INSTANCE ContractLife
    WITH life <- [c \in Contracts |-> contracts[c].status], used <- processed,
         Version <- "V3"

(* Whatever moves a contract, the operator, the council or a resolution    *)
(* that was queued before, takes it one step of the matrix from where it   *)
(* is and spends a new reference on it (executeResolution names DISPUTED   *)
(* as the state it starts from without looking).                           *)
KeepsToMatrix == Life!Spec
-----------------------------------------------------------------------------
(* The inductive invariant.  The time lock needs two more facts: a dispute *)
(* was not raised in the future, and only a queued resolution is appealed. *)

openDispute ==
  \A c \in Contracts :
    disputes[c].active =>
      /\ disputes[c].raisedAt <= now
      /\ disputes[c].appealed => disputes[c].resolutionQueued

IInv ==
  /\ TypeOK
  /\ DisputeMatchesStatus
  /\ openDispute
  /\ ResolutionTimelock
  /\ SomeBankAvailable

(* The books, inductive beside IInv.  A bank that is added starts with a   *)
(* balance of zero, so no contract may be held by one that is not added.   *)
Books ==
  /\ BankCoversContracts
  /\ OneReferencePerTransition
  /\ IsFiniteSet(processed)
  /\ \A c \in Contracts : contractExists(c) =>
       /\ contracts[c].version >= 1
       /\ added(contracts[c].bankId)
=============================================================================
