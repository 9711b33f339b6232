--------------------------- MODULE LedgerContracts ---------------------------
(***************************************************************************)
(* The contracts, disputes and bank escrows that AmantraLedgerV5 records.  *)
(* One action is one transaction: the ledger runs them one at a time and a *)
(* failed require undoes all of it, so a transaction that would revert is  *)
(* an action that is not enabled.  A transaction of the role that may send *)
(* it is always possible here; who holds a role is LedgerGovernance's.     *)
(* Fees, hashes, parties and events are left out: no function reads them   *)
(* but to compare one with an argument the sender can supply.              *)
(***************************************************************************)
EXTENDS Integers, Sequences, FiniteSets, LedgerStatus

CONSTANTS
  Contracts,        \* contract ids
  Banks,            \* bank ids
  Refs,             \* transaction references; bounds the transitions
  ResolutionTypes,  \* the types the arbitration council uses
  totalAmount,      \* the amount of each contract
  resolutionDelay,  \* RESOLUTION_MIN_DELAY, set by initialize
  MaxDelay,         \* RESOLUTION_MAX_DELAY
  MaxTime,          \* bound on block.timestamp
  NoBank            \* bytes32(0)

ASSUME ContractsAssumption == IsFiniteSet(Contracts)
ASSUME AmountAssumption == totalAmount \in [Contracts -> Nat \ {0}]
ASSUME DelayAssumption ==
  /\ resolutionDelay \in Nat
  /\ MaxDelay \in Nat
  /\ resolutionDelay <= MaxDelay
ASSUME BankAssumption == NoBank \notin Banks /\ IsFiniteSet(Banks)
ASSUME TimeAssumption == MaxTime \in Nat
ASSUME TypeAssumption ==
  ResolutionTypes \subseteq
    {"CONTINUE_SETTLEMENT", "REFUND_BUYER", "PAY_SELLER", "CUSTOM_SPLIT"}

VARIABLES
  contracts,        \* _contracts: status, bankId and version
  disputes,         \* _disputes
  processed,        \* _processedTransactions
  isFrozen,         \* bankEscrows[b].isFrozen
  totalBalance,     \* bankEscrows[b].totalBalance
  registeredBanks,  \* in order of registration
  primaryBankId,
  paused,
  now               \* block.timestamp, in units of RESOLUTION_MIN_DELAY

bankVars == <<isFrozen, totalBalance, registeredBanks, primaryBankId>>
vars == <<contracts, disputes, processed, bankVars, paused, now>>

NoContract == [status |-> "NONE", bankId |-> NoBank, version |-> 0]

newDispute(active, raisedAt) ==
  [active |-> active, raisedAt |-> raisedAt, resolutionQueued |-> FALSE,
   queuedResolutionType |-> "CONTINUE_SETTLEMENT",
   resolutionExecutableAt |-> 0, appealed |-> FALSE]

Init ==
  /\ contracts = [c \in Contracts |-> NoContract]
  /\ disputes = [c \in Contracts |-> newDispute(FALSE, 0)]
  /\ processed = {}
  /\ isFrozen = [b \in Banks |-> FALSE]
  /\ totalBalance = [b \in Banks |-> 0]
  /\ registeredBanks = << >>
  /\ primaryBankId = NoBank
  /\ paused = FALSE
  /\ now = 0

-----------------------------------------------------------------------------
(* Helpers.                                                                *)

contractExists(c) == contracts[c].status # "NONE"

(* Mutant of idempotent: the reference is checked and not recorded.        *)
idempotentUnrecorded(ref) == ref \notin processed /\ UNCHANGED processed

idempotent(ref) ==
  /\ ref \notin processed
  /\ processed' = processed \cup {ref}

added(b) == \E i \in DOMAIN registeredBanks : registeredBanks[i] = b

\* isActive is set on registration and never cleared.
available(b) == added(b) /\ ~isFrozen[b]

firstAvailable ==
  CHOOSE i \in DOMAIN registeredBanks :
    /\ available(registeredBanks[i])
    /\ \A j \in 1 .. i - 1 : ~available(registeredBanks[j])

getAvailableBank ==
  IF primaryBankId # NoBank /\ available(primaryBankId) THEN primaryBankId
  ELSE registeredBanks[firstAvailable]

(* Mutant of _transition: without the matrix.                              *)
_transitionUnchecked(c, from, to) ==
  contracts' = [contracts EXCEPT ![c].status = to, ![c].version = @ + 1]

_transition(c, from, to) ==
  /\ ledgerAllows("V5", from, to)
  /\ contracts' = [contracts EXCEPT ![c].status = to, ![c].version = @ + 1]

finalStatus(type) ==
  IF type \in {"CONTINUE_SETTLEMENT", "PAY_SELLER"} THEN "VERIFIED"
                                                    ELSE "CANCELLED"
-----------------------------------------------------------------------------
(* The life of a contract.                                                 *)

createContract(c) ==
  /\ ~paused
  /\ \E b \in Banks : available(b)
  /\ ~contractExists(c)
  /\ contracts' = [contracts EXCEPT
       ![c] = [status |-> "CREATED", bankId |-> getAvailableBank, version |-> 1]]
  /\ UNCHANGED <<disputes, processed, bankVars, paused, now>>

markFunded(c, ref) ==
  /\ ~paused
  /\ contractExists(c)
  /\ idempotent(ref)
  /\ _transition(c, contracts[c].status, "FUNDED")
  /\ totalBalance' = [totalBalance EXCEPT
       ![contracts[c].bankId] = @ + totalAmount[c]]
  /\ UNCHANGED <<disputes, isFrozen, registeredBanks, primaryBankId, paused, now>>

(* Mutant of markVerified: the dispute is left open.                       *)
markVerifiedKeepsDispute(c, ref) ==
  /\ ~paused
  /\ contractExists(c)
  /\ idempotent(ref)
  /\ _transition(c, contracts[c].status, "VERIFIED")
  /\ UNCHANGED <<disputes, bankVars, paused, now>>

markVerified(c, ref) ==
  /\ ~paused
  /\ contractExists(c)
  /\ idempotent(ref)
  /\ _transition(c, contracts[c].status, "VERIFIED")
  /\ disputes' = [disputes EXCEPT ![c].active = FALSE]
  /\ UNCHANGED <<bankVars, paused, now>>

\* The subtraction is checked: it reverts below zero.
markSettled(c, ref) ==
  /\ ~paused
  /\ contractExists(c)
  /\ idempotent(ref)
  /\ _transition(c, contracts[c].status, "SETTLED")
  /\ totalBalance[contracts[c].bankId] >= totalAmount[c]
  /\ totalBalance' = [totalBalance EXCEPT
       ![contracts[c].bankId] = @ - totalAmount[c]]
  /\ UNCHANGED <<disputes, isFrozen, registeredBanks, primaryBankId, paused, now>>

(* Mutant of cancelContract: takes the amount off the bank's balance, paid *)
(* in or not.                                                              *)
cancelContractRefunds(c, ref) ==
  /\ ~paused
  /\ contracts[c].status \in {"CREATED", "DISPUTED"}
  /\ idempotent(ref)
  /\ disputes' = [disputes EXCEPT ![c].active = FALSE]
  /\ _transition(c, contracts[c].status, "CANCELLED")
  /\ totalBalance' = [totalBalance EXCEPT
       ![contracts[c].bankId] = @ - totalAmount[c]]
  /\ UNCHANGED <<isFrozen, registeredBanks, primaryBankId, paused, now>>

cancelContract(c, ref) ==
  /\ ~paused
  /\ contracts[c].status \in {"CREATED", "DISPUTED"}
  /\ idempotent(ref)
  /\ disputes' = IF contracts[c].status = "DISPUTED"
                 THEN [disputes EXCEPT ![c].active = FALSE] ELSE disputes
  /\ _transition(c, contracts[c].status, "CANCELLED")
  /\ UNCHANGED <<bankVars, paused, now>>
-----------------------------------------------------------------------------
(* Disputes.                                                               *)

raiseDispute(c, ref) ==
  /\ ~paused
  /\ contractExists(c)
  /\ idempotent(ref)
  /\ ~disputes[c].active
  /\ contracts[c].status \in {"FUNDED", "VERIFIED"}
  /\ _transition(c, contracts[c].status, "DISPUTED")
  /\ disputes' = [disputes EXCEPT ![c] = newDispute(TRUE, now)]
  /\ UNCHANGED <<bankVars, paused, now>>

queueResolution(c, type) ==
  /\ ~paused
  /\ contractExists(c)
  /\ disputes[c].active
  /\ ~disputes[c].resolutionQueued
  /\ disputes' = [disputes EXCEPT
       ![c].resolutionQueued = TRUE,
       ![c].resolutionExecutableAt = now + resolutionDelay,
       ![c].queuedResolutionType = type]
  /\ UNCHANGED <<contracts, processed, bankVars, paused, now>>

\* _transition is told DISPUTED; it does not look at the contract.
executeResolution(c, ref) ==
  /\ ~paused
  /\ contractExists(c)
  /\ idempotent(ref)
  /\ disputes[c].active
  /\ disputes[c].resolutionQueued
  /\ now >= disputes[c].resolutionExecutableAt
  /\ _transition(c, "DISPUTED", finalStatus(disputes[c].queuedResolutionType))
  /\ disputes' = [disputes EXCEPT ![c].active = FALSE,
                                  ![c].resolutionQueued = FALSE]
  /\ UNCHANGED <<bankVars, paused, now>>

(* Mutant of appealResolution: the shorter delay.                          *)
appealResolutionShort(c) ==
  /\ contractExists(c)
  /\ disputes[c].resolutionQueued
  /\ now < disputes[c].resolutionExecutableAt
  /\ disputes' = [disputes EXCEPT
       ![c].appealed = TRUE,
       ![c].resolutionExecutableAt = now + resolutionDelay]
  /\ UNCHANGED <<contracts, processed, bankVars, paused, now>>

appealResolution(c) ==
  /\ contractExists(c)
  /\ disputes[c].resolutionQueued
  /\ now < disputes[c].resolutionExecutableAt
  /\ disputes' = [disputes EXCEPT
       ![c].appealed = TRUE,
       ![c].resolutionExecutableAt = now + MaxDelay]
  /\ UNCHANGED <<contracts, processed, bankVars, paused, now>>
-----------------------------------------------------------------------------
(* Banks, the circuit breaker and time.                                    *)

addBankEscrow(b, isPrimary) ==
  /\ ~added(b)
  /\ isFrozen' = [isFrozen EXCEPT ![b] = FALSE]
  /\ totalBalance' = [totalBalance EXCEPT ![b] = 0]
  /\ registeredBanks' = Append(registeredBanks, b)
  /\ primaryBankId' = IF isPrimary THEN b ELSE primaryBankId
  /\ UNCHANGED <<contracts, disputes, processed, paused, now>>

(* Mutant of freezeBankEscrow: counts the frozen banks too.                *)
freezeBankEscrowCountsAll(b) ==
  /\ added(b)
  /\ isFrozen[b] \/ Len(registeredBanks) > 1
  /\ isFrozen' = [isFrozen EXCEPT ![b] = TRUE]
  /\ UNCHANGED <<contracts, disputes, processed, totalBalance, registeredBanks,
                 primaryBankId, paused, now>>

freezeBankEscrow(b) ==
  /\ added(b)
  /\ isFrozen[b] \/ Cardinality({x \in Banks : available(x)}) > 1
  /\ isFrozen' = [isFrozen EXCEPT ![b] = TRUE]
  /\ UNCHANGED <<contracts, disputes, processed, totalBalance, registeredBanks,
                 primaryBankId, paused, now>>

unfreezeBankEscrow(b) ==
  /\ added(b)
  /\ isFrozen' = [isFrozen EXCEPT ![b] = FALSE]
  /\ UNCHANGED <<contracts, disputes, processed, totalBalance, registeredBanks,
                 primaryBankId, paused, now>>

pause ==
  /\ ~paused
  /\ paused' = TRUE
  /\ UNCHANGED <<contracts, disputes, processed, bankVars, now>>

unpause ==
  /\ paused
  /\ paused' = FALSE
  /\ UNCHANGED <<contracts, disputes, processed, bankVars, now>>

Tick ==
  /\ now < MaxTime
  /\ now' = now + 1
  /\ UNCHANGED <<contracts, disputes, processed, bankVars, paused>>

Next ==
  \/ \E c \in Contracts :
       \/ createContract(c)
       \/ appealResolution(c)
       \/ \E type \in ResolutionTypes : queueResolution(c, type)
       \/ \E ref \in Refs :
            \/ markFunded(c, ref)
            \/ markVerified(c, ref)
            \/ markSettled(c, ref)
            \/ cancelContract(c, ref)
            \/ raiseDispute(c, ref)
            \/ executeResolution(c, ref)
  \/ \E b \in Banks :
       \/ \E isPrimary \in BOOLEAN : addBankEscrow(b, isPrimary)
       \/ freezeBankEscrow(b)
       \/ unfreezeBankEscrow(b)
  \/ pause
  \/ unpause
  \/ Tick

Spec == Init /\ [][Next]_vars
=============================================================================
