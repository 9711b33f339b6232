--------------------------- MODULE SettlementFlow ---------------------------
(***************************************************************************)
(* The settlement of one contract: the handlers of                         *)
(* SettlementOrchestratorService and the poll loop of                      *)
(* DisputeListenerService, running concurrently over the settlements row,  *)
(* the escrow_accounts row, the bank and the ledger.                       *)
(*                                                                         *)
(* A process is one invocation of an entry point.  Its label pc says which *)
(* await it is at.  A transaction that touches nothing outside the         *)
(* database is one step, taken when the row it locks is free.  One that    *)
(* calls the bank or the ledger, or locks a second row, is several steps,  *)
(* with the row lock (SELECT ... FOR UPDATE) held from the first to the    *)
(* COMMIT or ROLLBACK.                                                     *)
(*                                                                         *)
(* Contracts do not share rows (escrow_accounts.contract_id and            *)
(* settlements.reference_id are UNIQUE, and the reference is a hash of the *)
(* contract's immutable terms), so one contract has at most one settlement *)
(* row and the flow of each contract is independent.                       *)
(***************************************************************************)
EXTENDS SettlementStatus, EscrowAccount, LedgerStatus

CONSTANTS
  Handlers,        \* concurrent invocations of the orchestrator
  Pollers,         \* overlapping runs of the listener's poll
  Nobody,          \* holder of a free row lock
  Total,           \* payoutInfo.totalAmount of the contract
  Deposit,         \* the escrow balance when settlement starts
  MaxRetries,      \* 3 in the code
  StoredStatuses,  \* what the CHECK of the settlements table accepts
  ConfirmationApi, \* whether markSettled returns a waitForConfirmation
  ContractIds,     \* forms the contract's id may have: "bytes32", "plain"
  FeeBearer,       \* networkFeeBearer declared on the ledger
  LedgerVersion,   \* which transition matrix is deployed
  LogsDecode,      \* whether the listener's ABI fits the ledger's logs
  Faults,          \* which of FaultKinds may occur
  MaxDisputes,     \* bound: disputes raised on the ledger
  MaxCrashes       \* bound: restarts of the service

FaultKinds == {"db_error", "bank_reject", "bank_error", "chain_error",
               "callback_lost", "callback_repeated"}

Procs == Handlers \cup Pollers

(* The statuses that migration 003 accepts (FAILED is no status of the code). *)
ShippedStatuses == {"INITIATED", "ESCROW_LOCKED", "BANK_PENDING",
                    "BANK_SUCCESS", "BANK_FAILED", "BLOCKCHAIN_PENDING",
                    "COMPLETED", "CANCELLED"}

ASSUME ProcsAssumption ==
  /\ Handlers \cap Pollers = {}
  /\ Nobody \notin Procs

ASSUME AmountsAssumption ==
  Total \in Nat \ {0} /\ Deposit \in Nat

ASSUME BoundsAssumption ==
  MaxRetries \in Nat /\ MaxDisputes \in Nat /\ MaxCrashes \in Nat

ASSUME OptionsAssumption ==
  /\ ShippedStatuses \subseteq StoredStatuses
  /\ StoredStatuses \subseteq Statuses
  /\ ConfirmationApi \in BOOLEAN
  /\ ContractIds \subseteq {"bytes32", "plain"}
  /\ FeeBearer \in {"PLATFORM", "SELLER", "BUYER"}
  /\ LedgerVersion \in {"V2", "V3"}
  /\ LogsDecode \in BOOLEAN
  /\ Faults \subseteq FaultKinds

VARIABLES
  status, retryCount, results,  \* settlements row; results of the legs
  escrow,                       \* escrow_accounts row
  batch, callbacks,             \* bank: transfer batch, webhooks under way
  chain, opened,                \* ledger: status, disputes raised
  holderS, holderE,             \* holders of the two row locks
  pc,                           \* label of each process
  poll,                         \* locals of a poll: its last and current
                                \* event, and whether it froze the account
  lastProcessed, processed,     \* listener memory, lost in a restart
  contractId,                   \* the form of the contract's id
  crashes

row      == <<status, retryCount, results>>
bank     == <<batch, callbacks>>
ledger   == <<chain, opened>>
locks    == <<holderS, holderE>>
listener == <<lastProcessed, processed, contractId>>
vars == <<row, escrow, bank, ledger, locks, pc, poll, listener, crashes>>

\* Of the callbacks that SettlementReconciliation makes up.
MadeUpLabels == {"cb_confirmed", "cb_unpaid"}

HandlerLabels ==
  {"idle", "in_existing", "in_lock", "bt_begin", "bt_call", "bt_commit",
   "cb_success", "cb_failed", "cb_processing", "cs_begin", "cs_verify",
   "cs_block", "cs_send", "cs_confirm", "cs_debit", "ul_begin", "rt_bank",
   "rt_chain"} \cup MadeUpLabels

PollerLabels == {"idle", "dl_next", "dl_escrow", "dl_read", "dl_lock"}

CallbackStatuses == {"PROCESSING", "SUCCESS", "FAILED"}

NoPoll == [upto |-> 0, event |-> 0, froze |-> FALSE]

Init ==
  /\ status = Absent /\ retryCount = 0 /\ results = "none"
  /\ escrow = [balance |-> Deposit, frozen |-> 0, status |-> "ACTIVE"]
  /\ batch = "none" /\ callbacks = {}
  /\ chain = "FUNDED" /\ opened = 0
  /\ holderS = Nobody /\ holderE = Nobody
  /\ pc = [p \in Procs |-> "idle"]
  /\ poll = [p \in Pollers |-> NoPoll]
  /\ lastProcessed = 0 /\ processed = {}
  /\ contractId \in ContractIds
  /\ crashes = 0

-----------------------------------------------------------------------------
(* Transactions, row locks and the CHECK constraint of the table.          *)

SettlementFree == holderS = Nobody
EscrowFree     == holderE = Nobody

(* COMMIT and ROLLBACK both release every row lock of the transaction.     *)
Release(p) ==
  /\ holderS' = IF holderS = p THEN Nobody ELSE holderS
  /\ holderE' = IF holderE = p THEN Nobody ELSE holderE

Goto(p, label) == pc' = [pc EXCEPT ![p] = label]

(* Mutant of canStore: without the table of transitions.                  *)
canStoreAnyStep(from, to) == to \in StoredStatuses

(* transition() and then save(): what does not throw.                      *)
canStore(from, to) == isValidTransition(from, to) /\ to \in StoredStatuses

Rollback(h) == Goto(h, "idle") /\ Release(h) /\ UNCHANGED <<row, escrow>>

(* transition(), save() and COMMIT, or the exception that undoes it all.   *)
Store(h, from, to, next) ==
  IF canStore(from, to)
  THEN /\ status' = to
       /\ Goto(h, next)
       /\ Release(h)
       /\ UNCHANGED <<retryCount, results, escrow>>
  ELSE Rollback(h)

elsewhere == <<bank, ledger, poll, listener, crashes>>

-----------------------------------------------------------------------------
(* initiateSettlement                                                      *)

InitiateStatus(h) ==
  /\ pc[h] = "idle"
  /\ chain = "VERIFIED"
  /\ Goto(h, "in_existing")
  /\ UNCHANGED <<row, escrow, locks, elsewhere>>

InitiateExisting(h) ==
  /\ pc[h] = "in_existing"
  /\ Goto(h, IF status = Absent \/ status = "CANCELLED"
             THEN "in_lock" ELSE "idle")
  /\ UNCHANGED <<row, escrow, locks, elsewhere>>

(* The second insert of the same reference_id breaks its UNIQUE key.       *)
InitiateCommit(h) ==
  /\ pc[h] = "in_lock"
  /\ EscrowFree
  /\ \/ /\ canFreeze(escrow, Total)
        /\ status = Absent
        /\ canStore("INITIATED", "ESCROW_LOCKED")
        /\ escrow' = freezeFunds(escrow, Total)
        /\ status' = "ESCROW_LOCKED"
        /\ Goto(h, "bt_begin")
        /\ UNCHANGED <<retryCount, results, locks>>
     \/ /\ \/ ~canFreeze(escrow, Total)
           \/ status # Absent
           \/ ~canStore("INITIATED", "ESCROW_LOCKED")
        /\ Rollback(h)
  /\ UNCHANGED elsewhere

-----------------------------------------------------------------------------
(* executeBankTransfer                                                     *)

BankTransferBegin(h) ==
  /\ pc[h] = "bt_begin"
  /\ SettlementFree
  /\ \/ /\ status = "ESCROW_LOCKED"
        /\ holderS' = h
        /\ Goto(h, "bt_call")
        /\ UNCHANGED <<row, escrow, holderE>>
     \/ status # "ESCROW_LOCKED" /\ Rollback(h)
  /\ UNCHANGED elsewhere

(* The bank knows a reference once: a second request with the reference of *)
(* an earlier batch is acknowledged as accepted and starts nothing.        *)
BankAccepts == batch' = IF batch = "none" THEN "PENDING" ELSE batch

BankTransferAccepted(h) ==
  /\ pc[h] = "bt_call"
  /\ BankAccepts
  /\ Goto(h, "bt_commit")
  /\ UNCHANGED <<row, escrow, locks, callbacks, ledger, poll, listener,
                 crashes>>

BankTransferRejected(h) ==
  /\ pc[h] = "bt_call"
  /\ "bank_reject" \in Faults
  /\ batch = "none"
  /\ Store(h, status, "BANK_FAILED", "ul_begin")
  /\ UNCHANGED elsewhere

(* The call throws; the bank may have taken the order all the same.        *)
BankTransferError(h) ==
  /\ pc[h] = "bt_call"
  /\ "bank_error" \in Faults
  /\ BankAccepts \/ UNCHANGED batch
  /\ Rollback(h)
  /\ UNCHANGED <<callbacks, ledger, poll, listener, crashes>>

BankTransferCommit(h) ==
  /\ pc[h] = "bt_commit"
  /\ Store(h, status, "BANK_PENDING", "idle")
  /\ UNCHANGED elsewhere

-----------------------------------------------------------------------------
(* handleBankCallback                                                      *)

(* Mutant of CallbackLabel: what is not being processed has succeeded.     *)
CallbackLabelAllDone(m) ==
  IF m = "PROCESSING" THEN "cb_processing" ELSE "cb_success"

CallbackLabel(m) ==
  CASE m = "SUCCESS" -> "cb_success"
    [] m = "FAILED"  -> "cb_failed"
    [] OTHER         -> "cb_processing"

(* The row is read without a lock; a callback that does not find it        *)
(* BANK_PENDING is answered and forgotten.                                 *)
CallbackRead(h) ==
  /\ pc[h] = "idle"
  /\ \E m \in callbacks :
       /\ \/ callbacks' = callbacks \ {m}
          \/ "callback_repeated" \in Faults /\ UNCHANGED callbacks
       /\ IF status = "BANK_PENDING" THEN Goto(h, CallbackLabel(m))
                                     ELSE UNCHANGED pc
  /\ UNCHANGED <<row, escrow, batch, ledger, locks, poll, listener, crashes>>

CallbackSuccess(h) ==
  /\ pc[h] = "cb_success"
  /\ SettlementFree
  /\ \/ /\ canStore(status, "BANK_SUCCESS")
        /\ status' = "BANK_SUCCESS"
        /\ results' = "successful"
        /\ Goto(h, "cs_begin")
        /\ UNCHANGED <<retryCount, escrow, locks>>
     \/ ~canStore(status, "BANK_SUCCESS") /\ Rollback(h)
  /\ UNCHANGED elsewhere

CallbackFailed(h) ==
  /\ pc[h] = "cb_failed"
  /\ SettlementFree
  /\ \/ /\ canStore(status, "BANK_FAILED")
        /\ status' = "BANK_FAILED"
        /\ results' = "unsuccessful"
        /\ Goto(h, "ul_begin")
        /\ UNCHANGED <<retryCount, escrow, locks>>
     \/ ~canStore(status, "BANK_FAILED") /\ Rollback(h)
  /\ UNCHANGED elsewhere

(* Neither success nor failure: the leg results are saved, whatever the    *)
(* status of the row has become since it was read.                         *)
CallbackProcessing(h) ==
  /\ pc[h] = "cb_processing"
  /\ SettlementFree
  /\ results' = "unsuccessful"
  /\ Goto(h, "idle")
  /\ UNCHANGED <<status, retryCount, escrow, locks, elsewhere>>

-----------------------------------------------------------------------------
(* completeSettlementOnChain                                               *)

(* Mutants of CompleteBegin: the status is not checked again, and the row  *)
(* is read without FOR UPDATE.                                             *)
CompleteBeginAnyStatus(h) ==
  /\ pc[h] = "cs_begin"
  /\ SettlementFree
  /\ holderS' = h
  /\ Goto(h, "cs_verify")
  /\ UNCHANGED <<row, escrow, holderE, elsewhere>>

CompleteBeginUnlocked(h) ==
  /\ pc[h] = "cs_begin"
  /\ Goto(h, IF status = "BANK_SUCCESS" THEN "cs_verify" ELSE "idle")
  /\ UNCHANGED <<row, escrow, locks, elsewhere>>

CompleteBegin(h) ==
  /\ pc[h] = "cs_begin"
  /\ SettlementFree
  /\ \/ /\ status = "BANK_SUCCESS"
        /\ holderS' = h
        /\ Goto(h, "cs_verify")
        /\ UNCHANGED <<row, escrow, holderE>>
     \/ status # "BANK_SUCCESS" /\ Rollback(h)
  /\ UNCHANGED elsewhere

CompleteVerify(h) ==
  /\ pc[h] = "cs_verify"
  /\ Goto(h, IF chain = "VERIFIED" THEN "cs_send" ELSE "cs_block")
  /\ UNCHANGED <<row, escrow, locks, elsewhere>>

CompleteVerifyError(h) ==
  /\ pc[h] = "cs_verify"
  /\ "chain_error" \in Faults
  /\ Store(h, status, "MANUAL_REVIEW", "idle")
  /\ UNCHANGED elsewhere

(* Mutant of CompleteBlock: the escrow is unlocked as after a bank failure. *)
CompleteBlockUnlocks(h) ==
  /\ pc[h] = "cs_block"
  /\ EscrowFree
  /\ Store(h, status, "BLOCKED_BY_STATE_CHANGE", "ul_begin")
  /\ UNCHANGED elsewhere

markBlockedByStateChange(h) == Store(h, status, "BLOCKED_BY_STATE_CHANGE", "idle")

(* The escrow row is locked, and nothing is changed in it, before COMMIT.  *)
CompleteBlock(h) ==
  /\ pc[h] = "cs_block"
  /\ EscrowFree
  /\ markBlockedByStateChange(h)
  /\ UNCHANGED elsewhere

(* The catch block: markBlockchainFailed from the status the entity has in *)
(* memory, which may itself throw and so roll everything back.             *)
BlockchainFailed(h, from) == Store(h, from, "BLOCKCHAIN_FAILED", "idle")

(* markSettled is sent with a zero network fee audit, which               *)
(* _validateNetworkFeePolicy lets through for the BUYER only.              *)
LedgerSettles ==
  /\ FeeBearer = "BUYER"
  /\ ledgerAllows(LedgerVersion, chain, "SETTLED")
  /\ chain' = "SETTLED"
  /\ UNCHANGED opened

CompleteSend(h) ==
  /\ pc[h] = "cs_send"
  /\ LedgerSettles
  /\ Goto(h, "cs_confirm")
  /\ UNCHANGED <<row, escrow, bank, locks, poll, listener, crashes>>

(* Mutant of CompleteSendRevert: result.success is not looked at.          *)
CompleteSendIgnoresRevert(h) ==
  /\ pc[h] = "cs_send"
  /\ \/ FeeBearer # "BUYER"
     \/ ~ledgerAllows(LedgerVersion, chain, "SETTLED")
     \/ "chain_error" \in Faults
  /\ Goto(h, "cs_confirm")
  /\ UNCHANGED <<row, escrow, locks, elsewhere>>

CompleteSendRevert(h) ==
  /\ pc[h] = "cs_send"
  /\ \/ FeeBearer # "BUYER"
     \/ ~ledgerAllows(LedgerVersion, chain, "SETTLED")
     \/ "chain_error" \in Faults
  /\ BlockchainFailed(h, status)
  /\ UNCHANGED elsewhere

(* Mined, but the connection is lost before the receipt: the attempts that *)
(* follow revert (TransactionAlreadyProcessed) and markSettled throws.     *)
CompleteSendUnknown(h) ==
  /\ pc[h] = "cs_send"
  /\ "chain_error" \in Faults
  /\ LedgerSettles
  /\ BlockchainFailed(h, status)
  /\ UNCHANGED <<bank, poll, listener, crashes>>

CompleteConfirm(h) ==
  /\ pc[h] = "cs_confirm"
  /\ \/ /\ ConfirmationApi
        /\ Goto(h, "cs_debit")
        /\ UNCHANGED <<row, escrow, locks>>
     \/ /\ ~ConfirmationApi \/ "chain_error" \in Faults
        /\ BlockchainFailed(h, "BLOCKCHAIN_PENDING")
  /\ UNCHANGED elsewhere

CompleteDebit(h) ==
  /\ pc[h] = "cs_debit"
  /\ EscrowFree
  /\ \/ /\ canDebit(escrow, Total)
        /\ canStore("BLOCKCHAIN_PENDING", "COMPLETED")
        /\ escrow' = debit(escrow, Total)
        /\ status' = "COMPLETED"
        /\ Goto(h, "idle")
        /\ Release(h)
        /\ UNCHANGED <<retryCount, results>>
     \/ /\ \/ ~canDebit(escrow, Total)
           \/ ~canStore("BLOCKCHAIN_PENDING", "COMPLETED")
        /\ BlockchainFailed(h, "COMPLETED")
  /\ UNCHANGED elsewhere

-----------------------------------------------------------------------------
(* unlockEscrow: everything that is frozen, whoever froze it.              *)

UnlockEscrow(h) ==
  /\ pc[h] = "ul_begin"
  /\ EscrowFree
  /\ \/ escrow' = IF escrow.frozen > 0
                  THEN unfreezeFunds(escrow, escrow.frozen) ELSE escrow
     \/ "bank_error" \in Faults /\ escrow.frozen > 0 /\ UNCHANGED escrow
  /\ Goto(h, "idle")
  /\ UNCHANGED <<row, locks, elsewhere>>

-----------------------------------------------------------------------------
(* retrySettlement                                                         *)

RetryRead(h) ==
  /\ pc[h] = "idle"
  /\ canRetry(status, retryCount, MaxRetries)
  /\ Goto(h, IF status = "BANK_FAILED" THEN "rt_bank" ELSE "rt_chain")
  /\ UNCHANGED <<row, escrow, locks, elsewhere>>

\* Back to ESCROW_LOCKED without a look at the transition table.
prepareForRetry ==
  /\ canRetry(status, retryCount, MaxRetries)
  /\ status' = "ESCROW_LOCKED"
  /\ retryCount' = retryCount + 1

(* prepareForRetry checks the locked row; where to go on is decided by the *)
(* status read before.                                                     *)
RetryCommit(h) ==
  /\ pc[h] \in {"rt_bank", "rt_chain"}
  /\ SettlementFree
  /\ \/ /\ prepareForRetry
        /\ Goto(h, IF pc[h] = "rt_bank" THEN "bt_begin" ELSE "cs_begin")
        /\ UNCHANGED <<results, escrow, locks>>
     \/ ~canRetry(status, retryCount, MaxRetries) /\ Rollback(h)
  /\ UNCHANGED elsewhere

-----------------------------------------------------------------------------
(* pollForEvents and processDisputeOpened.  Event n is the log of the n-th *)
(* dispute on the contract.                                                *)

(* toBytes32 hashes an id that is no bytes32 string, and fromBytes32 gives *)
(* the hash back as it is: the listener then looks up an id no row has.    *)
FindsRows == contractId = "bytes32"

PollStart(p) ==
  /\ pc[p] = "idle"
  /\ opened > lastProcessed
  /\ poll' = [poll EXCEPT ![p] = [upto |-> opened,
                                 event |-> lastProcessed + 1,
                                 froze |-> FALSE]]
  /\ Goto(p, "dl_next")
  /\ UNCHANGED <<row, escrow, bank, ledger, locks, listener, crashes>>

NextEvent(p) ==
  poll' = [poll EXCEPT ![p] = [upto |-> @.upto, event |-> @.event + 1,
                               froze |-> FALSE]]

(* A log without args, or one the filter does not select, is passed over.  *)
(* The listener's ABI has DisputeOpened with two indexed parameters; V2    *)
(* emits it with three, which ethers leaves undecoded, and V3, V5 and V6   *)
(* emit a DisputeRaised that is not asked for.                             *)
Passed(p) == ~LogsDecode \/ poll[p].event \in processed

PollNext(p) ==
  /\ pc[p] = "dl_next"
  /\ poll[p].event <= poll[p].upto
  /\ \/ Passed(p) /\ NextEvent(p) /\ UNCHANGED pc
     \/ ~Passed(p) /\ Goto(p, "dl_escrow") /\ UNCHANGED poll
  /\ UNCHANGED <<row, escrow, bank, ledger, locks, listener, crashes>>

(* Mutant of PollEnd: stops one short of the block that was polled.        *)
PollEndOffByOne(p) ==
  /\ pc[p] = "dl_next"
  /\ poll[p].event > poll[p].upto
  /\ lastProcessed' = poll[p].upto - 1
  /\ poll' = [poll EXCEPT ![p] = NoPoll]
  /\ Goto(p, "idle")
  /\ UNCHANGED <<row, escrow, bank, ledger, locks, processed, contractId,
                 crashes>>

PollEnd(p) ==
  /\ pc[p] = "dl_next"
  /\ poll[p].event > poll[p].upto
  /\ lastProcessed' = poll[p].upto
  /\ poll' = [poll EXCEPT ![p] = NoPoll]
  /\ Goto(p, "idle")
  /\ UNCHANGED <<row, escrow, bank, ledger, locks, processed, contractId,
                 crashes>>

(* No connection for the event: the exception ends the poll, and the next  *)
(* one starts from the same block.                                         *)
PollAborted(p) ==
  /\ pc[p] = "dl_escrow"
  /\ "db_error" \in Faults
  /\ poll' = [poll EXCEPT ![p] = NoPoll]
  /\ Goto(p, "idle")
  /\ UNCHANGED <<row, escrow, bank, ledger, locks, listener, crashes>>

(* The bank's freeze may throw, which is logged and passed over.           *)
DisputeLockEscrow(p) ==
  /\ pc[p] = "dl_escrow"
  /\ FindsRows
  /\ EscrowFree
  /\ holderE' = p
  /\ \E froze \in BOOLEAN :
       /\ froze => availableBalance(escrow) > 0
       /\ ~froze => availableBalance(escrow) = 0 \/ "bank_error" \in Faults
       /\ poll' = [poll EXCEPT ![p] = [upto |-> @.upto, event |-> @.event,
                                      froze |-> froze]]
  /\ Goto(p, "dl_read")
  /\ UNCHANGED <<row, escrow, bank, ledger, holderS, listener, crashes>>

(* Mutant of DisputeCommit: the frozen account is not saved.               *)
DisputeCommitUnfrozen(p) ==
  /\ processed' = processed \cup {poll[p].event}
  /\ NextEvent(p)
  /\ Goto(p, "dl_next")
  /\ Release(p)
  /\ UNCHANGED <<retryCount, results, escrow, bank, ledger, lastProcessed,
                 contractId, crashes>>

(* Mutant of DisputeCommit: the client is not released.                    *)
DisputeCommitKeepsLocks(p) ==
  /\ escrow' = IF poll[p].froze
               THEN freezeFunds(escrow, availableBalance(escrow))
               ELSE escrow
  /\ processed' = processed \cup {poll[p].event}
  /\ NextEvent(p)
  /\ Goto(p, "dl_next")
  /\ UNCHANGED <<retryCount, results, locks, bank, ledger, lastProcessed,
                 contractId, crashes>>

(* COMMIT of the dispute's transaction, and the poll's next event.         *)
DisputeCommit(p) ==
  /\ escrow' = IF poll[p].froze
               THEN freezeFunds(escrow, availableBalance(escrow))
               ELSE escrow
  /\ processed' = processed \cup {poll[p].event}
  /\ NextEvent(p)
  /\ Goto(p, "dl_next")
  /\ Release(p)
  /\ UNCHANGED <<retryCount, results, bank, ledger, lastProcessed, contractId,
                 crashes>>

(* The catch block: logged, and the poll goes on to the next event.        *)
DisputeRollback(p) ==
  /\ NextEvent(p)
  /\ Goto(p, "dl_next")
  /\ Release(p)
  /\ UNCHANGED <<row, escrow, bank, ledger, listener, crashes>>

(* Neither row is found.                                                   *)
DisputeUnknown(p) ==
  /\ pc[p] = "dl_escrow"
  /\ ~FindsRows
  /\ UNCHANGED status
  /\ DisputeCommit(p)

DisputeReadSettlement(p) ==
  /\ pc[p] = "dl_read"
  /\ \/ /\ canBeFrozenByDispute(status)
        /\ Goto(p, "dl_lock")
        /\ UNCHANGED <<row, escrow, locks, elsewhere>>
     \/ /\ ~canBeFrozenByDispute(status)
        /\ UNCHANGED status
        /\ DisputeCommit(p)

DisputeFreezeSettlement(p) ==
  /\ pc[p] = "dl_lock"
  /\ SettlementFree
  /\ \/ /\ ~canBeFrozenByDispute(status)
        /\ UNCHANGED status
        /\ DisputeCommit(p)
     \/ /\ canBeFrozenByDispute(status)
        /\ canStore(status, "FROZEN_BY_DISPUTE")
        /\ status' = "FROZEN_BY_DISPUTE"
        /\ DisputeCommit(p)
     \/ /\ canBeFrozenByDispute(status)
        /\ ~canStore(status, "FROZEN_BY_DISPUTE")
        /\ DisputeRollback(p)

-----------------------------------------------------------------------------
(* The database, the bank, the ledger's other callers, and restarts.       *)

(* A statement fails, or no connection is free within the pool's timeout.  *)
HandlerError(h) ==
  /\ pc[h] # "idle"
  /\ "db_error" \in Faults
  /\ Rollback(h)
  /\ UNCHANGED elsewhere

PollerError(p) ==
  /\ pc[p] \in {"dl_escrow", "dl_read", "dl_lock"}
  /\ "db_error" \in Faults
  /\ DisputeRollback(p)

(* The orchestrator locks settlement then escrow, the listener escrow then *)
(* settlement; PostgreSQL breaks the cycle by failing one of the two.      *)
Deadlocked(h, p) ==
  /\ pc[h] \in {"cs_block", "cs_debit"} /\ holderS = h
  /\ pc[p] = "dl_lock" /\ holderE = p

DeadlockVictimHandler(h) ==
  /\ \E p \in Pollers : Deadlocked(h, p)
  /\ Rollback(h)
  /\ UNCHANGED elsewhere

DeadlockVictimPoller(p) ==
  /\ \E h \in Handlers : Deadlocked(h, p)
  /\ DisputeRollback(p)

BankReportsProgress ==
  /\ batch = "PENDING"
  /\ callbacks' = callbacks \cup {"PROCESSING"}
  /\ UNCHANGED <<row, escrow, batch, ledger, locks, pc, poll,
                 listener, crashes>>

BankCompletes(outcome) ==
  /\ batch = "PENDING"
  /\ batch' = outcome
  /\ callbacks' = callbacks \cup {outcome}
  /\ UNCHANGED <<row, escrow, ledger, locks, pc, poll, listener,
                 crashes>>

CallbackLost ==
  /\ "callback_lost" \in Faults
  /\ \E m \in callbacks : callbacks' = callbacks \ {m}
  /\ UNCHANGED <<row, escrow, batch, ledger, locks, pc, poll,
                 listener, crashes>>

LedgerMoves(to) ==
  /\ ledgerAllows(LedgerVersion, chain, to)
  /\ chain' = to
  /\ UNCHANGED <<row, escrow, bank, locks, pc, poll, listener,
                 crashes>>

MarkVerified == LedgerMoves("VERIFIED") /\ UNCHANGED opened

CancelContract == LedgerMoves("CANCELLED") /\ UNCHANGED opened

RaiseDispute ==
  /\ opened < MaxDisputes
  /\ LedgerMoves("DISPUTED")
  /\ opened' = opened + 1

(* Rows, bank and ledger survive; transactions under way are rolled back,  *)
(* and the listener starts again at the current block with no memory.      *)
Crash ==
  /\ crashes < MaxCrashes
  /\ crashes' = crashes + 1
  /\ holderS' = Nobody /\ holderE' = Nobody
  /\ pc' = [p \in Procs |-> "idle"]
  /\ poll' = [p \in Pollers |-> NoPoll]
  /\ lastProcessed' = opened /\ processed' = {}
  /\ UNCHANGED <<row, escrow, bank, ledger, contractId>>

-----------------------------------------------------------------------------
Request(h) == InitiateStatus(h) \/ CallbackRead(h) \/ RetryRead(h)

HandlerWork(h) ==
  \/ InitiateExisting(h) \/ InitiateCommit(h)
  \/ BankTransferBegin(h) \/ BankTransferAccepted(h)
  \/ BankTransferRejected(h) \/ BankTransferError(h) \/ BankTransferCommit(h)
  \/ CallbackSuccess(h) \/ CallbackFailed(h) \/ CallbackProcessing(h)
  \/ CompleteBegin(h) \/ CompleteVerify(h) \/ CompleteVerifyError(h)
  \/ CompleteBlock(h) \/ CompleteSend(h) \/ CompleteSendRevert(h)
  \/ CompleteSendUnknown(h) \/ CompleteConfirm(h) \/ CompleteDebit(h)
  \/ UnlockEscrow(h) \/ RetryCommit(h)
  \/ HandlerError(h) \/ DeadlockVictimHandler(h)

PollerWork(p) ==
  \/ PollNext(p) \/ PollEnd(p) \/ PollAborted(p)
  \/ DisputeUnknown(p) \/ DisputeLockEscrow(p) \/ DisputeReadSettlement(p)
  \/ DisputeFreezeSettlement(p)
  \/ PollerError(p) \/ DeadlockVictimPoller(p)

BankWork == BankCompletes("SUCCESS") \/ BankCompletes("FAILED")

Environment ==
  \/ BankReportsProgress \/ BankWork \/ CallbackLost
  \/ MarkVerified \/ CancelContract \/ RaiseDispute
  \/ Crash

Next ==
  \/ \E h \in Handlers : Request(h) \/ HandlerWork(h)
  \/ \E p \in Pollers : PollStart(p) \/ PollerWork(p)
  \/ Environment

Spec == Init /\ [][Next]_vars

(***************************************************************************)
(* A handler that has started is scheduled until it ends; row locks are    *)
(* granted first come, first served, so a waiting step that is enabled     *)
(* again and again is taken.  The poll runs on a timer, the bank finishes  *)
(* its batches and delivers its webhooks.                                  *)
(***************************************************************************)
Fairness ==
  /\ \A h \in Handlers : SF_vars(HandlerWork(h))
  /\ \A p \in Pollers : SF_vars(PollerWork(p)) /\ WF_vars(PollStart(p))
  /\ \A h \in Handlers : WF_vars(CallbackRead(h))
  /\ WF_vars(BankWork)

FairSpec == Spec /\ Fairness
=============================================================================
