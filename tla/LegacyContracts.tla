--------------------------- MODULE LegacyContracts ---------------------------
(***************************************************************************)
(* The first generation of the backend: the use cases of one contract over *)
(* its row, its escrow accounts at the bank and its record on the chain    *)
(* (AmantraContract), and the daily reconciliation job that compares them. *)
(* A use case runs from await to await; lockForUpdate runs outside any     *)
(* transaction, so its lock is gone before the row is looked at.           *)
(***************************************************************************)
EXTENDS FeeStructure, Sequences

CONSTANTS
  Handlers,             \* calls that may be under way at once
  MaxCalls,             \* bound: calls in all
  MaxRuns,              \* bound: runs of the reconciliation job
  Total,                \* the total of the contract
  Structures,           \* the fee structures one may ask for
  References,           \* reference ids of QRIS payments
  Amounts,              \* what a notification says was paid
  SchemaModes,          \* whether domain_events keeps one version 1 per contract
  None                  \* model value: nothing

ASSUME TotalAssumption == Total \in Nat
ASSUME StructuresAssumption == \A fs \in Structures : validFees(fs)

ContractStatus == {"CREATED", "FUNDED", "VERIFIED", "SETTLED", "DISPUTED", "CANCELLED"}
ACTIVE_STATUSES == {"CREATED", "FUNDED", "VERIFIED", "DISPUTED"}
ESCROW_ACTIVE_STATUSES == {"FUNDED", "VERIFIED", "DISPUTED"}

ALLOWED_TRANSITIONS ==
  [CREATED |-> {"FUNDED", "CANCELLED"}, FUNDED |-> {"VERIFIED", "DISPUTED", "CANCELLED"},
   VERIFIED |-> {"SETTLED", "DISPUTED"}, SETTLED |-> {},
   DISPUTED |-> {"SETTLED", "CANCELLED"}, CANCELLED |-> {}]

canTransition(from, to) == to \in ALLOWED_TRANSITIONS[from]

\* What the steps below keep of a Contract: its status and its escrow account.
ContractType == [status : ContractStatus, account : Nat \cup {None}]
ASSUME NoneAssumption == None \notin ContractStatus \cup ContractType \cup {"pay", "officer"}

newContract == [status |-> "CREATED", account |-> None]
fund(contract, escrowAccountId) == [contract EXCEPT !.status = "FUNDED", !.account = escrowAccountId]

VARIABLES
  row,                  \* the row of contracts: [status, account], or None
  fees,                 \* the breakdown of the total, fixed by the row
  chain,                \* the status on the chain, or None
  accounts,             \* the accounts the bank has opened, with what was paid
  paid,                 \* what the bank has paid to each recipient
  keys,                 \* the idempotency store
  handler,              \* the calls under way
  calls,                \* calls so far
  job, report, runs,    \* the reconciliation job, its record, its runs
  strict                \* the SchemaMode of this deployment

vars == <<row, fees, chain, accounts, paid, keys, handler, calls, job, report, runs, strict>>
jobVars == <<job, report, runs>>
bankVars == <<accounts, paid>>

Idle == [kind |-> None, pc |-> "idle", copy |-> None, note |-> None]
JobIdle == [pc |-> "idle", copy |-> None, found |-> {}, heard |-> {}, seen |-> None]
Recipients == {"sellerAmount", "platformFee", "mediatorFee"}

Init ==
  /\ row = None /\ fees = None /\ chain = None
  /\ accounts = <<>> /\ paid = [r \in Recipients |-> 0]
  /\ keys = {} /\ handler = [p \in Handlers |-> Idle] /\ calls = 0
  /\ job = JobIdle /\ report = None /\ runs = 0
  /\ strict \in SchemaModes

Start(p, kind, pc, note) ==
  /\ handler[p] = Idle /\ calls < MaxCalls
  /\ calls' = calls + 1
  /\ handler' = [handler EXCEPT ![p] = [kind |-> kind, pc |-> pc, copy |-> None, note |-> note]]

at(p, pc) == handler[p].pc = pc
Goto(p, pc) == handler' = [handler EXCEPT ![p].pc = pc]
GoOnWith(p, contract, pc) ==
  handler' = [handler EXCEPT ![p] = [kind |-> @.kind, pc |-> pc, copy |-> contract,
                                     note |-> @.note]]
Finish(p) == handler' = [handler EXCEPT ![p] = Idle]

\* An error no one catches, or the end of the process, stops a call at an await.
Stops(p) ==
  /\ ~at(p, "idle")
  /\ Finish(p)
  /\ UNCHANGED <<row, fees, chain, bankVars, keys, calls, jobVars, strict>>
-----------------------------------------------------------------------------
(* CreateContractUseCase: the row first, then the chain.                   *)

\* validateInput, and the bounds FeeStructure.create is given.
validInput(fs) ==
  /\ fs.platformFeeBps <= 1000 /\ fs.mediatorFeeBps <= 500
  /\ fs.platformFixedFee = 0
  /\ fs.minimumPlatformFee = 5000 /\ fs.maximumPlatformFee = 500000

CreateContract(p, fs) ==
  /\ row = None /\ validInput(fs)
  /\ Start(p, "create", "record", None)
  /\ fees' \in calculateFees(fs, Total)
  /\ row' = newContract
  /\ UNCHANGED <<chain, bankVars, keys, jobVars, strict>>

\* AmantraContract.createContract refuses a second record of a contract.
createContract == IF chain = None THEN {"CREATED"} ELSE {}

\* A party without a wallet is refused as well, and a transaction may be lost.
registerContract == {chain} \cup createContract

\* A registration that is refused or lost is not tried again.
Register(p) ==
  /\ handler[p].kind = "create" /\ at(p, "record")
  /\ chain' \in registerContract
  /\ Finish(p)
  /\ UNCHANGED <<row, fees, bankVars, keys, calls, jobVars, strict>>
-----------------------------------------------------------------------------
(* Steps the use cases share.                                              *)

\* lockForUpdate answers the row as it is; the lock ends with the statement.
lockForUpdate == row

key(p) == IF handler[p].kind = "pay" THEN handler[p].note.referenceId ELSE "settlement"

CheckKey(p) ==
  /\ at(p, "key")
  /\ IF key(p) \in keys THEN Finish(p) ELSE Goto(p, "load")
  /\ UNCHANGED <<row, fees, chain, bankVars, keys, calls, jobVars, strict>>

SetKey(p) ==
  /\ at(p, "setKey")
  /\ keys' = keys \cup {key(p)}
  /\ Finish(p)
  /\ UNCHANGED <<row, fees, chain, bankVars, calls, jobVars, strict>>

(* The event an update stores has version 1, as the first event of every   *)
(* loaded contract, which the event of its creation has already taken.     *)
storeEventFails == strict

\* The repository's update writes the whole of the contract the call holds.
Save(p) ==
  /\ at(p, "save")
  /\ IF storeEventFails THEN Finish(p) /\ UNCHANGED row
     ELSE Goto(p, "record") /\ row' = handler[p].copy
  /\ UNCHANGED <<fees, chain, bankVars, keys, calls, jobVars, strict>>

(* AmantraContract: a record exists and may take the status.  Every call   *)
(* has a transaction id of its own, so none is refused as a repetition.    *)
take(status) == chain # None /\ canTransition(chain, status) /\ chain' = status

recordFunding == take("FUNDED")
recordVerification == take("VERIFIED")
recordDispute == take("DISPUTED")
recordCancellation == take("CANCELLED")
recordSettlement ==
  fees.sellerAmount + fees.platformFee + fees.mediatorFee = Total /\ take("SETTLED")

\* The use case of a contract with this status calls the function for it.
recordOf(status) ==
  \/ status = "FUNDED" /\ recordFunding
  \/ status = "VERIFIED" /\ recordVerification
  \/ status = "DISPUTED" /\ recordDispute
  \/ status = "CANCELLED" /\ recordCancellation
  \/ status = "SETTLED" /\ recordSettlement

\* The record is taken, refused or lost; either way the use case goes on.
Record(p) ==
  /\ handler[p].kind # "create" /\ at(p, "record")
  /\ UNCHANGED chain \/ recordOf(handler[p].copy.status)
  /\ IF handler[p].kind = "officer" THEN Finish(p) ELSE Goto(p, "setKey")
  /\ UNCHANGED <<row, fees, bankVars, keys, calls, jobVars, strict>>
-----------------------------------------------------------------------------
(* ProcessQRISPaymentUseCase, which the webhook controller starts after it *)
(* has answered.                                                           *)

\* EXPIRED is handled as FAILED is.
Notifications == [referenceId : References, status : {"PAID", "FAILED"}, amount : Amounts]

handlePaymentNotification(p, note) ==
  /\ Start(p, "pay", "key", note)
  /\ UNCHANGED <<row, fees, chain, bankVars, keys, jobVars, strict>>

\* A payment that did not succeed uses up the reference as well.
LoadForPayment(p) ==
  /\ handler[p].kind = "pay" /\ at(p, "load")
  /\ LET note == handler[p].note
         contract == lockForUpdate
     IN IF contract = None \/ contract.status # "CREATED" \/ note.amount # Total THEN Finish(p)
        ELSE GoOnWith(p, contract, IF note.status = "PAID" THEN "open" ELSE "setKey")
  /\ UNCHANGED <<row, fees, chain, bankVars, keys, calls, jobVars, strict>>

account(ref) == [reference |-> ref, balance |-> Total, open |-> TRUE]

(* Mutant of CreateEscrowAccount: an account the bank did not open is      *)
(* taken for one it did.                                                   *)
CreateEscrowAccountUnanswered(p) ==
  /\ at(p, "open")
  /\ accounts' \in {accounts, Append(accounts, account(handler[p].note.referenceId))}
  /\ GoOnWith(p, fund(handler[p].copy, Len(accounts')), "save")
  /\ UNCHANGED <<row, fees, chain, paid, keys, calls, jobVars, strict>>

(* The bank opens an account with the amount; every request has an id of   *)
(* its own, so asking again opens another.  Then fund, on the loaded copy; *)
(* a lost answer ends the call.                                            *)
CreateEscrowAccount(p) ==
  /\ at(p, "open")
  /\ accounts' = Append(accounts, account(handler[p].note.referenceId))
  /\ \/ GoOnWith(p, fund(handler[p].copy, Len(accounts')), "save")
     \/ Finish(p)
  /\ UNCHANGED <<row, fees, chain, paid, keys, calls, jobVars, strict>>
-----------------------------------------------------------------------------
(* verify, dispute and cancel of the entity.  No use case calls them: an   *)
(* officer's call loads the row, changes it, saves it and records it.      *)

OfficerStatuses == {"VERIFIED", "DISPUTED", "CANCELLED"}

OfficerCalls(p, status) ==
  /\ Start(p, "officer", "load", status)
  /\ UNCHANGED <<row, fees, chain, bankVars, keys, jobVars, strict>>

LoadForOfficer(p) ==
  /\ handler[p].kind = "officer" /\ at(p, "load")
  /\ IF row = None \/ ~canTransition(row.status, handler[p].note) THEN Finish(p)
     ELSE GoOnWith(p, [row EXCEPT !.status = handler[p].note], "save")
  /\ UNCHANGED <<row, fees, chain, bankVars, keys, calls, jobVars, strict>>
-----------------------------------------------------------------------------
(* SettleContractUseCase.                                                  *)

SettleContract(p) ==
  /\ Start(p, "settle", "key", None)
  /\ UNCHANGED <<row, fees, chain, bankVars, keys, jobVars, strict>>

LoadForSettlement(p) ==
  /\ handler[p].kind = "settle" /\ at(p, "load")
  /\ LET contract == lockForUpdate
     IN IF contract = None \/ contract.status # "VERIFIED" THEN Finish(p)
        ELSE GoOnWith(p, contract, "chain")
  /\ UNCHANGED <<row, fees, chain, bankVars, keys, calls, jobVars, strict>>

\* An error is answered as the absence of the record is.
getContractStatus == {"NOT_FOUND"} \cup IF chain = None THEN {} ELSE {chain}

CheckChain(p) ==
  /\ at(p, "chain")
  /\ \E status \in getContractStatus :
       IF status = "VERIFIED" THEN Goto(p, "balance") ELSE Finish(p)
  /\ UNCHANGED <<row, fees, chain, bankVars, keys, calls, jobVars, strict>>

escrow(p) == accounts[handler[p].copy.account]
getBalance(escrowAccountId) == accounts[escrowAccountId].balance

CheckBalance(p) ==
  /\ at(p, "balance")
  /\ IF getBalance(handler[p].copy.account) < Total THEN Finish(p) ELSE Goto(p, "transfer")
  /\ UNCHANGED <<row, fees, chain, bankVars, keys, calls, jobVars, strict>>

\* The account number of a mediator is never loaded, so he gets no transfer.
transfers == [r \in Recipients |-> IF r = "mediatorFee" THEN 0 ELSE fees[r]]

(* One batch, all or nothing.  executeTransfers reports a failure in its   *)
(* results, which nobody looks at.                                         *)
ExecuteTransfers(p) ==
  /\ at(p, "transfer")
  /\ LET sum == transfers.sellerAmount + transfers.platformFee
     IN \/ UNCHANGED bankVars
        \/ /\ escrow(p).open /\ escrow(p).balance >= sum
           /\ accounts' = [accounts EXCEPT ![handler[p].copy.account].balance = @ - sum]
           /\ paid' = [r \in Recipients |-> paid[r] + transfers[r]]
  /\ Goto(p, "close")
  /\ UNCHANGED <<row, fees, chain, keys, calls, jobVars, strict>>

(* Mutant of closeEscrowAccount: the balance is not looked at.             *)
closeEscrowAccountAnyBalance(p) ==
  accounts' = [accounts EXCEPT ![handler[p].copy.account].open = FALSE]

\* Refused while the account holds money; it never gets any again.
closeEscrowAccount(p) ==
  /\ getBalance(handler[p].copy.account) = 0
  /\ accounts' = [accounts EXCEPT ![handler[p].copy.account].open = FALSE]

settle(contract) == [contract EXCEPT !.status = "SETTLED"]

\* Then settle, on the copy loaded at the beginning.
CloseEscrowAccount(p) ==
  /\ at(p, "close")
  /\ \/ /\ closeEscrowAccount(p)
        /\ GoOnWith(p, settle(handler[p].copy), "save")
     \/ /\ getBalance(handler[p].copy.account) # 0
        /\ Finish(p) /\ UNCHANGED accounts
  /\ UNCHANGED <<row, fees, chain, paid, keys, calls, jobVars, strict>>
-----------------------------------------------------------------------------
(* ReconciliationJob.run.                                                  *)

getActiveContracts == {contract \in {row} \ {None} : contract.status \in ACTIVE_STATUSES}

JobStart ==
  /\ job.pc = "idle" /\ runs < MaxRuns
  /\ runs' = runs + 1
  /\ job' = [JobIdle EXCEPT !.pc = IF getActiveContracts # {} THEN "chain" ELSE "store",
                            !.copy = row, !.seen = <<row, chain, accounts>>]
  /\ UNCHANGED <<row, fees, chain, bankVars, keys, handler, calls, report, strict>>

checkBlockchainStatus(status) ==
  IF status = "NOT_FOUND" THEN {"HIGH"}
  ELSE IF status # job.copy.status THEN {"CRITICAL"} ELSE {}

\* The fees on the chain are those of the row; their comparison finds nothing.
JobChain ==
  /\ job.pc = "chain"
  /\ \E status \in getContractStatus :
       job' = [job EXCEPT !.pc = "bank", !.found = checkBlockchainStatus(status),
                 !.heard = IF status = "NOT_FOUND" THEN {} ELSE {"chain"}]
  /\ UNCHANGED <<row, fees, chain, bankVars, keys, handler, calls, report, runs, strict>>

\* checkEscrowBalance; an error of the bank counts as no discrepancy.
balanceDiffers ==
  job.copy.status \in {"FUNDED", "VERIFIED"} /\ getBalance(job.copy.account) # Total

(* Mutant of JobBank: the discrepancy found last replaces the others.      *)
JobBankLast ==
  /\ job.pc = "bank"
  /\ \/ job' = [job EXCEPT !.pc = "store"]
     \/ /\ job.copy.status \in ESCROW_ACTIVE_STATUSES /\ job.copy.account # None
        /\ job' = [job EXCEPT !.pc = "store", !.heard = @ \cup {"bank"},
                     !.found = IF balanceDiffers THEN {"CRITICAL"} ELSE {}]
  /\ UNCHANGED <<row, fees, chain, bankVars, keys, handler, calls, report, runs, strict>>

JobBank ==
  /\ job.pc = "bank"
  /\ \/ job' = [job EXCEPT !.pc = "store"]
     \/ /\ job.copy.status \in ESCROW_ACTIVE_STATUSES /\ job.copy.account # None
        /\ job' = [job EXCEPT !.pc = "store", !.heard = @ \cup {"bank"},
                     !.found = @ \cup IF balanceDiffers THEN {"CRITICAL"} ELSE {}]
  /\ UNCHANGED <<row, fees, chain, bankVars, keys, handler, calls, report, runs, strict>>

\* One record a day, overwritten by a later run.
storeReconciliationRecord ==
  report' = IF "CRITICAL" \in job.found THEN "REQUIRES_REVIEW" ELSE "COMPLETED"

JobStore ==
  /\ job.pc = "store"
  /\ storeReconciliationRecord
  /\ job' = JobIdle
  /\ UNCHANGED <<row, fees, chain, bankVars, keys, handler, calls, runs, strict>>
-----------------------------------------------------------------------------
Payment(p) == CheckKey(p) \/ LoadForPayment(p) \/ CreateEscrowAccount(p) \/ SetKey(p)
Settlement(p) == LoadForSettlement(p) \/ CheckChain(p) \/ CheckBalance(p)
                 \/ ExecuteTransfers(p) \/ CloseEscrowAccount(p)

Next ==
  \/ \E p \in Handlers :
       \/ \E fs \in Structures : CreateContract(p, fs)
       \/ \E note \in Notifications : handlePaymentNotification(p, note)
       \/ \E status \in OfficerStatuses : OfficerCalls(p, status)
       \/ SettleContract(p)
       \/ Register(p) \/ Save(p) \/ Record(p) \/ LoadForOfficer(p)
       \/ Payment(p) \/ Settlement(p) \/ Stops(p)
  \/ JobStart \/ JobChain \/ JobBank \/ JobStore

Spec == Init /\ [][Next]_vars
=============================================================================
