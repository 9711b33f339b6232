# AMANTRA verification project

AMANTRA holds the money of a sale in a bank escrow account, records the
contract on a blockchain ledger, and pays seller, platform and mediator by a
split bank transfer once the goods are verified.  This directory holds TLA+
modules of that system, TLC configurations that check them, and proofs that
TLAPS checks.  Backend paths (`escrow/...`, `payments/...`, `domain/...`) are
relative to the backend's `src` directory, `contracts/...` to the root.

## Inventory

| Component | State | Operations | Talks to |
|---|---|---|---|
| Settlement status machine (`escrow/domain/settlement-status.enum.ts`, `settlement.entity.ts`) | status, retry count, leg results of a `settlements` row | `transition`, `mark*`, `prepareForRetry`, `canRetry`, `canBeFrozenByDispute` | called by orchestrator and listener |
| Escrow account (`escrow/domain/escrow-account.entity.ts`) | balance, frozen part, status of an `escrow_accounts` row | `debit`, `credit`, `freezeFunds`, `unfreezeFunds`, `close` | called by orchestrator, listener, escrow service |
| Settlement orchestrator (`escrow/services/settlement-orchestrator.service.ts`) | none in memory except promises under way | `initiateSettlement`, `executeBankTransfer`, `handleBankCallback`, `completeSettlementOnChain`, `retrySettlement`, `unlockEscrow` | PostgreSQL, bank adapter, ledger-sync; its handlers start each other without awaiting |
| Reconciliation job (`escrow/jobs/settlement-reconciliation.job.ts`) | report | hourly check of pending transfers; comparison of row, bank and ledger; repair | orchestrator's callback handler, ledger-sync |
| Dispute listener (`escrow/blockchain/dispute-listener.service.ts`) | `lastProcessedBlock`, `processedDisputes` (memory only) | poll timer, `processDisputeOpened`, `processDisputeResolved` | ledger logs, bank, the same rows as the orchestrator |
| Ledger synchronisation (`escrow/blockchain/ledger-sync.service.ts`) | none | `getContractStatus`, `getPayoutInfo`, `markSettled` with retries | AmantraLedger |
| Escrow account service (`escrow/services/escrow-account.service.ts`) | none | create, credit, debit, freeze, unfreeze, close | the account's row, the bank |
| Bank adapters (`escrow/adapters/*.ts`) | transfer batches by reference | accounts, split transfer, freeze, unfreeze, signed callbacks | orchestrator's webhook |
| Repositories and tables (`ports/settlement-repository.port.ts`, migrations 003 and 004) | rows, row locks, UNIQUE and CHECK constraints | save, find, find for update | all of the above |
| Split payment, network fee (`escrow/domain/split-payment.value.ts`, `network-fee.types.ts`, ledgers V2 and V3) | the amounts of a contract | disclosure, `createContract`, legs, actual amounts, the ledger's verdict | orchestrator, ledger-sync |
| AmantraLedger V2, V3, V5 (`contracts/*.sol`) | contract status, disputes, roles, upgrade and succession proposals | `createContract` ... `markSettled`, disputes, governance | ledger-sync, listener, humans |
| Arbitration council (`escrow/services/arbitration-council.service.ts`) | decisions in memory | raise, decide, queue, cancel, execute | ledger V3 |
| Governance continuity (`escrow/services/governance-continuity.service.ts`) | heartbeat history | heartbeat run, health report, succession and upgrade calls | ledger V5 |
| Xendit payments (`payments/xendit/*`) | `xendit_*` tables, advisory locks, pool of connections | invoices, webhooks, daily reconciliation | Xendit, ledger V2, PostgreSQL |
| Legacy contracts (`domain`, `application`, `infrastructure`) | contract row, event store, idempotency keys | create, QRIS payment, settle, daily reconciliation | PostgreSQL, bank, AmantraContract |
| AmantraLedger V6, frontend, scripts, schema | | milestone contracts; presentation; deployment | nothing in the backend |

### What is hard here

* The handlers of the orchestrator run concurrently with each other, with bank
  webhooks, with the listener's timer and with the reconciliation job.  They
  share two rows, each protected only by `SELECT ... FOR UPDATE`, and several
  decisions are taken on reads made before the lock.
* The orchestrator locks the settlement and then the escrow account, the
  listener the escrow account and then the settlement.
* Money moves in places that commit separately: the bank, the ledger and the
  rows.  A call may throw after it has taken effect.
* Continuations (the bank transfer after the initiation, the ledger call after
  the callback, the unlock after a failure) are only promises in memory.
* Webhooks are lost, repeated and early; retries reuse references that the bank
  already knows.
* Connections go back to the pool with a transaction open or a session lock
  taken, and the pool is small.
* The service reads the ledger, decides, and sends a transaction which the
  ledger runs later, when others have used it.
* Time locks, thresholds and intervals of ledger and service must fit.

### What makes each component correct

* Orchestrator: the bank pays before the ledger settles, the ledger settles
  before the settlement is COMPLETED, the total leaves the escrow exactly once,
  and until it does, the money of a transfer under way stays frozen.
* Listener: every dispute event gets behind it, and a processed dispute that is
  still open keeps the bank from being asked to pay.
* Reconciliation: it breaks none of that and raises no false alarm.
* Escrow service: no update is lost, the bank holds what the row calls frozen.
* Fees: the legs pay everything; terms once recorded can be paid out; both as
  far as a JavaScript number holds the amounts exactly.
* Ledger: a dispute is active exactly while the contract is DISPUTED; finished
  contracts stay; upgrades and successions respect approvals and time locks.
* Council and continuity service: what is executed is what was decided; the
  heartbeat keeps the role through failed runs the threshold has room for; the
  health report misses nothing.
* QRIS payments: one delivery at a time works on an invoice, a contract is paid
  for once, no row runs ahead of the ledger.
* Legacy: what is called settled is paid, what is called funded is held.

## Modules

| Module | What it models |
|---|---|
| `SettlementStatus`, `EscrowAccount`, `LedgerStatus`, `FeeStructure` | pure operators: transition tables, entity methods as condition and result, shares with their rounding |
| `SettlementFlow` | the composition: orchestrator, listener, rows, locks, bank, ledger, faults, restarts |
| `SettlementPromise` | the abstract specification of a settlement: pay, record, book |
| `SettlementProperties` | its invariants, action and liveness properties, inductive invariant and refinement mapping |
| `SettlementReconciliation` | extends `SettlementFlow` by the reconciliation job; `ReconciliationProperties` |
| `EscrowService` | the escrow account service over row, row lock and bank (uses `EscrowAccount`); `EscrowServiceProperties` |
| `FeePolicy` | the amounts of a contract from the akad to the ledger's verdict (uses `FeeStructure`); `FeeProperties` |
| `LedgerContracts` | AmantraLedgerV5: contracts, disputes, queued resolutions, banks, pause; `LedgerContractsProperties` |
| `ContractLife` | the abstract specification of the ledger: one step of the matrix at a time, each on a new reference |
| `Totals` | sums of amounts, as the number of their rupiah, for `EscrowService` and `LedgerContracts` |
| `LedgerGovernance` | AmantraLedgerV5: role holders, succession, dead man's switch, upgrades, system mode; `LedgerGovernanceProperties` |
| `GovernanceContinuity` | extends `LedgerGovernance` by the continuity service; `ContinuityProperties` |
| `ArbitrationCouncil` | the council's service over a dispute of ledger V3; `ArbitrationProperties` |
| `PaymentDatabase` | PostgreSQL sessions, transactions, advisory locks, and the pool that lends them |
| `XenditPayments`, `XenditReconciliation` | requests, webhooks, the daily job, over `PaymentDatabase`; `XenditProperties` |
| `LegacyContracts` | the use cases and the job of the first backend (uses `FeeStructure`); `LegacyProperties` |
| `*_proofs` | theorems and proofs about the module named before the underscore; `SettlementFlow_proofs` also about the reconciliation job, `Governance_proofs` about `LedgerGovernance` and `GovernanceContinuity` |
| `MC*` | values for TLC and the symmetry sets |

An operator with the comment "Mutant of X" is X with a plausible bug; it is in
no next-state relation and shows that a property depends on the code of X.

### `SettlementFlow`

* `status`, `retryCount`, `results`: the settlement row (`results` says whether
  both legs are recorded as successful); "ABSENT" before it is inserted.  One
  contract has at most one row (`reference_id` and `contract_id` are UNIQUE),
  and no two contracts share a row, so one contract is modelled.
* `escrow`: the account row.  `batch`: what the bank knows under the
  settlement's reference.  `callbacks`: webhooks the bank has sent.
* `chain`, `opened`: status of the contract on the ledger, disputes raised.
* `holderS`, `holderE`: which transaction holds the lock of each row.
* `pc`: the await a handler or poll is at.  `in_*` is `initiateSettlement`,
  `bt_*` `executeBankTransfer`, `cb_*` `handleBankCallback`, `cs_*`
  `completeSettlementOnChain`, `ul_begin` `unlockEscrow`, `rt_*`
  `retrySettlement`, `dl_*` the listener.
* `poll`, `lastProcessed`, `processed`: the listener's locals and its memory,
  which a restart loses.  `contractId`: the form of the contract's id.

A transaction that only touches the database is one step, taken when its row
is free.  One that calls the bank or the ledger, or takes a second lock, is
several steps with the first lock held; an exception anywhere rolls it back and
frees the locks.  A save fails when the entity's transition throws or the
table's CHECK refuses the status.  A continuation the code starts without
awaiting is the same process going on at the continuation's first label.

Options that differ between builds are constants, so that the properties can
be shown for the code as its authors meant it to be deployed and for the code
as it is: `StoredStatuses` (what the CHECK of migration 003 accepts),
`ConfirmationApi` (whether `markSettled` returns the `waitForConfirmation` the
orchestrator calls), `ContractIds` (the forms of id: a plain one does not survive
`toBytes32` and back), `FeeBearer`, `LedgerVersion`, and `LogsDecode` (whether
the ledger's dispute logs fit the ABI in the listener).  `Faults` selects which
failures happen.

`LedgerVersion` selects a matrix only.  The service's ABI is that of V2; V3
stands for a ledger with the same reads that also lets a VERIFIED contract be
disputed, which is what the orchestrator's re-validation and the listener are
written for.  V5's matrix is V3's, but it has no `getContractStatus`.

### `SettlementReconciliation`

`jpc`, `seen`, `found`, `todo` are the await of a reconciliation, the status it
read and its discrepancies; it locks nothing.  A repair runs the orchestrator's
`handleBankCallback` in the process of a handler, so a step of the job and one
of `SettlementFlow` are one step where the code calls straight through.
`keepsReference` says whether the settlement keeps the bank's reference and the
answer's names agree; the run has both kinds (`ReferenceKept`).  As shipped it
keeps none, and the job repairs nothing: the run shows then that the job's reads
and reports are right, and with a reference that its repairs break nothing.  No
property says that the job gets a settlement out of BANK_PENDING.

### `EscrowService`

One process per call; `pc` is its await, `read` the account as it loaded it.
`account`, `accountNumber` and `lock` are the row; `opened`, `bankBalance` and
`holds` are the bank, `holds` being the set of freezes, each named by the call
that asked for it.  `Agreements` are sets of the fields for which the service
and the adapter use one name (`bankAccountId`, `freezeId`, `balance`): none as
shipped.  An unknown outcome of COMMIT is the pc "error" with either effect.

### `FeePolicy`

A straight line of steps for one contract: `akad` and its disclosure, what is
entered at `createContract` (off by at most a slip), `feeInfo` on the ledger,
`split`, the bank's `networkFee`, the `report` and the `verdict`.  Percentages are
rounded as `Math.round` of a floating-point product: on a tie either way.
`fromPayoutInfo` converts the ledger's uint256 amounts by `Number`: exact up to
`MAX_EXACT` (2^53 in the code), above it rounded to what a double holds, a tie to
even.  The sums of `splitAllowed` and the differences of `calculateActualAmounts`
are rounded in the same way.

### Ledger modules

One action is one transaction of `contracts/AmantraLedgerV5.sol`.  The ledger
runs transactions one at a time and undoes one that reverts, so an action is
enabled exactly when its `require`s pass, and `nonReentrant` needs no model.
Time is `block.timestamp`, which `Tick` advances.

* `LedgerContracts`: `contracts` is `_contracts` (status, bank, version),
  `disputes` is `_disputes` (activity, the queued resolution and its execution
  time, the appeal), `processed` is `_processedTransactions`; `isFrozen`,
  `totalBalance`, `registeredBanks` and `primaryBankId` are the bank layer.
  Who sends a transaction is not part of it: each is possible whenever the
  role that may send it wants to.  `queuedResolutionHash` is left out, since the
  council can always supply the hash it queued.
* `LedgerGovernance`: `multisigAddress` and `lastActivityAt` are fields of
  `multisigs`; `addressRoles` counts how often an address lists a role (the
  array may repeat one); the proposals are sequences, so that their length is
  the proposal counter.  `sendHeartbeat` stands for every transaction under
  `onlyMultisig` that does nothing else to this state, those of
  `LedgerContracts` included: this is where the two modules meet, and why they
  can be checked apart.  Whether a Gnosis Safe is valid or a code hash unchanged
  may stop a transaction, which is then not taken.
* `GovernanceContinuity`: `client` is the kind of call under study, `run` the
  weekly heartbeat run (its read may throw, its transaction may fail or its
  receipt be lost, and `failures` counts the failed runs in a row), `report` the health report with its reads of different
  blocks, `call` a service call between its check and its transaction.
  `BigintModes` says whether `systemMode()` answers a bigint, as ethers does,
  which equals no member of the enum.
* Left out: the event-only `initiateBankMigration`, views, counters that nothing
  reads, OpenZeppelin's `AccessControl` table (the ledger's own checks read
  `multisigs`), and an upgrade sent directly to the proxy's `upgradeToAndCall`.

### `ArbitrationCouncil`

`status`, `dispute`, `resolutionDelay`, `now` are the ledger for one contract; a
`call` is sending, mined (the receipt has not come) or answered.  `queued`,
`cancelled` and `executed` remember what happened on the ledger in which dispute.
`HashesPrefixed` is FALSE as shipped: `hashString` omits the 0x, so the service's
own `raiseDispute` never succeeds and disputes come from other callers.

### QRIS payments

`PaymentDatabase` has `db` (committed rows), `tx[c]` (what session `c` wrote and
did not commit), `open`, `owner` (to whom the pool has lent a connection) and
`held` (advisory locks, counted per session).  `hook[w]` is the handler of a
delivery, `req[q]` a request for an invoice, `job` the daily job, `sent` the last
`markFunded` of each caller.  The handlers are as the code has them: in
`processPaymentWebhook` a `finally` releases the connection before the promise
it returns has run, so that a connection goes back to the pool with its
transaction open; `releaseProcessingLock` runs on some connection of the pool.
`acquireProcessingLock` is its three statements: the advisory lock, which does not
wait; `SELECT ... FOR UPDATE`, which waits for an uncommitted change of the claim;
and the INSERT, which waits for another one of the same key and throws if that
commits, with the advisory lock still taken.  `workload` is chosen in the
initial state: which deliveries and requests come, whether the job runs, and
how often the process may crash.

### `LegacyContracts`

`row` is the contract's row, `fees` its shares, `chain` its record in
`AmantraContract` (whose functions are operators of their own), `accounts` and
`paid` the bank, `keys` the idempotency store.  `handler[p]` is a call with the
await it is at and the copy of the row it has loaded: `lockForUpdate` runs
outside a transaction and keeps nobody out, and the repository's update writes the
whole copy.  `strict` is the schema as shipped, where the second event of a
contract violates the UNIQUE version and nothing beyond CREATED is ever stored.

## Runs

CHECK_DEADLOCK is FALSE throughout because each system may stop: after its last
status, in a row nothing is scheduled for, or when a bound is used up.

| Run | Shows |
|---|---|
| `flow` | two handlers and a poll with every fault, a dispute and a restart: the money and order invariants, the inductive invariant, the two action properties and the refinement of `SettlementPromise` |
| `live` | a handler and two overlapping polls, two disputes, both forms of contract id: every handler ends, although rows are locked in opposite orders; every dispute event gets behind the listener, although overlapping polls set `lastProcessedBlock` back; nothing is paid once an open dispute has been processed, if the listener finds the rows |
| `reconciliation` | the job beside two handlers, with lost webhooks, failing bank and ledger calls and a restart, as shipped and with a bank reference that is kept: `CompletedIsPaidAndBooked` survives its repairs, and it never reports the critical `MISSING_BLOCKCHAIN_RECORD` |
| `escrow_service` | three calls on one account that exists or is created by one of them, with failing bank, failing COMMIT and a crash: balances, freezes and the account number survive every interleaving |
| `fees` | totals and fee structures around every bound, totals above `MAX_EXACT` included: of exact amounts no leg is lost, what the ledger accepts can be split, a true report settles |
| `ledger_contracts` | two contracts, two banks, four references, three points of time: the dispute matches the status, a resolution waits out a delay of its own dispute, one bank stays available, balances cover the contracts, a reference moves a contract once, every step is one of `ContractLife` (so that final statuses are final) |
| `ledger_governance` | three roles, a successor, a proposal of either kind and one client of the continuity service: how roles change hands, what is executed and when; the heartbeat keeps the role after one failed run (two are more than the threshold of the run allows, and then nothing is promised), the report misses nothing |
| `arbitration` | three calls, two decisions, two disputes, four days: what is executed was decided, the answered time holds up to a lowered delay |
| `xendit` | two deliveries, two requests, two invoices of one contract, three connections, every fault, one crash: claims, rows and success |
| `xendit_restart` | two connections, two requests, and two deliveries of one invoice or one beside the job and a crash: every delivery is answered unless it waits for an abandoned transaction; no row runs ahead of the ledger, the job's included |
| `legacy` | two calls at once of five, one run of the job, either schema: settled is paid, funded is held, a quiet clean report means agreement |
| `one_escrow_per_payment` | refuted: "check idempotency, do not process twice" (`ProcessQRISPaymentUseCase.ts:70`).  One notification delivered twice opens two escrow accounts, as the key is stored last |

### Bounds

* Settlement: two handlers are enough for any pair of calls to race, two polls
  for an overlap.  `Total` is 2 and the account holds 4, so that freezing,
  releasing and booking differ.  `MaxRetries` is 1 (the code's 3 only repeats the
  cycle), `MaxDisputes` 1 or 2, `MaxCrashes` 0 or 1.  The proofs need none of
  these bounds.
* Reconciliation: two runs of the job, so that the daily and a manual one overlap;
  one run already meets every status two handlers leave.
* Escrow service: three calls are one between the steps of each of two others;
  amounts of 1 and 2 and an opening balance of 2 meet every comparison.
* Fees: a total of zero, one below the minimum fee, ties of the rounding, and
  totals whose tolerance is nothing, 1, 2 and 5; structures with a minimum, a
  mediator, no fee, and more basis points than the ledger accepts.  `MAX_EXACT`
  is 512, a power of two as 2^53 is, and totals of 512, 1001 and 1025 are on it
  and above it, where numbers are even and where they are multiples of 4: TLC
  finds terms there that are refused and legs that do not add up.  The proofs
  need none of these.
* Ledger contracts: two contracts let a reference used on one be tried on the
  other, two banks let freezing meet the last bank, and four references let one
  contract go through funding, dispute, verification and a second dispute,
  where a stale queue entry could survive.
* Governance: one proposal of each kind, three points of time past every lock;
  a threshold of three days, heartbeats due after one and runs every day leave
  room for one failed run, and `MaxFailures` is two;
  the client multiplies the states, so that two proposals at once are left to
  the proofs.
* Council: two disputes and two decisions let a decision meet another dispute
  than its own; two delays let the delay be lowered between decision and answer.
* Xendit: two deliveries of one invoice or of two, and a pool of three, so that a
  connection abandoned with a transaction open comes back to another caller;
  the restart run has a pool as small as its callers can fill, and exactly the
  `min` connections the pool keeps.  `Workloads` bounds what comes together: both
  deliveries and both requests without a crash, and with one (or with the job)
  one delivery or one request less.
* Legacy: five calls are a creation, a payment, a verification, and two
  settlements or a redelivery; one amount is right and one wrong.

### Fairness

`FairSpec` of `SettlementProperties` assumes, per process, strong fairness of its
work: Node runs a promise whose await is over, PostgreSQL grants a row lock in
order of arrival and breaks a deadlock, and every external call answers or times
out.  The poll timer fires (weak fairness of `PollStart`), the bank finishes a
pending batch and delivers its callbacks unless `callback_lost` is on.
Requests, retries, disputes, restarts and the ledger's callers are not fair:
nobody has to call.  The live run leaves out `db_error`, which could roll back
for ever.

`FairSpec` of `XenditProperties` assumes that handlers, requests and the job go on,
that a mined transaction is noticed, and that the job starts daily.  It does not
assume that an idle connection is ever closed: the pool is made with `min`, and
the last `min` connections stay.  So a handler may wait for ever for a row of a
transaction that nobody ends; `DeliveriesAnswered` excepts a delivery that waits
so from some point on (`WaitsForAbandoned`), and nothing else.

## Proofs

Each proof module holds for every value of the constants its module's ASSUMEs
allow, whatever the bounds of the runs.

`SettlementFlow_proofs`: any sets of handlers and polls, amounts, retries,
disputes, restarts, faults and options.

* `InvariantHolds`: `IInv` is inductive.  The safety properties alone are not:
  that a ledger call is preceded by a payment depends on what each label says.
  `Phases` says it: at the labels of `completeSettlementOnChain` the locked row is
  BANK_SUCCESS, a SUCCESS webhook or handler implies a paid batch, an unlock
  implies a failed batch.  `LockDiscipline` makes the row stable while a handler
  is at those labels, and `Money` says that nothing is released before the bank
  refuses.  Each action is a step of `HandlerKeeps`, `PollerKeeps` or
  `EnvironmentKeeps`; what a save and the entity's methods do is in `StoreFacts`,
  `FreezeFacts`, `UnfreezeFacts`, `DebitFacts`.
* `TypesHold`, `LocksHold`, `BankComesFirst`, `PaymentStaysBacked`, `BookedOnce` are
  read off `IInv`; `SettlesUnderLock` and `SafetyStatusSticks` come from
  `StepEffects`, what a step from a state of `IInv` may change.
* `Implements`: every step is `Pay`, `Record`, `Book` or a stutter of
  `SettlementPromise`.
* `DisputesHaltPayments` assumes that `bank_error` is not among the faults.  With
  it the property is false: the listener commits a dispute whose freeze the bank
  has refused (`dispute-listener.service.ts:446`), and where there is no
  settlement yet nothing stops one that is initiated later.  The invariant is
  `DisputeIInv`: a poll that holds the account's lock has frozen what was
  available in it (`ListenerFacts`), a settlement the bank has not been asked to
  pay is on its way there or frozen (`Unpaid`), and `Halted` says what a processed
  dispute leaves.  A second dispute needs no reset of `Halted`, since `opened`
  then is an event not yet processed.
* The reconciliation job: `ReconcileStep` shows that each of its steps keeps
  `IInv` and has the effects of a step of the flow, so that what is proved of the
  handlers holds beside it (`RepairsBookOnce`, `RepairsRespectStops`,
  `RepairsKeepPromise`).  `NoFalseAlarm` needs `SeenIsSettled`: a job that has read
  COMPLETED will find the ledger SETTLED, because completing comes after settling
  and settling is final.

`EscrowService_proofs`: any finite set of calls, any amounts, opening balance and agreements of
names.

* `InvariantHolds`: `readIsCurrent` says that the account a call has read under the
  row lock is the row there is; `rowSound` that the row satisfies the
  constraints of migration 003, and that before there is a row nobody has an
  answer.  `NoUpdateIsLost` and `AnswersAgree` are parts of `IInv`.
* `FrozenMoneyIsHeld`: `FrozenIsHeld` alone does not carry itself.  A freeze the
  bank has made and the row not yet booked also counts as held, and would later
  be booked on top; `backing` leaves it out, and `frozenIsBacked` is what every
  save keeps.

`LedgerContracts_proofs`: any contracts, references, resolution types and amounts,
any finite set of banks, any delays with the shorter not above the longer.

* `InvariantHolds`: beside the properties, `IInv` needs `openDispute`: a dispute
  was not raised in the future, and only a queued resolution of it is appealed
  (else the longer delay of an appeal would be promised to a resolution queued
  later with the shorter one).  `executeResolution` tells `_transition` the
  status instead of reading it, so its step uses `DisputeMatchesStatus`.
  `AvailableBankIsABank` shows that `getAvailableBank` finds a bank.
* `DisputesMatch`, `ResolutionsAreLocked`, `BanksStayAvailable` are read off
  `IInv`; `TerminalStatesLast` and `ResolutionsWait` come from the same steps.
* `BooksAreKept`: `Books` is inductive beside `IInv`, for any finite set of
  contracts.  `BanksCover` needs that a contract is held by a bank that was
  added, as adding one sets its balance to zero; `ReferencesCount` needs that a
  version is at least 1.  `SubtractionNeverReverts` follows: of `markSettled`'s
  checks the balance is never the one that fails.
* `ImplementsContractLife`: every transaction is `Register`, `Move` or a stutter
  of `ContractLife`.  `executeResolution` is a step of the matrix only because a
  dispute is active exactly while its contract is DISPUTED.

A sum over a set is defined in `Totals` as the cardinality of the set of its
rupiah, not by a fold: what adding, removing or changing one amount does to it
(`SumAdds`, `SumGrows`, `SumAgrees`) follows from the library's theorems about
cardinality, whereas a fold would need induction over data.

`Governance_proofs`: any roles that include ORACLE, HISBAH and BACKUP, any
addresses with distinct first holders, any time locks and bounds.

* `InvariantHolds`: `IInv` adds that no proposal is from the future; without it an
  announcement, which sets the execution time anew, could set it earlier.
  `MoveRoleFacts` says what a succession does to the listing of roles.
* `SuccessionsAreDecided`, `UpgradesAreNoticed`, `HoldersAreListed` are read off
  `IInv`; `RolesChangeByProcess` and `UpgradesTakeTheirTime` come from `EveryStep`.

In the same module, `ServiceUsesTheLedger` shows that a behaviour of the
continuity service over the ledger is one of `LedgerGovernance`, so that its theorems
hold beside the service.  `AutomationKeepsTheRole` is about the states in which
`HeartbeatDue + (failures + 1) * RunEvery <= DEAD_MAN_SWITCH_THRESHOLD`: in the code
7 days, 7 days and 180, so that 23 runs in a row may fail.  Its invariant,
`ServiceIInv`, is that a run ends with the last activity less than `HeartbeatDue`
old, plus one interval for each failure since, and that the next run begins
within `RunEvery`.  Nothing is assumed of the three constants.
`ReportsMissNothing` rests on `reportSound`: a role the report has passed had been
heard of, and the ledger never sets an activity back (`NewHolderIsFresh`); it
assumes `0 < HEARTBEAT_CRITICAL_DAYS <= DEAD_MAN_SWITCH_THRESHOLD`.

`ArbitrationCouncil_proofs`: `DecisionsBind` for any calls, documents, delays and
disputes.  A decision stays binding while a call is on its way because a
document belongs to one queueing call (`documentsDiffer`, `documentsFresh`) and
the ledger clears the queue when a dispute ends (`waitingIsDecided`).
`AnsweredTimesHold` adds that a waiting resolution is due within the longest delay
(`waitIsBounded`) and that no second call queues a document answered for; it
assumes the range of delays has a least and a greatest (`DelayAssumption`).

`FeePolicy_proofs`: `LegsAlwaysPayEverything` and `LedgerTermsAlwaysSplit` for any
totals, fee structures that `validFees` accepts and network fees, and any
`MAX_EXACT`: they are about contracts whose total is not above it.  `LedgerSound`
keeps the sum of the ledger's amounts, so that none of them exceeds the total,
and `ReadTermsAreExact` concludes that the service reads what the ledger has.
`TrueReportAlwaysSettles` needs `VerdictSound`: a refusal is about the terms and
the charge that are still there.

`XenditPayments_proofs`: `OneProcessor`, `ClaimStands`, `RowsFollowTheLedger` and
`PaidForOnce`, for any deliveries, requests, invoices, connections, retries and
crashes.  The properties do not carry themselves: a claim is uncommitted in a
session the pool may have lent on.  `hookSound` says that a handler past its
claim still owns its connection and its advisory lock, `oneLockHolder` that no
other session has that lock, `alone` that no other session has written that
claim, `nothingOutside` that a session without a transaction holds no uncommitted
rows, and `fundedOnce` that the ledger accepts one `markFunded` of a contract,
which is what makes a success unique.

`LegacyContracts_proofs`: `SettledPays` and `FundedStaysHeld`, for any calls,
total, fee structures, notifications and runs of the job.  Since any call may
overwrite the row with a copy loaded long ago, `IInv` asks of every copy a call
holds (`handlerSound`) what it asks of the row (`contractSound`); the chain too may
be told late.  Copies stay true because nothing there is undone (`Grows`):
accounts are only added, payments only booked.  `SharesAreSound` bounds the
mediator's share by half of the total, which is why a second batch does not fit
an account that has paid one.  `QuietRunsTell` is about a run during which row,
chain and accounts end as they began; that they did not change and change back
between two reads of the job is what `JobIInv` adds: the chain only moves on
(`chainMovedOn`) and balances only fall (`balancesFell`).

Only model-checked: liveness under fairness (`HandlersFinish`, `DisputesPolled`,
`DeliveriesAnswered`), which is beyond the prover, and the
refuted `OneEscrowPerPayment`.

## Other disagreements

Seen while modelling, without a run of their own.

Settlement: a callback that overtakes the commit of BANK_PENDING is dropped;
`markSettled` returns no `waitForConfirmation`, so that a settlement the ledger has
recorded is marked BLOCKCHAIN_FAILED (orchestrator 688); an account whose whole
balance is frozen cannot be debited (`escrow-account.entity.ts:264`); the
rejection of a transfer is rolled back and the escrow never unlocked (392);
`unlockEscrow` releases, after a failed transfer, also what a dispute has frozen
(905); a reverted `markSettled` leaves the row in BANK_SUCCESS, where nothing
retries it; `prepareForRetry` goes back to ESCROW_LOCKED from BLOCKCHAIN_FAILED,
against the table, and with nothing frozen after a bank failure; a retried
transfer reuses a reference the bank knows and waits for ever; a late
PROCESSING callback overwrites the leg results of a BANK_SUCCESS row;
BLOCKED_BY_STATE_CHANGE counts as freezable but has no transition to
FROZEN_BY_DISPUTE; the CHECK of migration 003 refuses FROZEN_BY_DISPUTE, so that
a dispute during a settlement is rolled back whole.

Listener: a dispute whose transaction was a deadlock victim is passed over (520);
the dispute logs of every ledger in the repository do not decode (48); a plain
contract id is hashed by `toBytes32`, so that the listener finds no row; it
reloads transaction hashes but looks up composite keys.

Reconciliation job: the header promises "Retry failed bank transfers" and
"Complete pending blockchain transactions" (12-13), but the settlement entity has
no `bankBatchReference`, so the hourly check ends at "No bank reference" (639) for every settlement.  A transfer
whose webhook is lost stays BANK_PENDING and its escrow frozen, "Mark failed"
(662) and "trigger completion" (651) never happen; with a reference the made-up
callback of a success would still be refused, as it has no `transferResults`.
`reconcileEscrowBalances` (457) always throws; `handlePendingBlockchain` (680)
never finds a row.

Escrow service: the adapter and the service name three fields differently; the
in-memory repository's `findForUpdate` takes no lock, so that `UpdatesKept`,
`FrozenIsHeld` and `OneAccountAnswered` hold only for PostgreSQL.

Fees: above 2^53 `Number(bigint)` rounds the ledger's amounts
(`split-payment.value.ts:265`): terms the ledger holds may then be refused at 193,
for good, and legs that pass the check need not add up to the ledger's total;
the legs are not adjusted for the network fee though a comment says so;
nobody calls `calculateActualAmounts` or `validateNetworkFeeConfig`; the
orchestrator passes no audit, so that the ledger refuses every settlement whose
network fee platform or seller bear; nothing ties the amounts entered at
`createContract` to the disclosure; the tolerance underflows and reverts where it
exceeds the amount (V2:802, V3:793).

AmantraLedgerV5: an upgrade Hisbah has approved and then cancelled is executed
(1035, 1072); `cancelContract` and `markVerified` end a dispute at once, while the
documentation's scenario 5.2 counts on the 24 to 48 hours of a queued
resolution; an appeal of a resolution whose dispute ended otherwise is still
accepted; a contract cancelled after its funding stays in the bank's
`totalBalance`; `markFunded` books on a bank frozen meanwhile (1130); RECOVERY does
not block `createContract`; `pause`, `freezeBankEscrow` and `proposeRoleSuccession`
record no activity of their sender; `executeUpgrade` is the Oracle's, not
anyone's; two proposals may name one successor, who then holds two roles; the
dead man's switch leaves the old holder listed and hands a role to the backup that
`initialize` stored, also after BACKUP has passed to a successor.

Continuity service: with ethers' bigint no mode equals EMERGENCY (705);
`getRegisteredBanks` takes any error for the end of the list;
`checkUpgradeReadiness` ignores executed and cancelled.  Council: its signer is a
wallet where the ledger wants the multisig; the time it answers is of its own
clock; the final status it answers is read again after the receipt and may be a
later one.

Continuity, automation: a failed heartbeat is not tried again before the next
run, and nothing but the answer `sent: false` tells of it (922).

Xendit: a refused request returns its connection with the transaction open; the
UPDATE of `releaseProcessingLock` may run in it, and a repeated delivery then waits
at `SELECT ... FOR UPDATE` (`xendit.idempotency.ts:103`) until that connection ends,
which the pool's `min` need never let happen; a claim whose INSERT meets a
duplicate key leaves the advisory lock with the session (128);
with ethers' bigint no contract is ever funded; a new invoice after an
expired one violates the UNIQUE external id, against the comment at service 214;
a failed outcome's row stops every redelivery, and the controller answers 200 to
all, so Xendit does not deliver again; `blockchain_status` is no column, so the
job takes every contract for CREATED and its repair of the database (job 10) is
unreachable; `retryMarkFunded` leaves the contract's row; stale locks are never
cleaned up.

Legacy: as the schema is shipped nothing beyond CREATED is stored; a notification
that is not PAID uses up the reference; chain records are never tried again; the
mediator is never paid, so that a contract with a mediator keeps an open
account; a crash after the transfers leaves VERIFIED with an empty account; the
job skips SETTLED and CANCELLED, and an error of the bank counts as agreement.

## Not modelled

* The in-memory repositories and mock pool of `escrow.module.ts`: neither locks
  nor rollback; DTOs and dependency injection.
* The listener's WebSocket mode and `processDisputeResolved` (which writes no
  row), the bank adapters' access tokens, stub signatures, gas, events, logging.
* The orchestrator's pool: its exhaustion is the `db_error` fault; the pool itself
  is modelled for the QRIS payments.
* Xendit's audit table, collisions of lock keys, `checkOrphanedDbInvoices`, and
  functions nobody calls; evidence, statistics and pending lists of the services;
  the job's balance check and pending-blockchain branch, which cannot take effect.
* Freezes and refunds of the legacy bank service, which nothing calls.
* AmantraLedgerV6 (milestones), which no backend code calls; the pause, oracle
  roles and history of `AmantraContract`: a refused record is one that is lost.
* The frontend: presentation over an ABI that matches no ledger of the
  repository; it keeps no state of the protocol.  Scripts, tests, Prisma schema.

## What is left

1. AmantraLedgerV6: milestones, their funding and release, as a module beside
   `LedgerContracts`.
2. Refine `chain` of `SettlementFlow` by the contract of `LedgerContracts`, with V5's
   disputes and resolutions in place of the listener's V2 events.
3. An abstract specification of a QRIS payment (unpaid, claimed, funded, answered)
   that `XenditPayments` is shown to implement.
