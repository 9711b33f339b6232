--------------------------- MODULE XenditPayments ---------------------------
(***************************************************************************)
(* QRIS payments through Xendit (src/payments/xendit): invoices are made   *)
(* for a contract (XenditService.createQrisForContract), the buyer pays    *)
(* one at Xendit, Xendit posts a webhook, and the handler                  *)
(* (processPaymentWebhook) claims the invoice, marks the contract FUNDED   *)
(* on AmantraLedgerV2 and then in the database.  The daily reconciliation  *)
(* job (XenditReconciliationJob) retries what the handlers left behind.    *)
(*                                                                         *)
(* Handlers, requests and the job are asynchronous functions of one        *)
(* process: each action below is what one of them does between two awaits  *)
(* whose order another caller can observe.                                 *)
(*                                                                         *)
(* Abstracted: amounts (the amount of an invoice is checked against the    *)
(* contract when it is made, and no code changes the amount of a contract),*)
(* signatures, the audit table (insert only, read by nobody) and events.   *)
(***************************************************************************)
EXTENDS PaymentDatabase, FiniteSets

CONSTANTS
    Webhooks,       \* deliveries of PAID webhooks, duplicates included
    Requests,       \* calls of createQrisForContract
    Job,            \* the reconciliation job
    NoInvoice,
    NumericStatus,  \* does the ledger binding answer getContractStatus with a
                    \* number, as xendit.service.ts:64 declares (ethers 6
                    \* answers a uint8 with a bigint, and 0n !== 0)
    MaxRetryAttempts, \* RECONCILIATION_MAX_RETRIES
    Workloads,      \* bound: the workloads under study, see workload
    Faults          \* may the bank's API, the ledger's RPC and the chain fail

ASSUME CallersAssumption == Callers = Webhooks \cup Requests \cup {Job}
ASSUME DistinctAssumption ==
    Webhooks \cap Requests = {} /\ Job \notin Webhooks \cup Requests
ASSUME NumericStatusAssumption == NumericStatus \in BOOLEAN
ASSUME WorkloadAssumption ==
    Workloads \subseteq [hooks : SUBSET Webhooks, reqs : SUBSET Requests,
                         job : BOOLEAN, crashes : Nat]
ASSUME FaultsAssumption == Faults \in BOOLEAN
ASSUME MaxRetryAssumption == MaxRetryAttempts \in Nat

VARIABLES
    workload, \* what the behaviour has: deliveries that are posted, requests made,
              \* whether the job is switched on (RECONCILIATION_ENABLED), how often
              \* the process may die
    xendit,   \* xendit[i]: the invoice at Xendit, its status and contract
    late,     \* invoices paid longer ago than timestampToleranceSeconds
    chain,    \* chain[k]: status of the contract on AmantraLedgerV2
    sent,     \* sent[p][k]: the last markFunded transaction of p for contract k
    hook,     \* hook[w]: the handler of delivery w
    req,      \* req[q]: the request q
    job,      \* the reconciliation job
    retries,  \* rows of reconciliation_retry_attempts of an invoice
    crashes

envVars == <<workload, xendit, late>>
ledgerVars == <<chain, sent>>
jobVars == <<job, retries>>
vars == <<dbVars, envVars, ledgerVars, hook, req, jobVars, crashes>>

Results == {"none", "SUCCESS", "DUPLICATE", "REFUSED", "UNKNOWN_ERROR"}

\* The context of a delivery: its invoice, the version of the row it read, whether
\* it holds the advisory lock, its result and what Xendit was told.
IdleHook == [pc |-> "idle", conn |-> NoOne, inv |-> NoInvoice, seen |-> 0,
             lock |-> FALSE, res |-> "none", told |-> "nothing"]
\* A request to make an invoice of contract `of'.
IdleReq  == [pc |-> "idle", conn |-> NoOne, of |-> NoOne, inv |-> NoInvoice]
\* The job between two runs: isRunning is false.
IdleJob  == [pc |-> "idle", todo |-> {}, found |-> {}, paid |-> {},
             inv |-> NoInvoice, seen |-> 0]

\* An invoice as Xendit answers it: its status and the contract its external_id
\* names.
XenditInvoice(st, k) == [st |-> st, of |-> k]

Init ==
    /\ DbInit
    /\ workload \in Workloads
    /\ xendit = [i \in Invoices |-> XenditInvoice("none", NoOne)]
    /\ late = {}
    /\ chain = [k \in Contracts |-> "CREATED"]
    /\ sent = [p \in Callers |-> [k \in Contracts |-> "none"]]
    /\ hook = [w \in Webhooks |-> IdleHook]
    /\ req = [q \in Requests |-> IdleReq]
    /\ job = IdleJob
    /\ retries = [i \in Invoices |-> 0]
    /\ crashes = 0

------------------------------------------------------------------------------
(* Xendit and the buyer: outside the repository. *)

Pay(i) ==
    /\ xendit[i].st = "PENDING"
    /\ xendit' = [xendit EXCEPT ![i].st = "PAID"]
    /\ UNCHANGED <<dbVars, workload, late, ledgerVars, hook, req, jobVars, crashes>>

Expire(i) ==
    /\ xendit[i].st = "PENDING"
    /\ xendit' = [xendit EXCEPT ![i].st = "EXPIRED"]
    /\ UNCHANGED <<dbVars, workload, late, ledgerVars, hook, req, jobVars, crashes>>

\* Xendit has paid the money out.  Bound: only the job can tell SETTLED from PAID
\* (the webhook was written when the invoice was paid).
Settle(i) ==
    /\ workload.job
    /\ xendit[i].st = "PAID"
    /\ xendit' = [xendit EXCEPT ![i].st = "SETTLED"]
    /\ UNCHANGED <<dbVars, workload, late, ledgerVars, hook, req, jobVars, crashes>>

Paid(i) == xendit[i].st \in {"PAID", "SETTLED"}

GrowLate(i) ==
    /\ Paid(i)
    /\ late' = late \cup {i}
    /\ UNCHANGED <<dbVars, workload, xendit, ledgerVars, hook, req, jobVars, crashes>>

(* AmantraLedgerV2.markFunded: _transition lets only CREATED become FUNDED. *)
Mine(p, k) ==
    /\ sent[p][k] = "pending"
    /\ IF chain[k] = "CREATED"
       THEN /\ chain' = [chain EXCEPT ![k] = "FUNDED"]
            /\ sent' = [sent EXCEPT ![p][k] = "mined"]
       ELSE /\ chain' = chain
            /\ sent' = [sent EXCEPT ![p][k] = "reverted"]
    /\ UNCHANGED <<dbVars, envVars, hook, req, jobVars, crashes>>

\* The node accepts the transaction of caller p.
Submit(p, k) == sent' = [sent EXCEPT ![p][k] = "pending"]

\* The status check before markFunded: onChainStatus !== 0 compares without
\* conversion, so a bigint is never equal.
ChainSaysCreated(k) == NumericStatus /\ chain[k] = "CREATED"

------------------------------------------------------------------------------
(* XenditService.createQrisForContract *)

\* The rows of the invoices of contract k (external_id is AMANTRA-{contractId}).
RowsOfContract(k) == {InvoiceOf(i) : i \in {j \in Invoices : xendit[j].of = k}}

\* validateContractForPayment, read through connection c of the pool.
validateContractForPayment(c, k) == Read(c, ContractOf(k)).st = "CREATED"

\* findByContractId: an invoice that has a row and has not expired.
HasActiveInvoice(c, k) ==
    \E r \in RowsOfContract(k) : Read(c, r).st \notin {"absent", "EXPIRED"}

\* The database knows no SETTLED: settled means paid.
mapXenditStatusToInternal(st) == IF st = "SETTLED" THEN "PAID" ELSE st

findByXenditInvoiceId(c, i) == Read(c, InvoiceOf(i))

\* saveInvoice: external_id is UNIQUE and depends on the contract only, so the
\* INSERT is refused when the contract has a row already.
SaveRefused(c, k) == \E r \in RowsOfContract(k) : Read(c, r) # Absent
SavedInvoice(i, st) ==
    [r \in {InvoiceOf(i)} |-> Row(mapXenditStatusToInternal(st), NoOne, 1)]

\* updateInvoice: no row changes when its version is not the one read before.
updateInvoice(c, i, st, seen) ==
    IF seen > 0 /\ Read(c, InvoiceOf(i)).v = seen
    THEN [r \in {InvoiceOf(i)} |-> Row(st, NoOne, seen + 1)]
    ELSE [r \in {} |-> Absent]

CreateBegin(q, k, c) ==
    /\ q \in workload.reqs
    /\ req[q].pc = "idle"
    /\ Borrow(q, c)
    /\ req' = [req EXCEPT ![q] = [@ EXCEPT !.pc = "check", !.conn = c, !.of = k]]
    /\ UNCHANGED <<db, tx, held, envVars, ledgerVars, hook, jobVars, crashes>>

\* ROLLBACK and release: the catch block.
CreateFail(q) ==
    /\ Rollback(req[q].conn)
    /\ GiveBack(req[q].conn)
    /\ req' = [req EXCEPT ![q] = [IdleReq EXCEPT !.pc = "done"]]
    /\ UNCHANGED held

\* The reads go through the pool, not through the client of the transaction.
\* A refusal, and the answer with the existing invoice, return before COMMIT
\* or ROLLBACK: the connection goes back with its transaction open.
CreateCheck(q) ==
    /\ req[q].pc = "check"
    /\ \/ /\ ConnectTimeout
          /\ CreateFail(q)
       \/ \E c \in Free :
            IF validateContractForPayment(c, req[q].of) /\ ~HasActiveInvoice(c, req[q].of)
            THEN /\ req' = [req EXCEPT ![q].pc = "post"]
                 /\ UNCHANGED dbVars
            ELSE /\ GiveBack(req[q].conn)
                 /\ req' = [req EXCEPT ![q] = [IdleReq EXCEPT !.pc = "done"]]
                 /\ UNCHANGED <<db, tx, open, held>>
    /\ UNCHANGED <<envVars, ledgerVars, hook, jobVars, crashes>>

\* POST /v2/invoices with external_id AMANTRA-{contractId}.
CreatePost(q) ==
    /\ req[q].pc = "post"
    /\ \/ /\ Faults
          /\ CreateFail(q)
          /\ xendit' = xendit
       \/ \E i \in Invoices :
            /\ xendit[i].st = "none"
            /\ xendit' = [xendit EXCEPT ![i] = XenditInvoice("PENDING", req[q].of)]
            /\ req' = [req EXCEPT ![q] = [@ EXCEPT !.pc = "save", !.inv = i]]
            /\ UNCHANGED dbVars
    /\ UNCHANGED <<workload, late, ledgerVars, hook, jobVars, crashes>>

CreateSave(q) ==
    /\ req[q].pc = "save"
    /\ LET c == req[q].conn
           i == req[q].inv
       IN /\ Writable(c, RowsOfContract(xendit[i].of))
          /\ IF SaveRefused(c, xendit[i].of)
             THEN CreateFail(q)
             ELSE /\ WriteAndCommit(c, SavedInvoice(i, "PENDING"))
                  /\ GiveBack(c)
                  /\ req' = [req EXCEPT ![q] = [IdleReq EXCEPT !.pc = "done"]]
                  /\ held' = held
    /\ UNCHANGED <<envVars, ledgerVars, hook, jobVars, crashes>>

CreateQris(q) ==
    \/ \E k \in Contracts, c \in Conns : CreateBegin(q, k, c)
    \/ CreateCheck(q)
    \/ CreatePost(q)
    \/ CreateSave(q)

------------------------------------------------------------------------------
(* XenditWebhookController.handleQrisWebhook and handleInvoiceWebhook, and  *)
(* XenditService.processPaymentWebhook.                                     *)

hookUnchanged == <<envVars, req, jobVars, crashes>>

\* The body of the answer, always under status 200: a duplicate is a success too.
mapResultToResponse(res) == IF res \in {"SUCCESS", "DUPLICATE"} THEN "success" ELSE "failure"

\* The handler has answered.
Answered(w, res) ==
    hook' = [hook EXCEPT ![w] = [IdleHook EXCEPT !.pc = "done", !.inv = hook[w].inv,
                                    !.res = res, !.told = mapResultToResponse(res)]]

\* return this.finalizeProcessing(...) inside try { } finally { client.release() }
\* is not awaited: the connection goes back to the pool at once, with its
\* transaction as it is, and finalizeProcessing goes on without it.
Return(w, res) ==
    /\ GiveBack(hook[w].conn)
    /\ hook' = [hook EXCEPT ![w] = [@ EXCEPT !.res = res,
                                !.pc = IF hook[w].lock THEN "release" ELSE "commit"]]

\* The catch block begins with ROLLBACK; the connection is still borrowed.
Throw(w) ==
    /\ Rollback(hook[w].conn)
    /\ hook' = [hook EXCEPT ![w] = [@ EXCEPT !.res = "UNKNOWN_ERROR", !.pc = "catch"]]
    /\ UNCHANGED <<owner, held>>

\* validateTimestamp: paid no longer ago than timestampToleranceSeconds.
TimestampValid(i) == i \notin late

\* processPaymentWebhook up to the claim.  A refused timestamp returns at once,
\* so the connection goes back with its transaction open.
StartProcessing(w, i) ==
    \/ /\ TimestampValid(i)
       /\ \E c \in Conns :
            /\ Borrow(w, c)
            /\ hook' = [hook EXCEPT ![w] = [@ EXCEPT !.pc = "claim", !.conn = c, !.inv = i]]
    \/ /\ ~TimestampValid(i)
       /\ \E c \in Free :
            /\ open' = open \cup {c}
            /\ hook' = [hook EXCEPT ![w] = [@ EXCEPT !.pc = "commit", !.conn = c,
                                                     !.inv = i, !.res = "REFUSED"]]
       /\ owner' = owner

\* handleQrisWebhook: only PAID invoices reach the handler.  pool.connect() is
\* outside the try of the handler: without a connection the controller's catch
\* answers.  A delivery names one invoice, also when it is posted again.
Deliver(w, i) ==
    /\ w \in workload.hooks
    /\ hook[w].pc = "idle"
    /\ hook[w].inv \in {NoInvoice, i}
    /\ Paid(i)
    /\ \/ StartProcessing(w, i)
       \/ /\ ConnectTimeout
          /\ hook' = [hook EXCEPT ![w] = [@ EXCEPT !.pc = "done", !.inv = i,
                                        !.res = "UNKNOWN_ERROR", !.told = "failure"]]
          /\ UNCHANGED <<owner, open>>
    /\ UNCHANGED <<db, tx, held, ledgerVars, hookUnchanged>>

\* INSERT ... ON CONFLICT DO UPDATE, committed at once, instead of the lock and
\* the test of the row.
AcquireByUpsert(w) ==
    /\ hook[w].pc = "claim"
    /\ WriteAndCommit(hook[w].conn, [r \in {ClaimOf(hook[w].inv)} |-> Row("PROCESSING", w, 0)])
    /\ hook' = [hook EXCEPT ![w] = [@ EXCEPT !.pc = "validate"]]
    /\ UNCHANGED <<owner, held, ledgerVars, hookUnchanged>>

\* acquireProcessingLock, three statements on the connection of the handler.
\* pg_try_advisory_lock does not wait.
TryAdvisoryLock(w) ==
    /\ hook[w].pc = "claim"
    /\ LET c == hook[w].conn
           i == hook[w].inv
       IN IF TryLock(c, i)
          THEN /\ held' = Locked(c, i)
               /\ hook' = [hook EXCEPT ![w].pc = "select"]
               /\ owner' = owner
          ELSE /\ Return(w, "DUPLICATE")
               /\ held' = held
    /\ UNCHANGED <<db, tx, open, ledgerVars, hookUnchanged>>

\* SELECT ... FOR UPDATE: the INSERT another session has not committed is not
\* seen.  A row it sees it locks, after the session that wrote it has committed
\* or rolled back; the row keeps its value, and the advisory lock is given back.
SelectClaim(w) ==
    /\ hook[w].pc = "select"
    /\ LET c == hook[w].conn
           r == ClaimOf(hook[w].inv)
       IN IF Read(c, r) = Absent
          THEN /\ hook' = [hook EXCEPT ![w].pc = "insert"]
               /\ UNCHANGED dbVars
          ELSE /\ Write(c, [x \in {r} |-> Read(c, r)])
               /\ held' = Unlocked(c, hook[w].inv)
               /\ Return(w, "DUPLICATE")
               /\ open' = open
    /\ UNCHANGED <<ledgerVars, hookUnchanged>>

\* The INSERT waits for the session that inserted the same invoice_id: a
\* duplicate key if that one commits.  The advisory lock is then not given back.
InsertClaim(w) ==
    /\ hook[w].pc = "insert"
    /\ LET c == hook[w].conn
           r == ClaimOf(hook[w].inv)
       IN /\ Writable(c, {r})
          /\ IF Read(c, r) = Absent
             THEN /\ Write(c, [x \in {r} |-> Row("PROCESSING", w, 0)])
                  /\ hook' = [hook EXCEPT ![w] = [@ EXCEPT !.pc = "validate", !.lock = TRUE]]
                  /\ UNCHANGED <<open, owner, held>>
             ELSE Throw(w)
    /\ UNCHANGED <<ledgerVars, hookUnchanged>>

AcquireProcessingLock(w) == TryAdvisoryLock(w) \/ SelectClaim(w) \/ InsertClaim(w)

HookContract(w) == xendit[hook[w].inv].of

\* validateContractForPayment reads through the pool.
ValidateContract(w) ==
    /\ hook[w].pc = "validate"
    /\ \/ /\ ConnectTimeout
          /\ Throw(w)
       \/ \E c \in Free :
            IF validateContractForPayment(c, HookContract(w))
            THEN /\ hook' = [hook EXCEPT ![w].pc = "status"]
                 /\ UNCHANGED dbVars
            ELSE /\ Return(w, "REFUSED")
                 /\ UNCHANGED <<db, tx, open, held>>
    /\ UNCHANGED <<ledgerVars, hookUnchanged>>

\* getContractStatus on the ledger, then findByXenditInvoiceId, whose version is
\* kept for updateInvoice.  A missing row is only warned about.
CheckOnChainStatus(w) ==
    /\ hook[w].pc = "status"
    /\ \/ /\ Faults \/ ConnectTimeout
          /\ Throw(w)
       \/ /\ ChainSaysCreated(HookContract(w))
          /\ \E c \in Free :
                hook' = [hook EXCEPT ![w] = [@ EXCEPT !.pc = "submit",
                                        !.seen = findByXenditInvoiceId(c, hook[w].inv).v]]
          /\ UNCHANGED dbVars
       \/ /\ ~ChainSaysCreated(HookContract(w))
          /\ Return(w, "REFUSED")
          /\ UNCHANGED <<db, tx, open, held>>
    /\ UNCHANGED <<ledgerVars, hookUnchanged>>

\* ledgerContract.markFunded: whatever it throws is the answer BLOCKCHAIN_ERROR.
MarkFunded(w) ==
    /\ hook[w].pc = "submit"
    /\ \/ /\ Submit(w, HookContract(w))
          /\ hook' = [hook EXCEPT ![w].pc = "wait"]
          /\ UNCHANGED dbVars
       \/ /\ \/ Faults /\ sent' = sent
             \/ Faults /\ Submit(w, HookContract(w))        \* accepted, the answer lost
             \/ chain[HookContract(w)] # "CREATED" /\ sent' = sent \* estimateGas reverts
          /\ Return(w, "REFUSED")
          /\ UNCHANGED <<db, tx, open, held>>
    /\ UNCHANGED <<chain, hookUnchanged>>

\* A handler that goes on without the receipt.
WaitReceiptNot(w) ==
    /\ hook[w].pc = "wait"
    /\ hook' = [hook EXCEPT ![w].pc = "store"]
    /\ UNCHANGED <<dbVars, ledgerVars, hookUnchanged>>

\* A handler that takes a receipt for a success whatever its status.
WaitReceiptAnyStatus(w) ==
    /\ hook[w].pc = "wait"
    /\ sent[w][HookContract(w)] \in {"mined", "reverted"}
    /\ hook' = [hook EXCEPT ![w].pc = "store"]
    /\ UNCHANGED <<dbVars, ledgerVars, hookUnchanged>>

\* tx.wait(1) throws when the transaction reverts and when the RPC fails.
WaitReceipt(w) ==
    /\ hook[w].pc = "wait"
    /\ \/ /\ sent[w][HookContract(w)] = "mined"
          /\ hook' = [hook EXCEPT ![w].pc = "store"]
          /\ UNCHANGED dbVars
       \/ /\ sent[w][HookContract(w)] = "reverted" \/ Faults
          /\ Throw(w)
    /\ UNCHANGED <<ledgerVars, hookUnchanged>>

\* updateInvoice, the row of the contract, COMMIT.
StoreFunded(w) ==
    /\ hook[w].pc = "store"
    /\ LET c   == hook[w].conn
           i   == hook[w].inv
           inv == updateInvoice(c, i, "FUNDED", hook[w].seen)
           con == ContractOf(HookContract(w))
       IN WriteAndCommit(c, [r \in DOMAIN inv \cup {con} |->
                                IF r = con THEN Row("FUNDED", NoOne, 0) ELSE inv[r]])
    /\ Return(w, "SUCCESS")
    /\ UNCHANGED <<held, ledgerVars, hookUnchanged>>

\* releaseProcessingLock, called without the client: any free connection, often
\* the one just given back.  UPDATE ... WHERE id = lockId finds the row only if
\* that session sees it; pg_advisory_unlock frees only a lock of that session.
ReleaseProcessingLock(w, res, c) ==
    LET r == ClaimOf(hook[w].inv)
    IN /\ IF Read(c, r).by = w
          THEN Write(c, [x \in {r} |-> Row(res, w, 0)])
          ELSE UNCHANGED <<db, tx>>
       /\ held' = Unlocked(c, hook[w].inv)

\* finalizeProcessing, first part: no free connection rejects the promise.
FinalizeRelease(w) ==
    /\ hook[w].pc = "release"
    /\ \/ /\ ConnectTimeout
          /\ Answered(w, "UNKNOWN_ERROR")
          /\ UNCHANGED dbVars
       \/ \E c \in Free :
            /\ ReleaseProcessingLock(w, hook[w].res, c)
            /\ hook' = [hook EXCEPT ![w].pc = "commit"]
            /\ UNCHANGED <<open, owner>>
    /\ UNCHANGED <<ledgerVars, hookUnchanged>>

\* ROLLBACK where the code has COMMIT.
FinalizeRollback(w) ==
    /\ hook[w].pc = "commit"
    /\ IF hook[w].conn = NoOne THEN UNCHANGED <<db, tx, open>> ELSE Rollback(hook[w].conn)
    /\ Answered(w, hook[w].res)
    /\ UNCHANGED <<owner, held, ledgerVars, hookUnchanged>>

\* Second part: COMMIT on the connection the handler no longer holds, whoever
\* uses it now.  On a closed connection the query fails and is ignored.
FinalizeCommit(w) ==
    /\ hook[w].pc = "commit"
    /\ IF hook[w].conn = NoOne THEN UNCHANGED <<db, tx, open>> ELSE Commit(hook[w].conn)
    /\ Answered(w, hook[w].res)
    /\ UNCHANGED <<owner, held, ledgerVars, hookUnchanged>>

\* The rest of the catch block; its own failures are logged, and the
\* connection is given back in the end.
Catch(w) ==
    /\ hook[w].pc = "catch"
    /\ \/ /\ hook[w].lock
          /\ \E c \in Free : ReleaseProcessingLock(w, "UNKNOWN_ERROR", c)
       \/ /\ ~hook[w].lock \/ ConnectTimeout
          /\ UNCHANGED <<db, tx, held>>
    /\ GiveBack(hook[w].conn)
    /\ Answered(w, hook[w].res)
    /\ UNCHANGED <<open, ledgerVars, hookUnchanged>>

ProcessPayment(w) ==
    \/ AcquireProcessingLock(w)
    \/ ValidateContract(w)
    \/ CheckOnChainStatus(w)
    \/ MarkFunded(w)
    \/ WaitReceipt(w)
    \/ StoreFunded(w)
    \/ FinalizeRelease(w)
    \/ FinalizeCommit(w)
    \/ Catch(w)

\* handleInvoiceWebhook for EXPIRED: the row takes the status, by its version.
InvoiceExpired(i, c) ==
    /\ xendit[i].st = "EXPIRED"
    /\ c \in Free
    /\ findByXenditInvoiceId(c, i).st = "PENDING"     \* bound: one change per invoice
    /\ Write(c, updateInvoice(c, i, "EXPIRED", findByXenditInvoiceId(c, i).v))
    /\ UNCHANGED <<open, owner, held, envVars, ledgerVars, hook, req, jobVars, crashes>>
=============================================================================
