-------------------------- MODULE XenditProperties --------------------------
(***************************************************************************)
(* What the QRIS payment system promises, and what its comments say of it. *)
(***************************************************************************)
EXTENDS XenditReconciliation

\* Handlers past the claim of their invoice and not yet answered.
Processing == {w \in Webhooks :
    hook[w].pc \in {"validate", "status", "submit", "wait", "store"}}

\* Two deliveries of the webhook of one invoice are never processed at once,
\* although the advisory lock outlives the transaction and the connection goes
\* back to the pool before the transaction ends (xendit.idempotency.ts:76-160).
OneProcessorPerInvoice ==
    \A v, w \in Processing : hook[v].inv = hook[w].inv => v = w

\* While a handler is about to move money its claim of the invoice still
\* stands: no COMMIT, ROLLBACK or clean-up of another caller took it away.
ClaimStandsWhileFunding ==
    \A w \in Processing :
        /\ owner[hook[w].conn] = w
        /\ Read(hook[w].conn, ClaimOf(hook[w].inv)).by = w
        /\ held[hook[w].conn][hook[w].inv] > 0

\* A row that says FUNDED, committed or waiting to be, never runs ahead of the
\* ledger (steps 8 to 10 of processPaymentWebhook, retryMarkFunded).
NoFundedRowAheadOfLedger ==
    \A k \in Contracts :
        (\E c \in Conns : \/ Read(c, ContractOf(k)).st = "FUNDED"
                          \/ \E r \in RowsOfContract(k) : Read(c, r).st = "FUNDED")
            => chain[k] = "FUNDED"

\* A contract is paid for once: of all the deliveries of all the invoices a
\* contract ever had, at most one is answered SUCCESS.
OneSuccessPerContract ==
    \A v, w \in Webhooks :
        /\ hook[v].res = "SUCCESS"
        /\ hook[w].res = "SUCCESS"
        /\ HookContract(v) = HookContract(w)
        => v = w

------------------------------------------------------------------------------
(* Fairness: Node runs every started handler, request and job on; a mined   *)
(* transaction is a promise of the ledger; the scheduler starts the job     *)
(* every day.  No idle connection need ever be closed (min of the pool).    *)
FairSpec ==
    /\ Spec
    /\ \A w \in Webhooks : WF_vars(ProcessPayment(w))
    /\ \A q \in Requests : WF_vars(CreateCheck(q) \/ CreatePost(q) \/ CreateSave(q))
    /\ \A p \in Callers, k \in Contracts : WF_vars(Mine(p, k))
    /\ WF_vars(\E c \in Conns : JobStart(c))
    /\ WF_vars(JobStep)

\* Connections given back with their transaction open and no COMMIT to come.
Abandoned == {c \in Free \cap open :
    \A w \in Webhooks : hook[w].conn = c => hook[w].pc \notin {"release", "commit"}}

\* The handler's SELECT ... FOR UPDATE waits for such a transaction: the UPDATE
\* of releaseProcessingLock was run in it.
WaitsForAbandoned(w) ==
    /\ hook[w].pc = "select"
    /\ \E d \in Abandoned : tx[d][ClaimOf(hook[w].inv)] # Unwritten

\* Every delivery is answered, or the process died under it, with one exception:
\* no statement has a timeout, and the row a repeated delivery locks to see
\* whether its invoice was processed may have been written in a transaction that
\* createQrisForContract left open on a connection nobody uses.
DeliveriesAnswered ==
    \A w \in Webhooks :
        \/ []<>(hook[w].pc \in {"idle", "done"})
        \/ <>[]WaitsForAbandoned(w)

------------------------------------------------------------------------------
(* The inductive invariant behind the four safety properties: what a handler *)
(* may rely on between two awaits, whatever the others do to the pool, to the *)
(* rows and to the ledger meanwhile.                                         *)

Borrowing == {"claim", "select", "insert", "validate", "status", "submit", "wait", "store", "catch"}

\* Every variable has its type; retries, crashes and late are only counted.
TypeOK ==
    /\ DbTypeOK
    /\ xendit \in [Invoices -> [st : {"none", "PENDING", "PAID", "SETTLED", "EXPIRED"},
                                of : Contracts \cup {NoOne}]]
    /\ chain \in [Contracts -> {"CREATED", "FUNDED"}]
    /\ sent \in [Callers -> [Contracts -> {"none", "pending", "mined", "reverted"}]]
    /\ hook \in [Webhooks ->
          [pc : Borrowing \cup {"idle", "release", "commit", "done"},
           conn : Conns \cup {NoOne}, inv : Invoices \cup {NoInvoice}, seen : Nat,
           lock : BOOLEAN, res : Results, told : {"nothing", "success", "failure"}]]
    /\ req \in [Requests ->
          [pc : {"idle", "check", "post", "save", "done"},
           conn : Conns \cup {NoOne}, of : Contracts \cup {NoOne},
           inv : Invoices \cup {NoInvoice}]]
    /\ job \in
          [pc : {"idle", "next", "create", "submit", "wait", "update", "record"},
           todo : SUBSET Invoices, found : SUBSET Invoices,
           paid : SUBSET (Invoices \X Nat), inv : Invoices \cup {NoInvoice}, seen : Nat]

posted(i) == xendit[i].st # "none" /\ xendit[i].of \in Contracts

\* The only session that has written row r and not committed it, if any has, is c.
alone(c, r) == \A d \in Conns \ {c} : tx[d][r] = Unwritten

fundedRow(r) == db[r].st = "FUNDED" \/ \E c \in Conns : tx[c][r].st = "FUNDED"

hookSound(w) ==
    /\ hook[w].pc \in {"idle", "claim", "select", "insert"} => ~hook[w].lock
    /\ hook[w].pc \in {"select", "insert"} => held[hook[w].conn][hook[w].inv] > 0
    /\ hook[w].pc # "idle" => hook[w].inv \in Invoices /\ Paid(hook[w].inv)
    /\ hook[w].pc \in Borrowing => hook[w].conn \in Conns /\ owner[hook[w].conn] = w
    /\ hook[w].pc = "release" => hook[w].res \in ClaimStatus
    /\ w \in Processing =>
         /\ hook[w].lock
         /\ held[hook[w].conn][hook[w].inv] > 0
         /\ alone(hook[w].conn, ClaimOf(hook[w].inv))
         /\ Read(hook[w].conn, ClaimOf(hook[w].inv)).by = w
    /\ hook[w].res = "SUCCESS" => hook[w].pc \in {"release", "commit", "done"}
    /\ hook[w].pc = "store" \/ hook[w].res = "SUCCESS"
         => sent[w][HookContract(w)] = "mined"

reqSound(q) ==
    /\ req[q].pc \in {"check", "post", "save"} =>
         /\ req[q].conn \in Conns /\ owner[req[q].conn] = q
         /\ req[q].of \in Contracts
    /\ req[q].pc = "save" => req[q].inv \in Invoices

jobSound ==
    /\ \A i \in job.todo : Paid(i)
    /\ job.pc \in {"create", "submit", "wait", "update"} =>
         job.inv \in Invoices /\ Paid(job.inv)
    /\ job.pc = "update" => chain[xendit[job.inv].of] = "FUNDED"

invoicesNamed == \A i \in Invoices : xendit[i].st # "none" => posted(i)

nothingOutside == \A c \in Conns \ open : tx[c] = Clean

oneLockHolder ==
    \A c, d \in Conns, i \in Invoices : held[c][i] > 0 /\ held[d][i] > 0 => c = d

fundedOnce ==
    \A p, q \in Callers, k \in Contracts :
        /\ sent[p][k] = "mined" => chain[k] = "FUNDED"
        /\ sent[p][k] = "mined" /\ sent[q][k] = "mined" => p = q

rowsBacked ==
    /\ \A k \in Contracts : fundedRow(ContractOf(k)) => chain[k] = "FUNDED"
    /\ \A i \in Invoices :
         fundedRow(InvoiceOf(i)) => posted(i) /\ chain[xendit[i].of] = "FUNDED"

IInv ==
    /\ TypeOK
    /\ \A w \in Webhooks : hookSound(w)
    /\ \A q \in Requests : reqSound(q)
    /\ jobSound /\ invoicesNamed
    /\ nothingOutside /\ oneLockHolder
    /\ fundedOnce /\ rowsBacked
=============================================================================
