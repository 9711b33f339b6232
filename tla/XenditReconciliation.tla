------------------------ MODULE XenditReconciliation ------------------------
(***************************************************************************)
(* XenditReconciliationJob, the daily job that compares the invoices paid  *)
(* at Xendit with the database and the ledger, and the specification of    *)
(* the payment system: handlers, requests, job, buyer, ledger, pool and    *)
(* crashes.                                                                *)
(*                                                                         *)
(* The repair for "on-chain FUNDED, database not updated" (repairDbStatus) *)
(* is never reached, see getOnChainStatus, and is not modelled.            *)
(***************************************************************************)
EXTENDS XenditPayments

jobUnchanged == <<envVars, hook, req, crashes>>

\* Rows as the job reads them through connection c.
RowOf(c, i) == Read(c, InvoiceOf(i))

\* findForReconciliation, through c: the rows in PAID, PROCESSING or FUNDED
\* (nothing writes PROCESSING).
findForReconciliation(c) == {i \in Invoices : RowOf(c, i).st \in {"PAID", "FUNDED"}}

\* listPaidInvoices, at Xendit.
listPaidInvoices == {i \in Invoices : Paid(i)}

\* The column contracts.blockchain_status it reads is made by no migration: the
\* query fails and the catch block answers CREATED, whatever the ledger holds.
getOnChainStatus(k) == "CREATED"

\* runDailyReconciliation, with isRunning: the two lists are snapshots.  paid:
\* the rows found in PAID, each with the version read.
JobStart(c) ==
    /\ workload.job
    /\ job.pc = "idle"
    /\ c \in Free
    /\ LET found == findForReconciliation(c)
       IN job' = [IdleJob EXCEPT
                    !.pc = "next",
                    !.todo = listPaidInvoices,
                    !.found = found,
                    !.paid = {<<i, RowOf(c, i).v>> :
                                i \in {j \in found : RowOf(c, j).st = "PAID"}}]
    /\ UNCHANGED <<dbVars, ledgerVars, retries, jobUnchanged>>

\* Back to the list, for the next invoice.
NextInvoice == job' = [job EXCEPT !.pc = "next", !.inv = NoInvoice, !.seen = 0]

\* reconcileInvoice: no row of the invoice, or a row in PAID; a row the ledger is
\* ahead of is left alone.  repairNotFunded gives up after MaxRetryAttempts
\* recorded attempts.
JobNext(i) ==
    /\ job.pc = "next"
    /\ i \in job.todo
    /\ \/ /\ i \notin job.found
          /\ job' = [job EXCEPT !.todo = @ \ {i}, !.inv = i, !.pc = "create"]
       \/ /\ i \in job.found
          /\ \/ retries[i] >= MaxRetryAttempts
             \/ \A p \in job.paid : p[1] # i
          /\ getOnChainStatus(xendit[i].of) # "FUNDED"
          /\ job' = [job EXCEPT !.todo = @ \ {i}]
       \/ /\ retries[i] < MaxRetryAttempts
          /\ Free # {}
          /\ \E p \in job.paid :
                /\ p[1] = i
                /\ job' = [job EXCEPT !.todo = @ \ {i}, !.inv = i, !.seen = p[2],
                                      !.pc = "submit"]
    /\ UNCHANGED <<dbVars, ledgerVars, retries, jobUnchanged>>

\* The counts of attempts are read and recorded outside any try: without a
\* connection the run fails, and finally clears isRunning.
JobAbort ==
    /\ \/ job.pc = "record"
       \/ job.pc = "next" /\ \E p \in job.paid : p[1] \in job.todo
    /\ ConnectTimeout
    /\ job' = IdleJob
    /\ UNCHANGED <<dbVars, ledgerVars, retries, jobUnchanged>>

\* repairMissingDbRecord: an INSERT the UNIQUE columns may refuse (caught).
RepairMissingDbRecord ==
    /\ job.pc = "create"
    /\ \/ /\ ConnectTimeout
          /\ UNCHANGED dbVars
       \/ \E c \in Free :
            LET k == xendit[job.inv].of
            IN /\ Writable(c, RowsOfContract(k))
               /\ IF SaveRefused(c, k)
                  THEN UNCHANGED dbVars
                  ELSE /\ Write(c, SavedInvoice(job.inv, xendit[job.inv].st))
                       /\ UNCHANGED <<open, owner, held>>
    /\ NextInvoice
    /\ UNCHANGED <<ledgerVars, retries, jobUnchanged>>

\* XenditService.retryMarkFunded: status, markFunded, receipt, updateInvoice.
RetryMarkFunded ==
    /\ job.pc = "submit"
    /\ \/ /\ ChainSaysCreated(xendit[job.inv].of)
          /\ Submit(Job, xendit[job.inv].of)
          /\ job' = [job EXCEPT !.pc = "wait"]
       \/ /\ ~ChainSaysCreated(xendit[job.inv].of) \/ Faults
          /\ job' = [job EXCEPT !.pc = "record"]
          /\ sent' = sent
       \/ /\ ChainSaysCreated(xendit[job.inv].of) /\ Faults  \* accepted, the answer lost
          /\ Submit(Job, xendit[job.inv].of)
          /\ job' = [job EXCEPT !.pc = "record"]
    /\ UNCHANGED <<dbVars, chain, retries, jobUnchanged>>

\* A job that takes a receipt for a success whatever its status.
RetryWaitAnyStatus ==
    /\ job.pc = "wait"
    /\ job' = [job EXCEPT !.pc = "update"]
    /\ sent[Job][xendit[job.inv].of] \in {"mined", "reverted"} \/ Faults
    /\ UNCHANGED <<dbVars, ledgerVars, retries, jobUnchanged>>

RetryWait ==
    /\ job.pc = "wait"
    /\ job' = [job EXCEPT !.pc = IF sent[Job][xendit[job.inv].of] = "mined" THEN "update" ELSE "record"]
    /\ sent[Job][xendit[job.inv].of] \in {"mined", "reverted"} \/ Faults
    /\ UNCHANGED <<dbVars, ledgerVars, retries, jobUnchanged>>

\* The row of the contract is left as it is.
RetryUpdate ==
    /\ job.pc = "update"
    /\ \/ /\ ConnectTimeout
          /\ UNCHANGED dbVars
       \/ \E c \in Free :
            /\ Write(c, updateInvoice(c, job.inv, "FUNDED", job.seen))
            /\ UNCHANGED <<open, owner, held>>
    /\ job' = [job EXCEPT !.pc = "record"]
    /\ UNCHANGED <<ledgerVars, retries, jobUnchanged>>

RecordRetryAttempt ==
    /\ job.pc = "record"
    /\ Free # {}
    /\ retries' = [retries EXCEPT ![job.inv] = @ + 1]
    /\ NextInvoice
    /\ UNCHANGED <<dbVars, ledgerVars, jobUnchanged>>

\* The list is exhausted: the report is saved and isRunning cleared.
JobEnd ==
    /\ job.pc = "next"
    /\ job.todo = {}
    /\ job' = IdleJob
    /\ UNCHANGED <<dbVars, ledgerVars, retries, jobUnchanged>>

JobStep ==
    \/ JobAbort
    \/ \E i \in Invoices : JobNext(i)
    \/ RepairMissingDbRecord
    \/ RetryMarkFunded
    \/ RetryWait
    \/ RetryUpdate
    \/ RecordRetryAttempt
    \/ JobEnd

------------------------------------------------------------------------------
\* The pool closes an idle connection: a COMMIT still to come on it will fail.
IdleClose(c) ==
    /\ CloseIdle(c)
    /\ hook' = [w \in Webhooks |-> IF hook[w].conn = c THEN [hook[w] EXCEPT !.conn = NoOne]
                                   ELSE hook[w]]
    /\ UNCHANGED <<envVars, ledgerVars, req, jobVars, crashes>>

\* The process dies.  A delivery that got no answer is posted again by Xendit.
Crash ==
    /\ crashes < workload.crashes
    /\ crashes' = crashes + 1
    /\ CloseAll
    /\ hook' = [w \in Webhooks |-> IF hook[w].pc = "done" THEN hook[w]
                                   ELSE [IdleHook EXCEPT !.inv = hook[w].inv]]
    /\ req' = [q \in Requests |-> IF req[q].pc = "idle" THEN req[q]
                                  ELSE [IdleReq EXCEPT !.pc = "done"]]
    /\ job' = IdleJob
    /\ UNCHANGED <<envVars, ledgerVars, retries>>

Environment == \E i \in Invoices : Pay(i) \/ Expire(i) \/ Settle(i) \/ GrowLate(i)

Next ==
    \/ Environment
    \/ \E p \in Callers, k \in Contracts : Mine(p, k)
    \/ \E q \in Requests : CreateQris(q)
    \/ \E w \in Webhooks, i \in Invoices : Deliver(w, i)
    \/ \E w \in Webhooks : ProcessPayment(w)
    \/ \E i \in Invoices, c \in Conns : InvoiceExpired(i, c)
    \/ \E c \in Conns : JobStart(c)
    \/ JobStep
    \/ \E c \in Conns : IdleClose(c)
    \/ Crash

Spec == Init /\ [][Next]_vars
=============================================================================
