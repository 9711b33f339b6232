---------------------- MODULE SettlementReconciliation ----------------------
(***************************************************************************)
(* SettlementReconciliationJob beside the flow it repairs: the hourly      *)
(* check of transfers that stay pending, and the reconciliation of a       *)
(* settlement with bank and ledger, which runs daily and on request.  The  *)
(* job reads the row, the bank and the ledger one after the other and      *)
(* locks none of them.                                                     *)
(*                                                                         *)
(* What the job can see of the bank depends on keepsReference: whether the *)
(* settlement keeps the bank's reference, under which the bank and the     *)
(* orchestrator find it again, and adapter and job use the same names for  *)
(* the answer.  The entity of this repository keeps no reference: without  *)
(* one the job asks nothing and repairs nothing.                           *)
(***************************************************************************)
EXTENDS SettlementFlow, FiniteSets

CONSTANTS
  ReferenceKept,  \* the values of keepsReference under study
  MaxRuns         \* bound: reconciliations started

ASSUME ReconciliationAssumption ==
  ReferenceKept \subseteq BOOLEAN /\ MaxRuns \in Nat

VARIABLES
  keepsReference,
  jpc,        \* the await each reconciliation is at
  seen,       \* the status it has read
  found,      \* its discrepancies
  todo,       \* those it still has to repair
  failures,   \* repairs that failed
  report,     \* status of the last report
  runs        \* reconciliations started

job == <<jpc, seen, found, todo, failures, report, runs>>
allVars == <<vars, job, keepsReference>>

Jobs == {"daily", "manual"}

Discrepancies ==
  {"BANK_UNCONFIRMED", "MISSING_BLOCKCHAIN_RECORD", "CHAIN_AHEAD", "STALE_PENDING"}

autoRepairEligible == {"CHAIN_AHEAD", "STALE_PENDING"}

ReconcileInit ==
  /\ Init
  /\ keepsReference \in ReferenceKept
  /\ jpc = [j \in Jobs |-> "idle"]
  /\ seen = [j \in Jobs |-> Absent]
  /\ found = [j \in Jobs |-> {}]
  /\ todo = [j \in Jobs |-> {}]
  /\ failures = [j \in Jobs |-> 0]
  /\ report = "none"
  /\ runs = 0

jgoto(j, label) == jpc' = [jpc EXCEPT ![j] = label]

isRunning == jpc["daily"] # "idle"
-----------------------------------------------------------------------------
(* The callback that the job makes up carries no results of the legs.      *)

\* The bank finds a batch under the reference it has given it.
queryTransferStatus == IF keepsReference THEN batch ELSE "none"

\* A transfer the row calls pending has a final status at the bank.
bankDecided ==
  status = "BANK_PENDING" /\ queryTransferStatus \in {"SUCCESS", "FAILED"}

\* queryTransferStatus, then handleBankCallback up to its first read.
CallbackMadeUp(h) ==
  /\ bankDecided
  /\ pc[h] = "idle"
  /\ Goto(h, IF batch = "SUCCESS" THEN "cb_confirmed" ELSE "cb_unpaid")

\* markBankSuccess asks for a successful result of every leg.
CallbackConfirmed(h) ==
  LET confirms == canStore(status, "BANK_SUCCESS") /\ results = "successful" IN
  /\ pc[h] = "cb_confirmed"
  /\ SettlementFree
  /\ status' = IF confirms THEN "BANK_SUCCESS" ELSE status
  /\ Goto(h, IF confirms THEN "cs_begin" ELSE "idle")
  /\ UNCHANGED <<retryCount, results, escrow, locks, elsewhere, job>>

CallbackUnpaid(h) ==
  /\ pc[h] = "cb_unpaid"
  /\ SettlementFree
  /\ Store(h, status, "BANK_FAILED", "ul_begin")
  /\ UNCHANGED <<elsewhere, job>>

\* checkStalePending and handleStaleBankPending.  The isRunning it looks at is
\* only set by the daily run.
StaleCheck(h) ==
  /\ ~isRunning
  /\ CallbackMadeUp(h)
  /\ UNCHANGED <<row, escrow, locks, elsewhere, job>>
-----------------------------------------------------------------------------
(* reconcile, for the one settlement of this contract.                     *)

\* The manual run asks isRunning too, but does not set it.
JobStart(j) ==
  /\ runs < MaxRuns /\ runs' = runs + 1
  /\ jpc[j] = "idle" /\ ~isRunning
  /\ status # Absent
  /\ seen' = [seen EXCEPT ![j] = status]
  /\ jgoto(j, "bank")
  /\ UNCHANGED <<found, todo, failures, report, vars>>

\* A check that fails is logged and finds nothing.
orNothing(D, fault) == {D} \cup (IF fault \in Faults THEN {{}} ELSE {})

JobBank(j) ==
  LET unconfirmed == /\ keepsReference
                     /\ seen[j] = "COMPLETED" /\ queryTransferStatus # "SUCCESS"
  IN
  /\ jpc[j] = "bank"
  /\ \E D \in orNothing({d \in {"BANK_UNCONFIRMED"} : unconfirmed}, "bank_error") :
       found' = [found EXCEPT ![j] = @ \cup D]
  /\ jgoto(j, "chain")
  /\ UNCHANGED <<seen, todo, failures, report, runs, vars>>

chainDiscrepancies(dbStatus) ==
  {d \in {"MISSING_BLOCKCHAIN_RECORD"} : dbStatus = "COMPLETED" /\ chain # "SETTLED"}
    \cup {d \in {"CHAIN_AHEAD"} : dbStatus # "COMPLETED" /\ chain = "SETTLED"}

\* A settlement seen BANK_PENDING may have been so for thirty minutes or not.
JobChain(j) ==
  /\ jpc[j] = "chain"
  /\ \E onChain \in orNothing(chainDiscrepancies(seen[j]), "chain_error"),
        stale \in {{}} \cup (IF seen[j] = "BANK_PENDING"
                             THEN {{"STALE_PENDING"}} ELSE {}) :
       LET all == found[j] \cup onChain \cup stale IN
       /\ found' = [found EXCEPT ![j] = all]
       /\ todo' = [todo EXCEPT ![j] = all \cap autoRepairEligible]
  /\ jgoto(j, "repair")
  /\ UNCHANGED <<seen, failures, report, runs, vars>>

\* attemptRepair counts it a success when nothing throws, whatever the bank says
\* and also when there was no reference to ask the bank with.
RepairStalePending(j) ==
  /\ jpc[j] = "repair" /\ "STALE_PENDING" \in todo[j]
  /\ todo' = [todo EXCEPT ![j] = @ \ {"STALE_PENDING"}]
  /\ \/ (\E h \in Handlers : CallbackMadeUp(h)) /\ UNCHANGED failures
     \/ ~bankDecided /\ UNCHANGED <<pc, failures>>
     \/ /\ keepsReference /\ "bank_error" \in Faults
        /\ failures' = [failures EXCEPT ![j] = @ + 1]
        /\ UNCHANGED pc
  /\ UNCHANGED <<jpc, seen, found, report, runs, row, escrow, locks, elsewhere>>

\* syncDbToBlockchain reads the row again, without a lock.
SyncRead(j) ==
  /\ jpc[j] = "repair" /\ todo[j] = {"CHAIN_AHEAD"}
  /\ seen' = [seen EXCEPT ![j] = status]
  /\ jgoto(j, "sync")
  /\ UNCHANGED <<found, todo, failures, report, runs, vars>>

(* Mutant of SyncSave: the sync sets the status the ledger calls for.      *)
SyncSaveForced(j) ==
  /\ jpc[j] = "sync" /\ SettlementFree
  /\ status' = "COMPLETED"
  /\ todo' = [todo EXCEPT ![j] = {}]
  /\ jgoto(j, "repair")
  /\ UNCHANGED <<seen, found, failures, report, runs, retryCount, results,
                 escrow, locks, pc, elsewhere>>

\* markCompleted throws: it is given a number for its date, and COMPLETED is
\* entered only from BLOCKCHAIN_PENDING.
SyncSave(j) ==
  /\ jpc[j] = "sync"
  /\ failures' = [failures EXCEPT ![j] = @ + 1]
  /\ todo' = [todo EXCEPT ![j] = {}]
  /\ jgoto(j, "repair")
  /\ UNCHANGED <<seen, found, report, runs, vars>>

\* determineReportStatus.
reportStatus(j) ==
  LET repairs == Cardinality(found[j] \cap autoRepairEligible) IN
  CASE \/ "MISSING_BLOCKCHAIN_RECORD" \in found[j]
       \/ 2 * failures[j] > repairs -> "FAILED"
    [] found[j] # {} /\ failures[j] > 0 -> "PARTIAL"
    [] OTHER -> "COMPLETED"

\* An INSERT that fails is logged, and the report is lost.
storeReport(j) ==
  report' \in {reportStatus(j)} \cup (IF "db_error" \in Faults THEN {report} ELSE {})

JobReport(j) ==
  /\ jpc[j] = "repair" /\ todo[j] = {}
  /\ storeReport(j)
  /\ seen' = [seen EXCEPT ![j] = Absent]
  /\ found' = [found EXCEPT ![j] = {}]
  /\ failures' = [failures EXCEPT ![j] = 0]
  /\ jgoto(j, "idle")
  /\ UNCHANGED <<todo, runs, vars>>
-----------------------------------------------------------------------------
\* A restart takes the reconciliations with it.
JobsLost ==
  IF crashes' # crashes
  THEN /\ jpc' = [j \in Jobs |-> "idle"]
       /\ seen' = [j \in Jobs |-> Absent]
       /\ found' = [j \in Jobs |-> {}]
       /\ todo' = [j \in Jobs |-> {}]
       /\ failures' = [j \in Jobs |-> 0]
       /\ UNCHANGED <<report, runs>>
  ELSE UNCHANGED job

JobWork(j) ==
  \/ JobBank(j) \/ JobChain(j)
  \/ RepairStalePending(j) \/ SyncRead(j) \/ SyncSave(j)
  \/ JobReport(j)

RepairWork(h) == CallbackConfirmed(h) \/ CallbackUnpaid(h)

ReconcileNext ==
  /\ \/ Next /\ JobsLost
     \/ \E h \in Handlers : StaleCheck(h) \/ RepairWork(h)
     \/ \E j \in Jobs : JobStart(j) \/ JobWork(j)
  /\ UNCHANGED keepsReference

ReconcileSpec == ReconcileInit /\ [][ReconcileNext]_allVars
=============================================================================
