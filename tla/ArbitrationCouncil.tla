-------------------------- MODULE ArbitrationCouncil --------------------------
(***************************************************************************)
(* The arbitration council service over the disputes of AmantraLedgerV3,   *)
(* for one contract.  The ledger runs one transaction at a time and a      *)
(* failed require undoes it; the service reads, sends, waits and reads     *)
(* again, each a step of its own, and catches whatever fails.  Evidence,   *)
(* documents and their upload are left out: the hash of a decision stands  *)
(* for its document, which has an id and a time of its own.                *)
(***************************************************************************)
EXTENDS Integers, LedgerStatus

CONSTANTS
  Calls,            \* calls of the service
  Hashes,           \* documentHash of each decision the council may take
  ResolutionTypes,
  Delays,           \* the values setResolutionDelay accepts, in days
  MaxTime,          \* bound on block.timestamp
  MaxDisputes,      \* bound on totalDisputesRaised
  HashesPrefixed,   \* does hashString answer a hash with its 0x
  NoHash            \* bytes32(0)

ASSUME HashAssumption == NoHash \notin Hashes
\* MIN_RESOLUTION_DELAY and MAX_RESOLUTION_DELAY are themselves accepted.
ASSUME DelayAssumption ==
  /\ Delays \subseteq Nat \ {0}
  /\ \E least, most \in Delays : \A d \in Delays : least <= d /\ d <= most

ResolutionType == {"CONTINUE_SETTLEMENT", "REFUND_BUYER", "PAY_SELLER", "CUSTOM_SPLIT"}

ASSUME TypeAssumption == ResolutionTypes \subseteq ResolutionType

VARIABLES
  status,           \* of the contract
  dispute,          \* _disputes[contractId], and its number among the raised
  totalDisputesRaised,
  resolutionDelay,
  now,
  queued,           \* the ResolutionQueued events: hash, type and dispute
  cancelled,        \* the ResolutionCancelled events: hash and dispute
  executed,         \* the ResolutionExecuted events: hash, dispute, final status
  call              \* the calls of the service

ledger == <<status, dispute, totalDisputesRaised, resolutionDelay, now,
            queued, cancelled, executed>>
vars == <<ledger, call>>

NoCall == [op |-> "none", pc |-> "idle", hash |-> NoHash,
           type |-> "CONTINUE_SETTLEMENT", sentAt |-> 0, executableAt |-> 0,
           finalStatus |-> "none"]

\* The events of the ledger, each with the number of its dispute.
ResolutionQueued(hash, no, type) == [hash |-> hash, no |-> no, type |-> type]
ResolutionExecuted(hash, no, final) == [hash |-> hash, no |-> no, final |-> final]

raised(n) ==
  [active |-> n > 0, no |-> n, resolutionQueued |-> FALSE,
   queuedResolutionHash |-> NoHash, resolutionExecutableAt |-> 0,
   queuedResolutionType |-> "CONTINUE_SETTLEMENT"]

\* A contract that was created and paid in.
Init ==
  /\ status = "FUNDED"
  /\ dispute = raised(0)
  /\ totalDisputesRaised = 0
  /\ resolutionDelay \in Delays
  /\ now = 0
  /\ queued = {} /\ cancelled = {} /\ executed = {}
  /\ call = [k \in Calls |-> NoCall]

finalStatus(type) ==
  IF type \in {"CONTINUE_SETTLEMENT", "PAY_SELLER"} THEN "VERIFIED"
                                                    ELSE "CANCELLED"
-----------------------------------------------------------------------------
(* Transactions of AmantraLedgerV3.                                        *)

_transition(from, to) == ledgerAllows("V3", from, to) /\ status' = to

markVerified ==
  /\ _transition(status, "VERIFIED")
  /\ dispute' = [dispute EXCEPT !.active = FALSE]
  /\ UNCHANGED <<totalDisputesRaised, resolutionDelay, now, queued, cancelled, executed>>

markSettled ==
  /\ _transition(status, "SETTLED")
  /\ UNCHANGED <<dispute, totalDisputesRaised, resolutionDelay, now, queued,
                 cancelled, executed>>

\* By the council; a contract that was paid in is not CREATED any more.
cancelContract ==
  /\ status = "DISPUTED"
  /\ _transition(status, "CANCELLED")
  /\ dispute' = [dispute EXCEPT !.active = FALSE]
  /\ UNCHANGED <<totalDisputesRaised, resolutionDelay, now, queued, cancelled, executed>>

mayRaise == status \in {"FUNDED", "VERIFIED"} /\ ~dispute.active

raiseDispute ==
  /\ totalDisputesRaised < MaxDisputes
  /\ mayRaise
  /\ _transition(status, "DISPUTED")
  /\ totalDisputesRaised' = totalDisputesRaised + 1
  /\ dispute' = raised(totalDisputesRaised')
  /\ UNCHANGED <<resolutionDelay, now, queued, cancelled, executed>>

mayQueue == dispute.active /\ ~dispute.resolutionQueued

queueResolution(hash, type) ==
  /\ mayQueue
  /\ dispute' = [dispute EXCEPT
       !.resolutionQueued = TRUE,
       !.queuedResolutionHash = hash,
       !.resolutionExecutableAt = now + resolutionDelay,
       !.queuedResolutionType = type]
  /\ queued' = queued \cup {ResolutionQueued(hash, dispute.no, type)}
  /\ UNCHANGED <<status, totalDisputesRaised, resolutionDelay, now, cancelled, executed>>

(* Mutant of mayExecute: the hash is taken from the caller unchecked.      *)
mayExecuteAnyHash(hash) ==
  /\ dispute.active /\ dispute.resolutionQueued
  /\ now >= dispute.resolutionExecutableAt

mayExecute(hash) ==
  /\ dispute.active /\ dispute.resolutionQueued
  /\ now >= dispute.resolutionExecutableAt
  /\ dispute.queuedResolutionHash = hash

executeResolution(hash) ==
  LET final == finalStatus(dispute.queuedResolutionType) IN
  /\ mayExecute(hash)
  /\ _transition("DISPUTED", final)
  /\ dispute' = [dispute EXCEPT !.active = FALSE, !.resolutionQueued = FALSE]
  /\ executed' = executed \cup {ResolutionExecuted(hash, dispute.no, final)}
  /\ UNCHANGED <<totalDisputesRaised, resolutionDelay, now, queued, cancelled>>

mayCancel == dispute.resolutionQueued

cancelQueuedResolution ==
  /\ mayCancel
  /\ dispute' = [dispute EXCEPT
       !.resolutionQueued = FALSE,
       !.queuedResolutionHash = NoHash,
       !.resolutionExecutableAt = 0]
  /\ cancelled' = cancelled
       \cup {[hash |-> dispute.queuedResolutionHash, no |-> dispute.no]}
  /\ UNCHANGED <<status, totalDisputesRaised, resolutionDelay, now, queued, executed>>

setResolutionDelay(delay) ==
  /\ resolutionDelay' = delay
  /\ UNCHANGED <<status, dispute, totalDisputesRaised, now, queued, cancelled, executed>>

Tick ==
  /\ now < MaxTime
  /\ now' = now + 1
  /\ UNCHANGED <<status, dispute, totalDisputesRaised, resolutionDelay, queued,
                 cancelled, executed>>

\* The operator, the oracle, the parties with wallets of their own, and the
\* council past the service.
Others ==
  \/ markVerified \/ markSettled \/ cancelContract \/ raiseDispute
  \/ cancelQueuedResolution
  \/ \E delay \in Delays : setResolutionDelay(delay)
  \/ Tick
-----------------------------------------------------------------------------
(* Calls of the service.                                                   *)

Start(k, fields) ==
  /\ call[k].pc = "idle"
  /\ call' = [call EXCEPT ![k] = fields]
  /\ UNCHANGED ledger

begin(op, hash) == [NoCall EXCEPT !.op = op, !.hash = hash, !.pc = "sending"]

\* hashString answers hex digits without 0x, which the encoder of bytes32
\* refuses: the call fails before anything is sent.
RaiseCall(k) ==
  Start(k, [begin("raise", NoHash) EXCEPT
              !.pc = IF HashesPrefixed THEN "sending" ELSE "failed"])

QueueCall(k, type) ==
  \E hash \in Hashes :
    /\ \A j \in Calls : call[j].op = "queue" => call[j].hash # hash
    /\ Start(k, [begin("queue", hash) EXCEPT !.type = type, !.sentAt = now])

CancelCall(k) == Start(k, begin("cancel", NoHash))

\* One read of the dispute; when it fails the answer is null, no dispute.
getDispute == {dispute, raised(0)}

\* The answer of the read is checked before the transaction.
ExecuteCall(k) ==
  \E event \in queued, answer \in getDispute :
    Start(k, [begin("execute", event.hash) EXCEPT
      !.pc = IF /\ answer.resolutionQueued
                /\ now >= answer.resolutionExecutableAt
                /\ answer.queuedResolutionHash = event.hash
             THEN "sending" ELSE "failed"])

transaction(c) ==
  CASE c.op = "raise" -> raiseDispute
    [] c.op = "queue" -> queueResolution(c.hash, c.type)
    [] c.op = "cancel" -> cancelQueuedResolution
    [] c.op = "execute" -> executeResolution(c.hash)

Goto(k, pc) == call' = [call EXCEPT ![k].pc = pc]

\* The transaction is carried out, and its receipt arrives or wait() fails.
Mined(k) ==
  /\ call[k].pc = "sending"
  /\ transaction(call[k])
  /\ \E pc \in {"mined", "failed"} : Goto(k, pc)

\* It reverts, or is not sent for a reason outside: paused, no gas, no node.
NotMined(k) ==
  /\ call[k].pc = "sending"
  /\ Goto(k, "failed")
  /\ UNCHANGED ledger

(* Mutant of executableAtAnswered: from the clock before the transaction.  *)
executableAtAnsweredStale(c) == c.sentAt + resolutionDelay

\* The clock and the delay of after the receipt, not those of the block.
executableAtAnswered(c) == now + resolutionDelay

\* The status is read again after the receipt: whatever became of the contract
\* since the resolution was executed is answered as its outcome.
finalStatusAnswered(c) == IF c.op = "execute" THEN status ELSE "none"

Answer(k) ==
  /\ call[k].pc = "mined"
  /\ call' = [call EXCEPT
       ![k].pc = "answered",
       ![k].sentAt = 0,
       ![k].executableAt = IF call[k].op = "queue"
                           THEN executableAtAnswered(call[k]) ELSE 0,
       ![k].finalStatus = finalStatusAnswered(call[k])]
  /\ UNCHANGED ledger

Next ==
  \/ Others /\ UNCHANGED call
  \/ \E k \in Calls :
       \/ RaiseCall(k)
       \/ \E type \in ResolutionTypes : QueueCall(k, type)
       \/ CancelCall(k)
       \/ ExecuteCall(k)
       \/ Mined(k)
       \/ NotMined(k)
       \/ Answer(k)

Spec == Init /\ [][Next]_vars
=============================================================================
