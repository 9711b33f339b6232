------------------------- MODULE ArbitrationProperties -------------------------
(***************************************************************************)
(* What the council's decisions and the service's answers are worth.       *)
(***************************************************************************)
EXTENDS ArbitrationCouncil

(* Only a decision that was queued in the dispute at hand, and was not     *)
(* cancelled, is carried out, and with the outcome it was queued for:      *)
(* however long an executeResolution was under way while the council       *)
(* cancelled that decision, took another, or the dispute was closed and a  *)
(* new one raised.                                                         *)
DecisionBinds ==
  \A e \in executed :
    /\ [hash |-> e.hash, no |-> e.no] \notin cancelled
    /\ \E q \in queued :
         /\ q.hash = e.hash /\ q.no = e.no
         /\ finalStatus(q.type) = e.final

longest == CHOOSE d \in Delays : \A x \in Delays : x <= d
shortest == CHOOSE d \in Delays : \A x \in Delays : x >= d

(* The time queueResolution answers, computed from its own clock and from  *)
(* the delay at the time of the answer, is early by no more than the delay *)
(* may have been lowered since the decision was recorded.                  *)
AnsweredTimeHolds ==
  \A k \in Calls :
    /\ call[k].op = "queue" /\ call[k].pc = "answered"
    /\ dispute.resolutionQueued /\ dispute.queuedResolutionHash = call[k].hash
    => call[k].executableAt + (longest - shortest) >= dispute.resolutionExecutableAt
-----------------------------------------------------------------------------
(* What DecisionBinds rests on.                                            *)

Disputes ==
  [active : BOOLEAN, no : Nat, resolutionQueued : BOOLEAN,
   queuedResolutionHash : Hashes \cup {NoHash}, resolutionExecutableAt : Nat,
   queuedResolutionType : ResolutionType]

Operations == {"none", "raise", "queue", "cancel", "execute"}

CallStates ==
  [op : Operations, pc : {"idle", "sending", "mined", "failed", "answered"},
   hash : Hashes \cup {NoHash}, type : ResolutionType, sentAt : Nat,
   executableAt : Nat, finalStatus : LedgerStatuses \cup {"none"}]

TypeOK ==
  /\ status \in LedgerStatuses
  /\ dispute \in Disputes
  /\ totalDisputesRaised \in Nat
  /\ resolutionDelay \in Delays
  /\ now \in Nat
  /\ queued \subseteq [hash : Hashes, no : Nat, type : ResolutionType]
  /\ cancelled \subseteq [hash : Hashes, no : Nat]
  /\ executed \subseteq [hash : Hashes \cup {NoHash}, no : Nat, final : LedgerStatuses]
  /\ call \in [Calls -> CallStates]

\* No two calls queue the same document.
documentsDiffer ==
  \A j, k \in Calls :
    call[j].op = "queue" /\ call[k].op = "queue" /\ call[j].hash = call[k].hash => j = k

\* What a call is about to queue was never queued.
documentsFresh ==
  \A k \in Calls : call[k].op = "queue" /\ call[k].pc = "sending" =>
    call[k].hash \in Hashes /\ \A q \in queued : q.hash # call[k].hash

callsHaveOperations == \A k \in Calls : call[k].op = "none" => call[k].pc = "idle"

\* What is on the ledger was queued by a call that began.
queuedByCalls ==
  \A q \in queued : \E k \in Calls :
    call[k].op = "queue" /\ call[k].pc # "idle" /\ call[k].hash = q.hash

\* The decision that waits on the ledger was queued in this dispute, was not
\* cancelled in it, and was not carried out before.
waitingIsDecided ==
  dispute.resolutionQueued =>
    /\ dispute.queuedResolutionHash \in Hashes
    /\ \E q \in queued :
         /\ q.hash = dispute.queuedResolutionHash /\ q.no = dispute.no
         /\ q.type = dispute.queuedResolutionType
    /\ \A c \in cancelled : c.hash # dispute.queuedResolutionHash
    /\ \A e \in executed : e.hash # dispute.queuedResolutionHash

\* Nothing is cancelled or carried out that was not queued.
onlyQueued ==
  /\ \A c \in cancelled : \E q \in queued : q.hash = c.hash
  /\ \A e \in executed : \E q \in queued : q.hash = e.hash

IInv == TypeOK /\ callsHaveOperations /\ documentsDiffer /\ documentsFresh
          /\ queuedByCalls /\ waitingIsDecided /\ onlyQueued /\ DecisionBinds
=============================================================================
