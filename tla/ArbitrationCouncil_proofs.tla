----------------------- MODULE ArbitrationCouncil_proofs -----------------------
(***************************************************************************)
(* Theorems about ArbitrationCouncil, for all calls, decisions, delays and *)
(* bounds.                                                                 *)
(***************************************************************************)
EXTENDS ArbitrationProperties, TLAPS

\* The two halves of the invariant: what the ledger recorded, what calls are
\* under way.
LedgerTypeOK ==
  /\ status \in LedgerStatuses
  /\ dispute \in Disputes
  /\ totalDisputesRaised \in Nat
  /\ resolutionDelay \in Delays
  /\ now \in Nat
  /\ queued \subseteq [hash : Hashes, no : Nat, type : ResolutionType]
  /\ cancelled \subseteq [hash : Hashes, no : Nat]
  /\ executed \subseteq [hash : Hashes \cup {NoHash}, no : Nat, final : LedgerStatuses]

LedgerInv == LedgerTypeOK /\ waitingIsDecided /\ onlyQueued /\ DecisionBinds

CallInv ==
  /\ call \in [Calls -> CallStates] /\ callsHaveOperations
  /\ documentsDiffer /\ documentsFresh /\ queuedByCalls

LEMMA Halves == IInv <=> LedgerInv /\ CallInv
BY DEF IInv, LedgerInv, CallInv, TypeOK, LedgerTypeOK

LEMMA DelaysAreNat == Delays \subseteq Nat
BY DelayAssumption

LEMMA RaisedIsDispute ==
  ASSUME NEW n \in Nat
  PROVE  raised(n) \in Disputes /\ ~raised(n).resolutionQueued
BY DEF raised, Disputes, ResolutionType

LEMMA FinalIsStatus ==
  ASSUME NEW type
  PROVE  finalStatus(type) \in LedgerStatuses
BY DEF finalStatus, LedgerStatuses

LEMMA NoCallIsCall == NoCall \in CallStates
BY DEF NoCall, CallStates, Operations, ResolutionType

LEMMA InitIInv == Init => IInv
<1> SUFFICES ASSUME Init PROVE IInv
  OBVIOUS
<1>1. LedgerInv
  <2>1. dispute \in Disputes /\ ~dispute.resolutionQueued
    BY RaisedIsDispute DEF Init
  <2>2. LedgerTypeOK
    BY <2>1 DEF Init, LedgerTypeOK, LedgerStatuses
  <2> QED BY <2>1, <2>2 DEF Init, LedgerInv, waitingIsDecided, onlyQueued, DecisionBinds
<1>2. CallInv
  <2>1. call \in [Calls -> CallStates]
    BY NoCallIsCall DEF Init
  <2>2. \A k \in Calls : call[k].op = "none" /\ call[k].pc = "idle"
    BY DEF Init, NoCall
  <2>3. queued = {}
    BY DEF Init
  <2> QED BY <2>1, <2>2, <2>3 DEF CallInv, callsHaveOperations, documentsDiffer, documentsFresh, queuedByCalls
<1> QED BY <1>1, <1>2, Halves
-----------------------------------------------------------------------------
(* The ledger's transactions.                                              *)

\* Transactions that queue, cancel and carry out nothing, and leave the waiting
\* decision waiting or close its dispute's record.
LEMMA RecordsKept ==
  ASSUME LedgerInv, LedgerTypeOK',
         UNCHANGED <<queued, cancelled, executed>>,
         dispute'.resolutionQueued =>
           /\ dispute.resolutionQueued
           /\ dispute'.queuedResolutionHash = dispute.queuedResolutionHash
           /\ dispute'.queuedResolutionType = dispute.queuedResolutionType
           /\ dispute'.no = dispute.no
  PROVE  LedgerInv'
<1>1. waitingIsDecided'
  BY DEF LedgerInv, waitingIsDecided
<1>2. onlyQueued' /\ DecisionBinds'
  BY DEF LedgerInv, onlyQueued, DecisionBinds
<1> QED BY <1>1, <1>2 DEF LedgerInv

LEMMA OthersKeepLedger ==
  ASSUME LedgerInv, Others
  PROVE  LedgerInv' /\ UNCHANGED queued
<1> USE DEF LedgerInv, LedgerTypeOK
<1>1. CASE markVerified \/ cancelContract
  <2>1. status' \in LedgerStatuses
    BY <1>1 DEF markVerified, cancelContract, _transition, LedgerStatuses
  <2>2. dispute' = [dispute EXCEPT !.active = FALSE]
    BY <1>1 DEF markVerified, cancelContract
  <2>3. dispute' \in Disputes
    BY <2>2 DEF Disputes
  <2>4. LedgerTypeOK'
    BY <1>1, <2>1, <2>3 DEF markVerified, cancelContract
  <2>5. UNCHANGED <<queued, cancelled, executed>>
    BY <1>1 DEF markVerified, cancelContract
  <2>6. /\ dispute'.resolutionQueued = dispute.resolutionQueued
        /\ dispute'.queuedResolutionHash = dispute.queuedResolutionHash
        /\ dispute'.queuedResolutionType = dispute.queuedResolutionType
        /\ dispute'.no = dispute.no
    BY <2>2 DEF Disputes
  <2> QED BY <2>4, <2>5, <2>6, RecordsKept
<1>2. CASE markSettled
  <2>1. LedgerTypeOK'
    BY <1>2 DEF markSettled, _transition, LedgerStatuses
  <2> QED BY <1>2, <2>1, RecordsKept DEF markSettled
<1>3. CASE raiseDispute
  <2>1. /\ totalDisputesRaised' \in Nat
        /\ status' \in LedgerStatuses
        /\ dispute' = raised(totalDisputesRaised')
    BY <1>3 DEF raiseDispute, _transition, LedgerStatuses
  <2>2. dispute' \in Disputes /\ ~dispute'.resolutionQueued
    BY <2>1, RaisedIsDispute
  <2>3. UNCHANGED <<resolutionDelay, now, queued, cancelled, executed>>
    BY <1>3 DEF raiseDispute
  <2>4. LedgerTypeOK'
    BY <2>1, <2>2, <2>3
  <2> QED BY <2>2, <2>3, <2>4, RecordsKept
<1>4. CASE cancelQueuedResolution
  <2> DEFINE gone == [hash |-> dispute.queuedResolutionHash, no |-> dispute.no]
  <2>1. /\ dispute.resolutionQueued
        /\ cancelled' = cancelled \cup {gone}
        /\ UNCHANGED <<status, totalDisputesRaised, resolutionDelay, now, queued, executed>>
    BY <1>4 DEF cancelQueuedResolution, mayCancel
  <2>2. dispute' \in Disputes /\ ~dispute'.resolutionQueued
    BY <1>4 DEF cancelQueuedResolution, Disputes
  <2>3. /\ dispute.queuedResolutionHash \in Hashes
        /\ \E q \in queued : q.hash = dispute.queuedResolutionHash
        /\ \A e \in executed : e.hash # dispute.queuedResolutionHash
    BY <2>1 DEF waitingIsDecided
  <2>4. gone \in [hash : Hashes, no : Nat]
    BY <2>3 DEF Disputes
  <2>5. LedgerTypeOK'
    BY <2>1, <2>2, <2>4
  <2>6. waitingIsDecided'
    BY <2>2 DEF waitingIsDecided
  <2>7. onlyQueued'
    BY <2>1, <2>3 DEF onlyQueued
  <2>8. DecisionBinds'
    BY <2>1, <2>3 DEF DecisionBinds
  <2> QED BY <2>1, <2>5, <2>6, <2>7, <2>8
<1>5. CASE \E delay \in Delays : setResolutionDelay(delay)
  <2>1. LedgerTypeOK'
    BY <1>5 DEF setResolutionDelay
  <2> QED BY <1>5, <2>1, RecordsKept DEF setResolutionDelay
<1>6. CASE Tick
  <2>1. LedgerTypeOK'
    BY <1>6 DEF Tick
  <2> QED BY <1>6, <2>1, RecordsKept DEF Tick
<1> QED BY <1>1, <1>2, <1>3, <1>4, <1>5, <1>6 DEF Others

LEMMA QueueKeepsLedger ==
  ASSUME LedgerInv, NEW hash \in Hashes, NEW type \in ResolutionType,
         \A q \in queued : q.hash # hash,
         queueResolution(hash, type)
  PROVE  LedgerInv' /\ \A q \in queued' : q \in queued \/ q.hash = hash
<1> USE DEF LedgerInv, LedgerTypeOK
<1> DEFINE new == ResolutionQueued(hash, dispute.no, type)
<1>1. /\ ~dispute.resolutionQueued
      /\ queued' = queued \cup {new}
      /\ UNCHANGED <<status, totalDisputesRaised, resolutionDelay, now, cancelled, executed>>
  BY DEF queueResolution, mayQueue
<1>2. new \in [hash : Hashes, no : Nat, type : ResolutionType] /\ new.hash = hash
      /\ new.no = dispute.no /\ new.type = type
  BY DEF ResolutionQueued, Disputes
<1>3. now + resolutionDelay \in Nat
  BY DelaysAreNat
<1>4. /\ dispute' \in Disputes
      /\ dispute'.queuedResolutionHash = hash
      /\ dispute'.queuedResolutionType = type
      /\ dispute'.no = dispute.no
  BY <1>3 DEF queueResolution, Disputes
<1>5. LedgerTypeOK'
  BY <1>1, <1>2, <1>4
<1>6. /\ \A c \in cancelled : c.hash # hash
      /\ \A e \in executed : e.hash # hash
  BY DEF onlyQueued
<1>7. waitingIsDecided'
  BY <1>1, <1>2, <1>4, <1>6 DEF waitingIsDecided
<1>8. onlyQueued' /\ DecisionBinds'
  BY <1>1 DEF onlyQueued, DecisionBinds
<1> QED BY <1>1, <1>2, <1>5, <1>7, <1>8

LEMMA ExecuteKeepsLedger ==
  ASSUME LedgerInv, NEW hash \in Hashes \cup {NoHash}, executeResolution(hash)
  PROVE  LedgerInv' /\ UNCHANGED queued
<1> USE DEF LedgerInv, LedgerTypeOK
<1> DEFINE final == finalStatus(dispute.queuedResolutionType)
           new   == ResolutionExecuted(hash, dispute.no, final)
<1>1. /\ dispute.resolutionQueued /\ dispute.queuedResolutionHash = hash
      /\ status' = final
      /\ executed' = executed \cup {new}
      /\ UNCHANGED <<totalDisputesRaised, resolutionDelay, now, queued, cancelled>>
  BY DEF executeResolution, mayExecute, _transition
<1>2. dispute' \in Disputes /\ ~dispute'.resolutionQueued
  BY DEF executeResolution, Disputes
<1>3. /\ new \in [hash : Hashes \cup {NoHash}, no : Nat, final : LedgerStatuses]
      /\ new.hash = hash /\ new.no = dispute.no /\ new.final = final
  BY FinalIsStatus DEF ResolutionExecuted, Disputes
<1>4. LedgerTypeOK'
  BY <1>1, <1>2, <1>3, FinalIsStatus
<1>5. PICK q \in queued : /\ q.hash = hash /\ q.no = dispute.no
                          /\ q.type = dispute.queuedResolutionType
  BY <1>1 DEF waitingIsDecided
<1>6. \A c \in cancelled : c.hash # hash
  BY <1>1 DEF waitingIsDecided
<1>7. waitingIsDecided'
  BY <1>2 DEF waitingIsDecided
<1>8. onlyQueued'
  BY <1>1, <1>3, <1>5 DEF onlyQueued
<1>9. DecisionBinds'
  <2> SUFFICES ASSUME NEW e \in executed'
               PROVE  /\ [hash |-> e.hash, no |-> e.no] \notin cancelled
                      /\ \E r \in queued : /\ r.hash = e.hash /\ r.no = e.no
                                           /\ finalStatus(r.type) = e.final
    BY <1>1 DEF DecisionBinds
  <2>1. CASE e \in executed
    BY <2>1 DEF DecisionBinds
  <2>2. CASE e = new
    <3>1. [hash |-> e.hash, no |-> e.no] \notin cancelled
      BY <1>3, <1>6, <2>2
    <3>2. finalStatus(q.type) = e.final
      BY <1>3, <1>5, <2>2
    <3> QED BY <1>3, <1>5, <2>2, <3>1, <3>2
  <2> QED BY <1>1, <2>1, <2>2
<1> QED BY <1>1, <1>4, <1>7, <1>8, <1>9
-----------------------------------------------------------------------------
(* The calls of the service.                                               *)

LEMMA CallsKept ==
  ASSUME CallInv, UNCHANGED <<call, queued>>
  PROVE  CallInv'
BY DEF CallInv, callsHaveOperations, documentsDiffer, documentsFresh, queuedByCalls

\* A call that starts anything but a queueResolution.
LEMMA StartKeepsCalls ==
  ASSUME CallInv, UNCHANGED queued, NEW k \in Calls, NEW c \in CallStates,
         c.op \notin {"none", "queue"}, call[k].pc = "idle", call' = [call EXCEPT ![k] = c]
  PROVE  CallInv'
<1>1. call' \in [Calls -> CallStates]
  BY DEF CallInv
<1>2. callsHaveOperations' /\ documentsDiffer' /\ documentsFresh'
  BY DEF CallInv, callsHaveOperations, documentsDiffer, documentsFresh
<1>3. queuedByCalls'
  BY DEF CallInv, queuedByCalls
<1> QED BY <1>1, <1>2, <1>3 DEF CallInv

\* A call that goes on: whatever it has queued by then is its own document.
LEMMA StepKeepsCalls ==
  ASSUME CallInv, NEW k \in Calls, NEW c \in CallStates,
         c.op # "none", c.op = call[k].op, c.hash = call[k].hash,
         c.pc \notin {"idle", "sending"},
         call' = [call EXCEPT ![k] = c],
         \A q \in queued' : q \in queued \/ (c.op = "queue" /\ q.hash = c.hash)
  PROVE  CallInv'
<1>1. call' \in [Calls -> CallStates]
  BY DEF CallInv
<1>2. callsHaveOperations' /\ documentsDiffer'
  BY DEF CallInv, callsHaveOperations, documentsDiffer
<1>3. documentsFresh'
  <2> SUFFICES ASSUME NEW j \in Calls, call'[j].op = "queue", call'[j].pc = "sending"
               PROVE  call'[j].hash \in Hashes /\ \A q \in queued' : q.hash # call'[j].hash
    BY DEF documentsFresh
  <2>1. j # k /\ call'[j] = call[j]
    BY DEF CallInv
  <2>2. call[j].hash \in Hashes /\ \A q \in queued : q.hash # call[j].hash
    BY <2>1 DEF CallInv, documentsFresh
  <2>3. c.op = "queue" => c.hash # call[j].hash
    BY <2>1 DEF CallInv, documentsDiffer
  <2> QED BY <2>1, <2>2, <2>3
<1>4. queuedByCalls'
  <2> SUFFICES ASSUME NEW q \in queued'
               PROVE  \E j \in Calls : /\ call'[j].op = "queue" /\ call'[j].pc # "idle"
                                       /\ call'[j].hash = q.hash
    BY DEF queuedByCalls
  <2>1. CASE q \in queued
    <3>1. PICK j \in Calls : call[j].op = "queue" /\ call[j].pc # "idle"
                             /\ call[j].hash = q.hash
      BY <2>1 DEF CallInv, queuedByCalls
    <3>2. call'[j].op = "queue" /\ call'[j].pc # "idle" /\ call'[j].hash = q.hash
      BY <3>1 DEF CallInv
    <3> QED BY <3>2
  <2>2. CASE c.op = "queue" /\ q.hash = c.hash
    <3>1. call'[k] = c
      BY DEF CallInv
    <3> QED BY <2>2, <3>1
  <2> QED BY <2>1, <2>2
<1> QED BY <1>1, <1>2, <1>3, <1>4 DEF CallInv

LEMMA BeginIsCall ==
  ASSUME NEW op \in Operations, NEW hash \in Hashes \cup {NoHash}
  PROVE  begin(op, hash) \in CallStates /\ begin(op, hash).op = op
         /\ begin(op, hash).hash = hash /\ begin(op, hash).pc = "sending"
BY NoCallIsCall DEF begin, CallStates

LEMMA QueueCallKeepsCalls ==
  ASSUME LedgerInv, CallInv, NEW k \in Calls, NEW type \in ResolutionTypes,
         QueueCall(k, type)
  PROVE  CallInv' /\ UNCHANGED ledger
<1>1. PICK hash \in Hashes :
        /\ \A j \in Calls : call[j].op = "queue" => call[j].hash # hash
        /\ Start(k, [begin("queue", hash) EXCEPT !.type = type, !.sentAt = now])
  BY DEF QueueCall
<1> DEFINE b == begin("queue", hash)
           c == [b EXCEPT !.type = type, !.sentAt = now]
<1>2. call[k].pc = "idle" /\ call' = [call EXCEPT ![k] = c] /\ UNCHANGED ledger
  BY <1>1 DEF Start
<1>3. c \in CallStates /\ c.op = "queue" /\ c.hash = hash
  <2>1. b \in CallStates /\ b.op = "queue" /\ b.hash = hash
    BY BeginIsCall DEF Operations
  <2>2. type \in ResolutionType /\ now \in Nat
    BY TypeAssumption DEF LedgerInv, LedgerTypeOK
  <2> HIDE DEF b
  <2> QED BY <2>1, <2>2 DEF CallStates
<1>4. call' \in [Calls -> CallStates] /\ UNCHANGED queued
  BY <1>2, <1>3 DEF CallInv, ledger
<1> HIDE DEF c
<1>5. \A q \in queued : q.hash # hash
  BY <1>1 DEF CallInv, queuedByCalls
<1>6. callsHaveOperations' /\ documentsDiffer'
  BY <1>1, <1>2, <1>3 DEF CallInv, callsHaveOperations, documentsDiffer
<1>7. documentsFresh'
  BY <1>2, <1>3, <1>4, <1>5 DEF CallInv, documentsFresh
<1>8. queuedByCalls'
  BY <1>2, <1>4 DEF CallInv, queuedByCalls
<1> QED BY <1>2, <1>4, <1>6, <1>7, <1>8 DEF CallInv

LEMMA OtherCallsKeepCalls ==
  ASSUME LedgerInv, CallInv, NEW k \in Calls,
         RaiseCall(k) \/ CancelCall(k) \/ ExecuteCall(k)
  PROVE  CallInv' /\ UNCHANGED ledger
<1>1. PICK c \in CallStates :
        c.op \notin {"none", "queue"} /\ call[k].pc = "idle" /\ call' = [call EXCEPT ![k] = c]
        /\ UNCHANGED ledger
  <2>1. CASE RaiseCall(k)
    <3> DEFINE c == [begin("raise", NoHash) EXCEPT
                       !.pc = IF HashesPrefixed THEN "sending" ELSE "failed"]
    <3>1. c \in CallStates /\ c.op = "raise"
      BY BeginIsCall DEF Operations, CallStates
    <3> QED BY <2>1, <3>1 DEF RaiseCall, Start
  <2>2. CASE CancelCall(k)
    BY <2>2, BeginIsCall DEF CancelCall, Start, Operations
  <2>3. CASE ExecuteCall(k)
    <3>1. PICK event \in queued, answer \in getDispute :
            Start(k, [begin("execute", event.hash) EXCEPT
              !.pc = IF /\ answer.resolutionQueued
                        /\ now >= answer.resolutionExecutableAt
                        /\ answer.queuedResolutionHash = event.hash
                     THEN "sending" ELSE "failed"])
      BY <2>3 DEF ExecuteCall
    <3>2. event.hash \in Hashes
      BY DEF LedgerInv, LedgerTypeOK
    <3> DEFINE b == begin("execute", event.hash)
               c == [b EXCEPT
                       !.pc = IF /\ answer.resolutionQueued
                                 /\ now >= answer.resolutionExecutableAt
                                 /\ answer.queuedResolutionHash = event.hash
                              THEN "sending" ELSE "failed"]
    <3>3. b \in CallStates /\ b.op = "execute"
      BY <3>2, BeginIsCall DEF Operations
    <3>4. c \in CallStates /\ c.op = "execute"
      <4> HIDE DEF b
      <4> QED BY <3>3 DEF CallStates
    <3> QED BY <3>1, <3>4 DEF Start
  <2> QED BY <2>1, <2>2, <2>3
<1> QED BY <1>1, StartKeepsCalls DEF ledger
-----------------------------------------------------------------------------
LEMMA MinedKeepsIInv ==
  ASSUME LedgerInv, CallInv, NEW k \in Calls, Mined(k)
  PROVE  LedgerInv' /\ CallInv'
<1>1. /\ call[k] \in CallStates /\ call[k].pc = "sending"
      /\ transaction(call[k])
  BY DEF Mined, CallInv
<1> call[k].op # "none"
  BY <1>1 DEF CallInv, callsHaveOperations
<1>2. PICK pc \in {"mined", "failed"} : call' = [call EXCEPT ![k].pc = pc]
  BY DEF Mined, Goto
<1> DEFINE c == [call[k] EXCEPT !.pc = pc]
<1>3. /\ c \in CallStates /\ c.op = call[k].op /\ c.hash = call[k].hash
      /\ c.pc \notin {"idle", "sending"} /\ call' = [call EXCEPT ![k] = c]
  BY <1>1, <1>2 DEF CallStates
<1> HIDE DEF c
<1>4. LedgerInv' /\ \A q \in queued' : q \in queued \/ (c.op = "queue" /\ q.hash = c.hash)
  <2>1. CASE call[k].op = "raise"
    BY <1>1, <2>1, OthersKeepLedger DEF transaction, Others
  <2>2. CASE call[k].op = "queue"
    <3>1. queueResolution(call[k].hash, call[k].type) /\ call[k].type \in ResolutionType
      BY <1>1, <2>2 DEF transaction, CallStates
    <3>2. call[k].hash \in Hashes /\ \A q \in queued : q.hash # call[k].hash
      BY <1>1, <2>2 DEF CallInv, documentsFresh
    <3> QED BY <1>3, <2>2, <3>1, <3>2, QueueKeepsLedger
  <2>3. CASE call[k].op = "cancel"
    BY <1>1, <2>3, OthersKeepLedger DEF transaction, Others
  <2>4. CASE call[k].op = "execute"
    <3>1. executeResolution(call[k].hash) /\ call[k].hash \in Hashes \cup {NoHash}
      BY <1>1, <2>4 DEF transaction, CallStates
    <3> QED BY <3>1, ExecuteKeepsLedger
  <2> QED BY <1>1, <2>1, <2>2, <2>3, <2>4 DEF CallStates, Operations
<1> QED BY <1>3, <1>4, StepKeepsCalls

LEMMA NotMinedKeepsCalls ==
  ASSUME CallInv, NEW k \in Calls, NotMined(k)
  PROVE  CallInv' /\ UNCHANGED ledger
<1>1. /\ call[k] \in CallStates /\ call[k].pc = "sending" /\ call[k].op # "none"
      /\ call' = [call EXCEPT ![k].pc = "failed"] /\ UNCHANGED ledger
  BY DEF NotMined, Goto, CallInv, callsHaveOperations
<1> DEFINE c == [call[k] EXCEPT !.pc = "failed"]
<1>2. /\ c \in CallStates /\ c.op = call[k].op /\ c.hash = call[k].hash
      /\ c.pc = "failed" /\ call' = [call EXCEPT ![k] = c]
  BY <1>1 DEF CallStates
<1> HIDE DEF c
<1> QED BY <1>1, <1>2, StepKeepsCalls DEF ledger

LEMMA AnswerKeepsCalls ==
  ASSUME LedgerInv, CallInv, NEW k \in Calls, Answer(k)
  PROVE  CallInv' /\ UNCHANGED ledger
<1> DEFINE at == IF call[k].op = "queue" THEN executableAtAnswered(call[k]) ELSE 0
           final == finalStatusAnswered(call[k])
           c == [call[k] EXCEPT !.pc = "answered", !.sentAt = 0,
                                !.executableAt = at, !.finalStatus = final]
<1>1. /\ call[k] \in CallStates /\ call[k].pc = "mined" /\ call[k].op # "none"
      /\ call' = [call EXCEPT ![k] = c] /\ UNCHANGED ledger
  BY DEF Answer, CallInv, callsHaveOperations
<1>2. at \in Nat /\ final \in LedgerStatuses \cup {"none"}
  BY DelaysAreNat DEF LedgerInv, LedgerTypeOK, executableAtAnswered, finalStatusAnswered
<1> HIDE DEF at, final
<1>3. /\ c \in CallStates /\ c.op = call[k].op /\ c.hash = call[k].hash
      /\ c.pc = "answered"
  BY <1>1, <1>2 DEF CallStates
<1> HIDE DEF c
<1> QED BY <1>1, <1>3, StepKeepsCalls DEF ledger

LEMMA LedgerUnchanged ==
  ASSUME LedgerInv, UNCHANGED ledger
  PROVE  LedgerInv'
<1>1. LedgerTypeOK'
  BY DEF LedgerInv, LedgerTypeOK, ledger
<1> QED BY <1>1, RecordsKept DEF ledger

LEMMA NextKeepsIInv == IInv /\ [Next]_vars => IInv'
<1> SUFFICES ASSUME LedgerInv, CallInv, [Next]_vars
             PROVE  LedgerInv' /\ CallInv'
  BY DEF IInv, LedgerInv, CallInv, TypeOK, LedgerTypeOK
<1>1. CASE Others /\ UNCHANGED call
  BY <1>1, OthersKeepLedger, CallsKept
<1>2. ASSUME NEW k \in Calls,
             RaiseCall(k) \/ CancelCall(k) \/ ExecuteCall(k)
      PROVE  LedgerInv' /\ CallInv'
  BY <1>2, OtherCallsKeepCalls, LedgerUnchanged
<1>3. ASSUME NEW k \in Calls, NEW type \in ResolutionTypes, QueueCall(k, type)
      PROVE  LedgerInv' /\ CallInv'
  BY <1>3, QueueCallKeepsCalls, LedgerUnchanged
<1>4. ASSUME NEW k \in Calls, Mined(k)
      PROVE  LedgerInv' /\ CallInv'
  BY <1>4, MinedKeepsIInv
<1>5. ASSUME NEW k \in Calls, NotMined(k)
      PROVE  LedgerInv' /\ CallInv'
  BY <1>5, NotMinedKeepsCalls, LedgerUnchanged
<1>6. ASSUME NEW k \in Calls, Answer(k)
      PROVE  LedgerInv' /\ CallInv'
  BY <1>6, AnswerKeepsCalls, LedgerUnchanged
<1>7. CASE UNCHANGED vars
  BY <1>7, LedgerUnchanged, CallsKept DEF vars, ledger
<1> QED BY <1>1, <1>2, <1>3, <1>4, <1>5, <1>6, <1>7 DEF Next

(* The parts of the invariant hold in every state: the records of the      *)
(* ledger and of the calls have their types, no two calls queue the same   *)
(* document, and the decision that waits on the ledger is one of the       *)
(* dispute at hand that was neither cancelled nor carried out.             *)
THEOREM DecisionsRecorded == Spec => []IInv
BY InitIInv, NextKeepsIInv, PTL DEF Spec

(* Whatever is carried out was queued in its own dispute, with that        *)
(* outcome, and was not cancelled: however many calls are under way and    *)
(* however the council, the operator and the parties interleave with them. *)
THEOREM DecisionsBind == Spec => []DecisionBinds
<1>1. IInv => DecisionBinds
  BY DEF IInv
<1> QED BY <1>1, DecisionsRecorded, PTL
-----------------------------------------------------------------------------
(* The time a call of queueResolution answers.                             *)

(* The shortest and the longest delay, as the bounds of setResolutionDelay *)
(* (AmantraLedgerV3.sol:1161).                                             *)
LEMMA DelaysAreBounded ==
  /\ longest \in Nat /\ shortest \in Nat
  /\ \A d \in Delays : shortest <= d /\ d <= longest
<1>1. \E d \in Delays : \A x \in Delays : x <= d
  BY DelayAssumption
<1>2. \E d \in Delays : \A x \in Delays : x >= d
  BY DelayAssumption
<1>3. longest \in Delays /\ \A x \in Delays : x <= longest
  BY <1>1 DEF longest
<1>4. shortest \in Delays /\ \A x \in Delays : x >= shortest
  BY <1>2 DEF shortest
<1> QED BY <1>3, <1>4, DelaysAreNat

\* A waiting resolution waits no longer than the longest delay from now.
waitIsBounded ==
  dispute.resolutionQueued => dispute.resolutionExecutableAt <= now + longest

\* A step of the ledger that queues nothing leaves the waiting resolution as it
\* is, or takes it off.
waitingKept ==
  dispute'.resolutionQueued =>
    /\ dispute.resolutionQueued
    /\ dispute'.queuedResolutionHash = dispute.queuedResolutionHash
    /\ dispute'.resolutionExecutableAt = dispute.resolutionExecutableAt

LEMMA OthersKeepWaiting ==
  ASSUME LedgerInv,
         Others \/ (\E hash : executeResolution(hash)) \/ UNCHANGED ledger
  PROVE  waitingKept /\ now' \in Nat /\ now <= now'
<1> USE DEF LedgerInv, LedgerTypeOK, waitingKept
<1>1. CASE markVerified \/ cancelContract
  <2>1. dispute' = [dispute EXCEPT !.active = FALSE] /\ UNCHANGED now
    BY <1>1 DEF markVerified, cancelContract
  <2> QED BY <2>1 DEF Disputes
<1>2. CASE markSettled \/ Tick \/ \E delay \in Delays : setResolutionDelay(delay)
  BY <1>2 DEF markSettled, Tick, setResolutionDelay
<1>3. CASE raiseDispute
  BY <1>3 DEF raiseDispute, raised
<1>4. CASE cancelQueuedResolution
  BY <1>4 DEF cancelQueuedResolution, Disputes
<1>5. ASSUME NEW hash, executeResolution(hash)
      PROVE  waitingKept /\ now' \in Nat /\ now <= now'
  <2>1. /\ dispute' = [dispute EXCEPT !.active = FALSE, !.resolutionQueued = FALSE]
        /\ UNCHANGED now
    BY <1>5 DEF executeResolution
  <2>2. ~dispute'.resolutionQueued
    BY <2>1 DEF Disputes
  <2> QED BY <2>1, <2>2
<1>6. CASE UNCHANGED ledger
  BY <1>6 DEF ledger
<1> QED BY <1>1, <1>2, <1>3, <1>4, <1>5, <1>6 DEF Others

LEMMA WaitStaysBounded ==
  ASSUME LedgerInv, waitIsBounded, waitingKept, now' \in Nat, now <= now'
  PROVE  waitIsBounded'
<1> SUFFICES ASSUME dispute'.resolutionQueued
             PROVE  dispute'.resolutionExecutableAt <= now' + longest
  BY DEF waitIsBounded
<1>1. /\ dispute.resolutionExecutableAt <= now + longest
      /\ dispute'.resolutionExecutableAt = dispute.resolutionExecutableAt
  BY DEF waitIsBounded, waitingKept
<1>2. dispute.resolutionExecutableAt \in Nat /\ now \in Nat
  BY DEF LedgerInv, LedgerTypeOK, Disputes
<1> QED BY <1>1, <1>2, DelaysAreBounded

\* No other call has answered, or will answer, for the document that k queues.
LEMMA QueueKeepsAnswers ==
  ASSUME LedgerInv, CallInv, waitIsBounded, AnsweredTimeHolds,
         NEW k \in Calls, NEW pc \in {"mined", "failed"},
         call[k].op = "queue", queueResolution(call[k].hash, call[k].type),
         call' = [call EXCEPT ![k].pc = pc]
  PROVE  waitIsBounded' /\ AnsweredTimeHolds'
<1>1. /\ dispute'.resolutionExecutableAt = now + resolutionDelay
      /\ dispute'.queuedResolutionHash = call[k].hash
      /\ UNCHANGED now
  BY DEF queueResolution, LedgerInv, LedgerTypeOK, Disputes
<1>2. waitIsBounded'
  BY <1>1, DelaysAreBounded, DelaysAreNat
     DEF waitIsBounded, LedgerInv, LedgerTypeOK
<1>3. AnsweredTimeHolds'
  <2> SUFFICES ASSUME NEW j \in Calls, call'[j].op = "queue", call'[j].pc = "answered",
                      dispute'.queuedResolutionHash = call'[j].hash
               PROVE  FALSE
    BY DEF AnsweredTimeHolds
  <2>1. call'[k].pc = pc
    BY DEF CallInv, CallStates
  <2>2. j # k /\ call'[j] = call[j]
    BY <2>1 DEF CallInv
  <2> QED BY <1>1, <2>2 DEF CallInv, documentsDiffer
<1> QED BY <1>2, <1>3

\* Everything else leaves the answers that were given, and what they are about.
LEMMA AnswersKept ==
  ASSUME AnsweredTimeHolds, waitingKept,
         \A j \in Calls : call'[j].op = "queue" /\ call'[j].pc = "answered" =>
           call'[j] = call[j]
  PROVE  AnsweredTimeHolds'
BY DEF AnsweredTimeHolds, waitingKept

LEMMA AnswerIsInTime ==
  ASSUME LedgerInv, CallInv, waitIsBounded, AnsweredTimeHolds,
         NEW k \in Calls, Answer(k)
  PROVE  AnsweredTimeHolds'
<1>1. UNCHANGED ledger
  BY DEF Answer
<1> SUFFICES ASSUME NEW j \in Calls, call'[j].op = "queue", call'[j].pc = "answered",
                    dispute.resolutionQueued,
                    dispute.queuedResolutionHash = call'[j].hash
             PROVE  call'[j].executableAt + (longest - shortest)
                      >= dispute.resolutionExecutableAt
  BY <1>1 DEF AnsweredTimeHolds, ledger
<1>2. CASE j # k
  <2>1. call'[j] = call[j]
    BY <1>2 DEF Answer, CallInv
  <2> QED BY <2>1 DEF AnsweredTimeHolds
<1>3. CASE j = k
  <2>1. call[k].op = "queue"
    BY <1>3 DEF Answer, CallInv, CallStates
  <2>2. call'[k].executableAt = now + resolutionDelay
    BY <2>1 DEF Answer, executableAtAnswered, CallInv, CallStates
  <2>3. /\ dispute.resolutionExecutableAt \in Nat /\ now \in Nat
        /\ resolutionDelay \in Nat /\ shortest <= resolutionDelay
    BY DelaysAreBounded, DelaysAreNat DEF LedgerInv, LedgerTypeOK, Disputes
  <2>4. dispute.resolutionExecutableAt <= now + longest
    BY DEF waitIsBounded
  <2> QED BY <1>3, <2>2, <2>3, <2>4, DelaysAreBounded
<1> QED BY <1>2, <1>3

LEMMA MinedKeepsAnswers ==
  ASSUME LedgerInv, CallInv, waitIsBounded, AnsweredTimeHolds,
         NEW k \in Calls, Mined(k)
  PROVE  waitIsBounded' /\ AnsweredTimeHolds'
<1>1. /\ call[k] \in CallStates /\ call[k].pc = "sending" /\ call[k].op # "none"
      /\ transaction(call[k])
  BY DEF Mined, CallInv, callsHaveOperations
<1>2. PICK pc \in {"mined", "failed"} : call' = [call EXCEPT ![k].pc = pc]
  BY DEF Mined, Goto
<1>3. CASE call[k].op = "queue"
  BY <1>1, <1>2, <1>3, QueueKeepsAnswers DEF transaction
<1>4. CASE call[k].op # "queue"
  <2>1. Others \/ \E hash : executeResolution(hash)
    BY <1>1, <1>4 DEF transaction, Others, CallStates, Operations
  <2>2. waitingKept /\ now' \in Nat /\ now <= now'
    BY <2>1, OthersKeepWaiting
  <2>3. \A j \in Calls : call'[j].pc = "answered" => call'[j] = call[j]
    BY <1>2 DEF CallInv, CallStates
  <2> QED BY <2>2, <2>3, WaitStaysBounded, AnswersKept
<1> QED BY <1>3, <1>4

LEMMA NextKeepsAnswers ==
  ASSUME IInv, waitIsBounded, AnsweredTimeHolds, [Next]_vars
  PROVE  waitIsBounded' /\ AnsweredTimeHolds'
<1> LedgerInv /\ CallInv
  BY Halves
<1>1. CASE (Others /\ UNCHANGED call) \/ UNCHANGED vars
  BY <1>1, OthersKeepWaiting, WaitStaysBounded, AnswersKept DEF vars
<1>2. ASSUME NEW k \in Calls, NEW c, c.pc # "answered",
             call' = [call EXCEPT ![k] = c], UNCHANGED ledger
      PROVE  waitIsBounded' /\ AnsweredTimeHolds'
  <2>1. \A j \in Calls : call'[j].pc = "answered" => call'[j] = call[j]
    BY <1>2 DEF CallInv
  <2> QED BY <1>2, <2>1, OthersKeepWaiting, WaitStaysBounded, AnswersKept
<1>3. ASSUME NEW k \in Calls,
             \/ RaiseCall(k) \/ CancelCall(k) \/ ExecuteCall(k)
             \/ \E type \in ResolutionTypes : QueueCall(k, type)
      PROVE  waitIsBounded' /\ AnsweredTimeHolds'
  <2>1. CASE RaiseCall(k)
    BY <1>2, <2>1 DEF RaiseCall, Start, begin, NoCall
  <2>2. CASE CancelCall(k)
    BY <1>2, <2>2 DEF CancelCall, Start, begin, NoCall
  <2>3. CASE ExecuteCall(k)
    BY <1>2, <2>3 DEF ExecuteCall, Start, begin, NoCall
  <2>4. CASE \E type \in ResolutionTypes : QueueCall(k, type)
    BY <1>2, <2>4 DEF QueueCall, Start, begin, NoCall
  <2> QED BY <1>3, <2>1, <2>2, <2>3, <2>4
<1>4. ASSUME NEW k \in Calls, NotMined(k)
      PROVE  waitIsBounded' /\ AnsweredTimeHolds'
  <2>1. \A j \in Calls : call'[j].pc = "answered" => call'[j] = call[j]
    BY <1>4 DEF NotMined, Goto, CallInv, CallStates
  <2> QED BY <1>4, <2>1, OthersKeepWaiting, WaitStaysBounded, AnswersKept DEF NotMined
<1>5. ASSUME NEW k \in Calls, Mined(k)
      PROVE  waitIsBounded' /\ AnsweredTimeHolds'
  BY <1>5, MinedKeepsAnswers
<1>6. ASSUME NEW k \in Calls, Answer(k)
      PROVE  waitIsBounded' /\ AnsweredTimeHolds'
  BY <1>6, AnswerIsInTime, OthersKeepWaiting, WaitStaysBounded DEF Answer
<1> QED BY <1>1, <1>3, <1>4, <1>5, <1>6 DEF Next

(* The time that queueResolution answers is early by no more than the      *)
(* council may have lowered the delay while the call waited, whatever the  *)
(* clock and the calls beside it did meanwhile.                            *)
THEOREM AnsweredTimesHold == Spec => []AnsweredTimeHolds
<1> DEFINE Both == IInv /\ waitIsBounded /\ AnsweredTimeHolds
<1>1. Init => Both
  <2> SUFFICES ASSUME Init PROVE waitIsBounded /\ AnsweredTimeHolds
    BY InitIInv
  <2>1. ~dispute.resolutionQueued
    BY RaisedIsDispute DEF Init
  <2> QED BY <2>1 DEF waitIsBounded, AnsweredTimeHolds
<1>2. Both /\ [Next]_vars => Both'
  BY NextKeepsIInv, NextKeepsAnswers
<1>3. Both => AnsweredTimeHolds
  OBVIOUS
<1> QED BY <1>1, <1>2, <1>3, PTL DEF Spec
=============================================================================
