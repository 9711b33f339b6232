----------------------- MODULE SettlementFlow_proofs -----------------------
(***************************************************************************)
(* Proofs, for every number of handlers, polls, disputes, retries and      *)
(* restarts, for every set of faults and every choice of the options of    *)
(* SettlementFlow, of its safety invariants and of its refinement of       *)
(* SettlementPromise; and that the reconciliation job beside the flow      *)
(* keeps them and raises no false alarm.                                   *)
(*                                                                         *)
(* The invariants are parts of IInv, which is inductive.  Each action is   *)
(* shown to preserve IInv; what the actions do to the status and to the    *)
(* account is first put into lemmas about canStore and about the methods   *)
(* of the EscrowAccount entity.                                            *)
(***************************************************************************)
EXTENDS ReconciliationProperties, TLAPS

-----------------------------------------------------------------------------
(* The status machine and the account.                                     *)

(* What a save that does not throw says about the two statuses.            *)
LEMMA StoreFacts ==
  ASSUME NEW from, NEW to, canStore(from, to)
  PROVE  /\ from \in Statuses /\ to \in Statuses
         /\ from \notin {Absent, "COMPLETED", "CANCELLED"}
         /\ to # Absent
         /\ to = "BANK_SUCCESS" => from = "BANK_PENDING"
         /\ to = "BANK_PENDING" => from = "ESCROW_LOCKED"
         /\ to = "BANK_FAILED" => from = "BANK_PENDING"
         /\ to = "BLOCKCHAIN_FAILED" => from = "BLOCKCHAIN_PENDING"
         /\ to = "COMPLETED" => from = "BLOCKCHAIN_PENDING"
         /\ to = "FROZEN_BY_DISPUTE" =>
              from \notin {"FROZEN_BY_DISPUTE", "BLOCKED_BY_STATE_CHANGE"}
BY SMT DEF canStore, isValidTransition, SETTLEMENT_TRANSITIONS, Statuses, Absent

(* Freezing leaves the balance alone and freezes what was asked for.       *)
LEMMA FreezeFacts ==
  ASSUME NEW a, NEW n \in Nat, Sound(a), n <= availableBalance(a)
  PROVE  /\ Sound(freezeFunds(a, n))
         /\ freezeFunds(a, n).balance = a.balance
         /\ freezeFunds(a, n).frozen = a.frozen + n
BY DEF Sound, Accounts, EscrowAccountStatuses, availableBalance, freezeFunds

(* Unfreezing leaves the balance alone.                                    *)
LEMMA UnfreezeFacts ==
  ASSUME NEW a, NEW n \in Nat, Sound(a), canUnfreeze(a, n)
  PROVE  /\ Sound(unfreezeFunds(a, n))
         /\ unfreezeFunds(a, n).balance = a.balance
BY DEF Sound, Accounts, EscrowAccountStatuses, canUnfreeze, unfreezeFunds

(* A debit takes the amount off the balance and keeps the row sound.       *)
LEMMA DebitFacts ==
  ASSUME NEW a, NEW n \in Nat, Sound(a), canDebit(a, n)
  PROVE  /\ Sound(debit(a, n))
         /\ debit(a, n).balance = a.balance - n
BY DEF Sound, Accounts, EscrowAccountStatuses, canDebit, availableBalance,
       debit, lesser

(* All that is available can always be frozen.                             *)
LEMMA FreezeAvailableFacts ==
  ASSUME NEW a, Sound(a)
  PROVE  /\ Sound(freezeFunds(a, availableBalance(a)))
         /\ freezeFunds(a, availableBalance(a)).balance = a.balance
         /\ freezeFunds(a, availableBalance(a)).frozen >= a.frozen
<1>1. availableBalance(a) \in Nat /\ a.frozen \in Nat
  BY DEF Sound, Accounts, availableBalance
<1> QED
  BY <1>1, FreezeFacts

-----------------------------------------------------------------------------
(* The inductive invariant.                                                *)

(* The initial state: no settlement row, free locks, nothing paid.         *)
LEMMA InitHolds == Init => IInv
<1> SUFFICES ASSUME Init PROVE IInv
    OBVIOUS
<1> USE ProcsAssumption, AmountsAssumption, BoundsAssumption DEF Init
<1>1. TypeOK
  BY OptionsAssumption
     DEF TypeOK, Statuses, Absent, Accounts, EscrowAccountStatuses, NoPoll,
         HandlerLabels, PollerLabels, MadeUpLabels, CallbackStatuses, LedgerStatuses, Procs
<1>2. LockDiscipline
  BY DEF LockDiscipline, Procs
<1>3. Phases
  BY DEF Phases, Absent, Procs
<1>4. Money
  BY DEF Money, EscrowSound, Sound, Accounts, EscrowAccountStatuses, Absent
<1>5. BankBeforeChain /\ CompletedIsPaidAndBooked
  BY DEF BankBeforeChain, CompletedIsPaidAndBooked, Absent
<1> QED
  BY <1>1, <1>2, <1>3, <1>4, <1>5 DEF IInv

-----------------------------------------------------------------------------
(* What several actions have in common.                                    *)

(* Moving a poll on to its next event keeps its locals typed.              *)
LEMMA NextEventTyped ==
  ASSUME NEW p \in Pollers, NextEvent(p),
         poll \in [Pollers -> [upto : Nat, event : Nat, froze : BOOLEAN]]
  PROVE  poll' \in [Pollers -> [upto : Nat, event : Nat, froze : BOOLEAN]]
<1>1. /\ poll[p].upto \in Nat /\ poll[p].event + 1 \in Nat
      /\ poll' = [poll EXCEPT ![p] = [upto |-> poll[p].upto,
                                      event |-> poll[p].event + 1,
                                      froze |-> FALSE]]
  BY DEF NextEvent
<1> QED
  BY <1>1

(* A dispute that is rolled back changes only where its poll is.           *)
LEMMA DisputeRollbackKeeps ==
  ASSUME IInv, NEW p \in Pollers, DisputeRollback(p)
  PROVE  IInv'
<1> USE ProcsAssumption
    DEF DisputeRollback, IInv, Goto, Release, row, bank, ledger, listener
<1>1. TypeOK'
  BY NextEventTyped DEF TypeOK, PollerLabels, HandlerLabels, MadeUpLabels, Procs
<1>2. LockDiscipline'
  BY DEF LockDiscipline, TypeOK, Procs
<1>3. Phases' /\ Money'
  BY DEF Phases, Money, EscrowSound, TypeOK, Procs
<1>4. BankBeforeChain' /\ CompletedIsPaidAndBooked'
  BY DEF BankBeforeChain, CompletedIsPaidAndBooked
<1> QED
  BY <1>1, <1>2, <1>3, <1>4

(* A dispute that is committed freezes more of the escrow, and the          *)
(* settlement if it could be frozen.                                       *)
LEMMA DisputeCommitKeeps ==
  ASSUME IInv, NEW p \in Pollers, DisputeCommit(p),
         \/ status' = status
         \/ /\ holderS = Nobody
            /\ canStore(status, "FROZEN_BY_DISPUTE")
            /\ status' = "FROZEN_BY_DISPUTE"
  PROVE  IInv'
<1> USE ProcsAssumption
    DEF DisputeCommit, IInv, Goto, Release, bank, ledger
<1>1. /\ Sound(escrow')
      /\ escrow'.balance = escrow.balance
      /\ escrow'.frozen \in Nat /\ escrow'.frozen >= escrow.frozen
  <2>1. Sound(escrow) /\ escrow.frozen \in Nat
    BY DEF Money, EscrowSound, Sound, Accounts
  <2>2. Sound(escrow') => escrow'.frozen \in Nat
    BY DEF Sound, Accounts
  <2> QED
    BY <2>1, <2>2, FreezeAvailableFacts
<1>2. status' \in Statuses \cup {Absent}
  BY StoreFacts DEF TypeOK
<1>3. TypeOK'
  <2>1. poll[p].event \in Nat /\ escrow' \in Accounts
    BY <1>1 DEF TypeOK, Sound
  <2> QED
    BY <1>2, <2>1, NextEventTyped
    DEF TypeOK, PollerLabels, HandlerLabels, MadeUpLabels, Procs
<1>4. LockDiscipline'
  BY DEF LockDiscipline, TypeOK, Procs
<1>5. Phases'
  BY StoreFacts DEF Phases, LockDiscipline, TypeOK, Procs
<1>6. Money'
  <2>1. status \in {Absent, "COMPLETED"} => status' = status
    BY StoreFacts
  <2> QED
    BY <1>1, <2>1, AmountsAssumption
    DEF Money, EscrowSound, Sound, Accounts
<1>7. BankBeforeChain' /\ CompletedIsPaidAndBooked'
  BY <1>1, StoreFacts DEF BankBeforeChain, CompletedIsPaidAndBooked
<1> QED
  BY <1>3, <1>4, <1>5, <1>6, <1>7

-----------------------------------------------------------------------------
(* Every action preserves the invariant.                                   *)

(* Every step of a handler, faults included, preserves the invariant.      *)
LEMMA HandlerKeeps ==
  ASSUME IInv, NEW h \in Handlers, Request(h) \/ HandlerWork(h)
  PROVE  IInv'
<1> USE ProcsAssumption, AmountsAssumption, BoundsAssumption
    DEF TypeOK, LockDiscipline, Phases, Money, EscrowSound, BankBeforeChain,
        CompletedIsPaidAndBooked, IInv, row, bank, ledger, locks, listener,
        elsewhere, Goto, Release, Rollback, Store, Procs, SettlementFree,
        EscrowFree, HandlerLabels, PollerLabels, MadeUpLabels
<1>1. CASE InitiateStatus(h)
  BY <1>1 DEF InitiateStatus
<1>2. CASE InitiateExisting(h)
  BY <1>2 DEF InitiateExisting, Absent
<1>3. CASE InitiateCommit(h)
  BY <1>3, StoreFacts, FreezeFacts DEF InitiateCommit, canFreeze, Statuses,
     Absent, Sound, Accounts
<1>4. CASE BankTransferBegin(h)
  BY <1>4 DEF BankTransferBegin
<1>5. CASE BankTransferAccepted(h)
  BY <1>5 DEF BankTransferAccepted, BankAccepts, Absent
<1>6. CASE BankTransferRejected(h)
  BY <1>6, StoreFacts DEF BankTransferRejected
<1>7. CASE BankTransferError(h)
  BY <1>7 DEF BankTransferError, BankAccepts, Absent
<1>8. CASE BankTransferCommit(h)
  BY <1>8, StoreFacts DEF BankTransferCommit
<1>9. CASE CallbackRead(h)
  BY <1>9 DEF CallbackRead, CallbackLabel, CallbackStatuses
<1>10. CASE CallbackSuccess(h)
  BY <1>10, StoreFacts DEF CallbackSuccess
<1>11. CASE CallbackFailed(h)
  BY <1>11, StoreFacts DEF CallbackFailed
<1>12. CASE CallbackProcessing(h)
  BY <1>12 DEF CallbackProcessing
<1>13. CASE CompleteBegin(h)
  BY <1>13 DEF CompleteBegin
<1>14. CASE CompleteVerify(h)
  BY <1>14 DEF CompleteVerify
<1>15. CASE CompleteVerifyError(h)
  BY <1>15, StoreFacts DEF CompleteVerifyError
<1>16. CASE CompleteBlock(h)
  BY <1>16, StoreFacts DEF CompleteBlock, markBlockedByStateChange
<1>17. CASE CompleteSend(h)
  BY <1>17 DEF CompleteSend, LedgerSettles, LedgerStatuses
<1>18. CASE CompleteSendRevert(h)
  BY <1>18, StoreFacts DEF CompleteSendRevert, BlockchainFailed
<1>19. CASE CompleteSendUnknown(h)
  BY <1>19, StoreFacts DEF CompleteSendUnknown, LedgerSettles,
     LedgerStatuses, BlockchainFailed
<1>20. CASE CompleteConfirm(h)
  BY <1>20, StoreFacts DEF CompleteConfirm, BlockchainFailed
<1>21. CASE CompleteDebit(h)
  BY <1>21, StoreFacts, DebitFacts DEF CompleteDebit, BlockchainFailed,
     Sound
<1>22. CASE UnlockEscrow(h)
  BY <1>22, UnfreezeFacts DEF UnlockEscrow, Sound, Accounts, canUnfreeze
<1>23. CASE RetryRead(h)
  BY <1>23 DEF RetryRead
<1>24. CASE RetryCommit(h)
  BY <1>24 DEF RetryCommit, prepareForRetry, canRetry, isFailed, Statuses, Absent
<1>25. CASE HandlerError(h)
  BY <1>25 DEF HandlerError
<1>26. CASE DeadlockVictimHandler(h)
  BY <1>26 DEF DeadlockVictimHandler
<1> QED
  BY <1>1, <1>2, <1>3, <1>4, <1>5, <1>6, <1>7, <1>8, <1>9, <1>10, <1>11,
     <1>12, <1>13, <1>14, <1>15, <1>16, <1>17, <1>18, <1>19, <1>20,
     <1>21, <1>22, <1>23, <1>24, <1>25, <1>26
  DEF Request, HandlerWork

(* So does every step of a poll of the listener.                           *)
LEMMA PollerKeeps ==
  ASSUME IInv, NEW p \in Pollers, PollStart(p) \/ PollerWork(p)
  PROVE  IInv'
<1> USE ProcsAssumption, AmountsAssumption, BoundsAssumption
    DEF TypeOK, LockDiscipline, Phases, Money, EscrowSound, BankBeforeChain,
        CompletedIsPaidAndBooked, IInv, row, bank, ledger, locks, listener,
        elsewhere, Goto, Release, Rollback, Store, Procs, SettlementFree,
        EscrowFree, HandlerLabels, PollerLabels, MadeUpLabels
<1>1. CASE PollStart(p)
  BY <1>1 DEF PollStart, NoPoll
<1>2. CASE PollNext(p)
  BY <1>2, NextEventTyped DEF PollNext
<1>3. CASE PollEnd(p)
  BY <1>3 DEF PollEnd, NoPoll
<1>4. CASE PollAborted(p)
  BY <1>4 DEF PollAborted, NoPoll
<1>5. CASE DisputeUnknown(p)
  BY <1>5, DisputeCommitKeeps DEF DisputeUnknown
<1>6. CASE DisputeLockEscrow(p)
  BY <1>6 DEF DisputeLockEscrow
<1>7. CASE DisputeReadSettlement(p)
  <2>1. CASE DisputeCommit(p)
    <3> HIDE DEF IInv
    <3> QED
      BY <2>1, <1>7, DisputeCommitKeeps DEF DisputeReadSettlement
  <2>2. CASE Goto(p, "dl_lock") /\ UNCHANGED <<row, escrow, locks, elsewhere>>
    BY <2>2, <1>7 DEF DisputeReadSettlement
  <2> QED
    BY <2>1, <2>2, <1>7 DEF DisputeReadSettlement
<1>8. CASE DisputeFreezeSettlement(p)
  BY <1>8, DisputeCommitKeeps, DisputeRollbackKeeps DEF
     DisputeFreezeSettlement
<1>9. CASE PollerError(p)
  BY <1>9, DisputeRollbackKeeps DEF PollerError
<1>10. CASE DeadlockVictimPoller(p)
  BY <1>10, DisputeRollbackKeeps DEF DeadlockVictimPoller, Deadlocked
<1> QED
  BY <1>1, <1>2, <1>3, <1>4, <1>5, <1>6, <1>7, <1>8, <1>9, <1>10 DEF PollerWork

(* So do the bank, the other callers of the ledger, and a restart.         *)
LEMMA EnvironmentKeeps == IInv /\ Environment => IInv'
<1> SUFFICES ASSUME IInv, Environment PROVE IInv'
    OBVIOUS
<1> USE ProcsAssumption, AmountsAssumption, BoundsAssumption
    DEF TypeOK, LockDiscipline, Phases, Money, EscrowSound, BankBeforeChain,
        CompletedIsPaidAndBooked, IInv, row, bank, ledger, locks, listener,
        elsewhere, Goto, Release, Rollback, Store, Procs, SettlementFree,
        EscrowFree, HandlerLabels, PollerLabels, MadeUpLabels
<1>1. ASSUME NEW o \in {"SUCCESS", "FAILED"}, BankCompletes(o)
      PROVE  IInv'
  BY <1>1 DEF BankCompletes, CallbackStatuses
<1>2. CASE BankReportsProgress
  BY <1>2 DEF BankReportsProgress, CallbackStatuses
<1>3. CASE CallbackLost
  BY <1>3 DEF CallbackLost
<1>4. CASE MarkVerified
  BY <1>4 DEF MarkVerified, LedgerMoves, ledgerAllows, AllowedTransitionsV2,
     AllowedTransitionsV3, LedgerStatuses
<1>5. CASE CancelContract
  BY <1>5 DEF CancelContract, LedgerMoves, ledgerAllows,
     AllowedTransitionsV2, AllowedTransitionsV3, LedgerStatuses
<1>6. CASE RaiseDispute
  BY <1>6 DEF RaiseDispute, LedgerMoves, ledgerAllows, AllowedTransitionsV2,
     AllowedTransitionsV3, LedgerStatuses
<1>7. CASE Crash
  BY <1>7 DEF Crash, NoPoll
<1> QED
  BY <1>1, <1>2, <1>3, <1>4, <1>5, <1>6, <1>7 DEF Environment, BankWork

(* The invariant is inductive.                                             *)
LEMMA StepKeeps == IInv /\ [Next]_vars => IInv'
<1> SUFFICES ASSUME IInv, [Next]_vars PROVE IInv'
    OBVIOUS
<1>1. CASE Next
  BY <1>1, HandlerKeeps, PollerKeeps, EnvironmentKeeps DEF Next
<1>2. CASE UNCHANGED vars
  BY <1>2 DEF vars, row, bank, ledger, locks, listener, IInv, TypeOK,
              LockDiscipline, Phases, Money, EscrowSound, BankBeforeChain,
              CompletedIsPaidAndBooked
<1> QED
  BY <1>1, <1>2

(* The inductive invariant holds in every behaviour of the flow.           *)
THEOREM InvariantHolds == Spec => []IInv
BY InitHolds, StepKeeps, PTL DEF Spec

-----------------------------------------------------------------------------
(* What a step may do: the action properties and the refinement.           *)

(* SettleUnderLock, of one step.                                           *)
Settles ==
  chain' = "SETTLED" /\ chain # "SETTLED"
    => /\ chain = "VERIFIED"
       /\ status = "BANK_SUCCESS"
       /\ \E h \in Handlers : holderS = h

(* SafetyStatusSticky, of one step.                                        *)
Sticks ==
  (status \in {"FROZEN_BY_DISPUTE", "BLOCKED_BY_STATE_CHANGE", "COMPLETED"})
    => status' = status

(* What every step from a state that satisfies IInv does or leaves alone.  *)
Effects == Settles /\ Sticks /\ [Promise!Next]_(Promise!vars)

(* A handler settles only under the lock, leaves a safety status alone,    *)
(* and takes at most one step of the promise.                              *)
LEMMA HandlerEffects ==
  ASSUME IInv, NEW h \in Handlers, Request(h) \/ HandlerWork(h)
  PROVE  Effects
<1> USE DEF TypeOK, LockDiscipline, Phases, Money, EscrowSound,
        CompletedIsPaidAndBooked, IInv, row, bank, ledger, locks,
        listener, elsewhere, Rollback, Store, Effects, Settles,
        Sticks, Promise!Next, Promise!Pay, Promise!Record,
        Promise!Book, Promise!vars
<1>1. CASE InitiateStatus(h)
  BY <1>1 DEF InitiateStatus
<1>2. CASE InitiateExisting(h)
  BY <1>2 DEF InitiateExisting
<1>3. CASE InitiateCommit(h)
  BY <1>3, StoreFacts, FreezeFacts, AmountsAssumption DEF InitiateCommit,
     canFreeze, Absent
<1>4. CASE BankTransferBegin(h)
  BY <1>4 DEF BankTransferBegin
<1>5. CASE BankTransferAccepted(h)
  BY <1>5 DEF BankTransferAccepted, BankAccepts
<1>6. CASE BankTransferRejected(h)
  BY <1>6, StoreFacts DEF BankTransferRejected
<1>7. CASE BankTransferError(h)
  BY <1>7 DEF BankTransferError, BankAccepts
<1>8. CASE BankTransferCommit(h)
  BY <1>8, StoreFacts DEF BankTransferCommit
<1>9. CASE CallbackRead(h)
  BY <1>9 DEF CallbackRead
<1>10. CASE CallbackSuccess(h)
  BY <1>10, StoreFacts DEF CallbackSuccess
<1>11. CASE CallbackFailed(h)
  BY <1>11, StoreFacts DEF CallbackFailed
<1>12. CASE CallbackProcessing(h)
  BY <1>12 DEF CallbackProcessing
<1>13. CASE CompleteBegin(h)
  BY <1>13 DEF CompleteBegin
<1>14. CASE CompleteVerify(h)
  BY <1>14 DEF CompleteVerify
<1>15. CASE CompleteVerifyError(h)
  BY <1>15, StoreFacts DEF CompleteVerifyError
<1>16. CASE CompleteBlock(h)
  BY <1>16, StoreFacts DEF CompleteBlock, markBlockedByStateChange
<1>17. CASE CompleteSend(h)
  BY <1>17 DEF CompleteSend, LedgerSettles, ledgerAllows,
     AllowedTransitionsV2, AllowedTransitionsV3
<1>18. CASE CompleteSendRevert(h)
  BY <1>18, StoreFacts DEF CompleteSendRevert, BlockchainFailed
<1>19. CASE CompleteSendUnknown(h)
  BY <1>19, StoreFacts DEF CompleteSendUnknown, LedgerSettles,
     BlockchainFailed, ledgerAllows, AllowedTransitionsV2,
     AllowedTransitionsV3
<1>20. CASE CompleteConfirm(h)
  BY <1>20, StoreFacts DEF CompleteConfirm, BlockchainFailed
<1>21. CASE CompleteDebit(h)
  BY <1>21, StoreFacts, DebitFacts, AmountsAssumption DEF CompleteDebit,
     BlockchainFailed
<1>22. CASE UnlockEscrow(h)
  BY <1>22, UnfreezeFacts DEF UnlockEscrow, Sound, Accounts, canUnfreeze
<1>23. CASE RetryRead(h)
  BY <1>23 DEF RetryRead
<1>24. CASE RetryCommit(h)
  BY <1>24 DEF RetryCommit, prepareForRetry, canRetry, isFailed
<1>25. CASE HandlerError(h)
  BY <1>25 DEF HandlerError
<1>26. CASE DeadlockVictimHandler(h)
  BY <1>26 DEF DeadlockVictimHandler
<1> QED
  BY <1>1, <1>2, <1>3, <1>4, <1>5, <1>6, <1>7, <1>8, <1>9, <1>10, <1>11,
     <1>12, <1>13, <1>14, <1>15, <1>16, <1>17, <1>18, <1>19, <1>20,
     <1>21, <1>22, <1>23, <1>24, <1>25, <1>26
  DEF Request, HandlerWork

(* A poll never settles, pays or books: for the promise it stutters.       *)
LEMMA PollerEffects ==
  ASSUME IInv, NEW p \in Pollers, PollStart(p) \/ PollerWork(p)
  PROVE  Effects
<1> USE DEF TypeOK, LockDiscipline, Phases, Money, EscrowSound,
        CompletedIsPaidAndBooked, IInv, row, bank, ledger, locks,
        listener, elsewhere, Rollback, Store, Effects, Settles,
        Sticks, Promise!Next, Promise!Pay, Promise!Record,
        Promise!Book, Promise!vars
<1>1. CASE PollStart(p)
  BY <1>1 DEF PollStart
<1>2. CASE PollNext(p)
  BY <1>2 DEF PollNext
<1>3. CASE PollEnd(p)
  BY <1>3 DEF PollEnd
<1>4. CASE PollAborted(p)
  BY <1>4 DEF PollAborted
<1>5. CASE DisputeUnknown(p)
  BY <1>5, FreezeAvailableFacts DEF DisputeUnknown, DisputeCommit
<1>6. CASE DisputeLockEscrow(p)
  BY <1>6 DEF DisputeLockEscrow
<1>7. CASE DisputeReadSettlement(p)
  BY <1>7, FreezeAvailableFacts DEF DisputeReadSettlement, DisputeCommit
<1>8. CASE DisputeFreezeSettlement(p)
  BY <1>8, FreezeAvailableFacts, StoreFacts DEF DisputeFreezeSettlement,
     DisputeCommit, DisputeRollback
<1>9. CASE PollerError(p)
  BY <1>9 DEF PollerError, DisputeRollback
<1>10. CASE DeadlockVictimPoller(p)
  BY <1>10 DEF DeadlockVictimPoller, DisputeRollback
<1> QED
  BY <1>1, <1>2, <1>3, <1>4, <1>5, <1>6, <1>7, <1>8, <1>9, <1>10
  DEF PollerWork

(* The only effect outside the handlers that the promise sees is the bank's *)
(* payment.                                                                *)
LEMMA EnvironmentEffects ==
  ASSUME IInv, Environment
  PROVE  Effects
<1> USE DEF TypeOK, LockDiscipline, Phases, Money, EscrowSound,
        CompletedIsPaidAndBooked, IInv, row, bank, ledger, locks,
        listener, elsewhere, Rollback, Store, Effects, Settles,
        Sticks, Promise!Next, Promise!Pay, Promise!Record,
        Promise!Book, Promise!vars
<1>1. ASSUME NEW o \in {"SUCCESS", "FAILED"}, BankCompletes(o)
      PROVE  Effects
  BY <1>1 DEF BankCompletes
<1>2. CASE BankReportsProgress
  BY <1>2 DEF BankReportsProgress
<1>3. CASE CallbackLost
  BY <1>3 DEF CallbackLost
<1>4. CASE MarkVerified
  BY <1>4 DEF MarkVerified, LedgerMoves, ledgerAllows, AllowedTransitionsV2,
     AllowedTransitionsV3
<1>5. CASE CancelContract
  BY <1>5 DEF CancelContract, LedgerMoves, ledgerAllows,
     AllowedTransitionsV2, AllowedTransitionsV3
<1>6. CASE RaiseDispute
  BY <1>6 DEF RaiseDispute, LedgerMoves, ledgerAllows, AllowedTransitionsV2,
     AllowedTransitionsV3
<1>7. CASE Crash
  BY <1>7 DEF Crash
<1> QED
  BY <1>1, <1>2, <1>3, <1>4, <1>5, <1>6, <1>7
  DEF Environment, BankWork

(* Every step of the flow has only those effects.                          *)
LEMMA StepEffects == IInv /\ [Next]_vars => Effects
<1> SUFFICES ASSUME IInv, [Next]_vars PROVE Effects
    OBVIOUS
<1>1. CASE Next
  BY <1>1, HandlerEffects, PollerEffects, EnvironmentEffects DEF Next
<1>2. CASE UNCHANGED vars
  BY <1>2 DEF vars, row, bank, ledger, Effects, Settles, Sticks, Promise!vars
<1> QED
  BY <1>1, <1>2

-----------------------------------------------------------------------------
(* The results.                                                            *)

(* Every variable keeps its type.                                          *)
THEOREM TypesHold == Spec => []TypeOK
<1>1. IInv => TypeOK
  BY DEF IInv
<1> QED
  BY <1>1, InvariantHolds, PTL

(* No early return, exception or restart leaves a row lock behind.         *)
THEOREM LocksHold == Spec => []LockDiscipline
<1>1. IInv => LockDiscipline
  BY DEF IInv
<1> QED
  BY <1>1, InvariantHolds, PTL

(* The ledger says SETTLED only when the bank has paid.                    *)
THEOREM BankComesFirst == Spec => []BankBeforeChain
<1>1. IInv => BankBeforeChain
  BY DEF IInv
<1> QED
  BY <1>1, InvariantHolds, PTL

(* A payment that is not booked yet is backed by frozen escrow funds.      *)
THEOREM PaymentStaysBacked == Spec => []UnbookedPaymentBacked
<1>1. IInv => UnbookedPaymentBacked
  BY DEF IInv, Phases, Money, UnbookedPaymentBacked
<1> QED
  BY <1>1, InvariantHolds, PTL

(* The escrow balance changes once, by the total, when the settlement is   *)
(* COMPLETED, paid and recorded.                                           *)
THEOREM BookedOnce == Spec => []CompletedIsPaidAndBooked
<1>1. IInv => CompletedIsPaidAndBooked
  BY DEF IInv
<1> QED
  BY <1>1, InvariantHolds, PTL

(* The ledger settles only a VERIFIED contract whose row is locked in       *)
(* BANK_SUCCESS.                                                           *)
THEOREM SettlesUnderLock == Spec => SettleUnderLock
<1>1. IInv /\ [Next]_vars => [Settles]_vars
  BY StepEffects DEF Effects
<1> QED
  BY <1>1, InvariantHolds, PTL DEF Spec, SettleUnderLock, Settles

(* Frozen, blocked and completed settlements are left alone.               *)
THEOREM SafetyStatusSticks == Spec => SafetyStatusSticky
<1>1. IInv /\ [Next]_vars => [Sticks]_vars
  BY StepEffects DEF Effects
<1> QED
  BY <1>1, InvariantHolds, PTL DEF Spec, SafetyStatusSticky, Sticks

(* The flow implements the promise made to the parties.                    *)
THEOREM Implements == Spec => KeepsPromise
<1>1. Init => Promise!Init
  BY DEF Init, Promise!Init, Absent
<1>2. IInv /\ [Next]_vars => [Promise!Next]_(Promise!vars)
  BY StepEffects DEF Effects
<1> QED
  BY <1>1, <1>2, InvariantHolds, PTL DEF Spec, KeepsPromise, Promise!Spec
-----------------------------------------------------------------------------
(* A dispute the listener has processed stops a payment not yet asked for. *)

(* After all that is available has been frozen nothing is available.       *)
LEMMA FrozenOut ==
  ASSUME NEW a, Sound(a)
  PROVE  availableBalance(freezeFunds(a, availableBalance(a))) = 0
BY DEF Sound, Accounts, availableBalance, freezeFunds

(* What a step of a handler leaves alone.  Before the bank is asked it     *)
(* changes the status and the account by starting a settlement only.       *)
Spares ==
  /\ UNCHANGED <<opened, poll, listener>>
  /\ \A p \in Pollers : pc'[p] = pc[p]
  /\ escrow' # escrow => holderE = Nobody
  /\ batch' = "none" =>
       /\ batch = "none"
       /\ \/ status' = status /\ escrow' = escrow
          \/ /\ status = Absent /\ status' = "ESCROW_LOCKED"
             /\ canFreeze(escrow, Total)
  /\ batch' # batch => status = "ESCROW_LOCKED"
  /\ \A h \in Handlers : pc'[h] = "bt_commit" => pc[h] = "bt_commit" \/ batch' # "none"

LEMMA HandlerSpares ==
  ASSUME IInv, Unpaid, NEW h \in Handlers, Request(h) \/ HandlerWork(h)
  PROVE  Spares
<1> USE ProcsAssumption
    DEF TypeOK, LockDiscipline, Phases, IInv, Unpaid, Spares, row, bank, ledger,
        locks, listener, elsewhere, Goto, Rollback, Store, Procs, EscrowFree
<1>1. CASE InitiateStatus(h)
  BY <1>1 DEF InitiateStatus
<1>2. CASE InitiateExisting(h)
  BY <1>2 DEF InitiateExisting
<1>3. CASE InitiateCommit(h)
  BY <1>3 DEF InitiateCommit
<1>4. CASE BankTransferBegin(h)
  BY <1>4 DEF BankTransferBegin
<1>5. CASE BankTransferAccepted(h)
  BY <1>5 DEF BankTransferAccepted, BankAccepts
<1>6. CASE BankTransferRejected(h)
  BY <1>6, StoreFacts DEF BankTransferRejected
<1>7. CASE BankTransferError(h)
  BY <1>7 DEF BankTransferError, BankAccepts
<1>8. CASE BankTransferCommit(h)
  BY <1>8 DEF BankTransferCommit
<1>9. CASE CallbackRead(h)
  BY <1>9 DEF CallbackRead, CallbackLabel
<1>10. CASE CallbackSuccess(h)
  BY <1>10 DEF CallbackSuccess
<1>11. CASE CallbackFailed(h)
  BY <1>11 DEF CallbackFailed
<1>12. CASE CallbackProcessing(h)
  BY <1>12 DEF CallbackProcessing
<1>13. CASE CompleteBegin(h)
  BY <1>13 DEF CompleteBegin
<1>14. CASE CompleteVerify(h)
  BY <1>14 DEF CompleteVerify
<1>15. CASE CompleteVerifyError(h)
  BY <1>15 DEF CompleteVerifyError
<1>16. CASE CompleteBlock(h)
  BY <1>16 DEF CompleteBlock, markBlockedByStateChange
<1>17. CASE CompleteSend(h)
  BY <1>17 DEF CompleteSend, LedgerSettles
<1>18. CASE CompleteSendRevert(h)
  BY <1>18 DEF CompleteSendRevert, BlockchainFailed
<1>19. CASE CompleteSendUnknown(h)
  BY <1>19 DEF CompleteSendUnknown, LedgerSettles, BlockchainFailed
<1>20. CASE CompleteConfirm(h)
  BY <1>20 DEF CompleteConfirm, BlockchainFailed
<1>21. CASE CompleteDebit(h)
  BY <1>21 DEF CompleteDebit, BlockchainFailed
<1>22. CASE UnlockEscrow(h)
  BY <1>22 DEF UnlockEscrow
<1>23. CASE RetryRead(h)
  BY <1>23 DEF RetryRead
<1>24. CASE RetryCommit(h)
  BY <1>24 DEF RetryCommit, prepareForRetry, canRetry, isFailed
<1>25. CASE HandlerError(h)
  BY <1>25 DEF HandlerError
<1>26. CASE DeadlockVictimHandler(h)
  BY <1>26 DEF DeadlockVictimHandler
<1> QED
  BY <1>1, <1>2, <1>3, <1>4, <1>5, <1>6, <1>7, <1>8, <1>9, <1>10, <1>11,
     <1>12, <1>13, <1>14, <1>15, <1>16, <1>17, <1>18, <1>19, <1>20,
     <1>21, <1>22, <1>23, <1>24, <1>25, <1>26
  DEF Request, HandlerWork

(* A handler leaves the listener's facts alone, and starts no settlement   *)
(* from an account in which nothing is available.                          *)
LEMMA HandlerHalts ==
  ASSUME DisputeIInv, Spares
  PROVE  ListenerFacts' /\ Unpaid' /\ Halted'
<1> USE DEF DisputeIInv, Spares
<1>1. ListenerFacts'
  <2>1. \A p \in Pollers : pc[p] \in {"dl_read", "dl_lock"} => escrow' = escrow
    BY ProcsAssumption DEF IInv, LockDiscipline, Procs
  <2> QED BY <2>1 DEF ListenerFacts, listener
<1>2. Unpaid'
  BY DEF Unpaid
<1>3. Halted'
  <2>1. availableBalance(escrow) = 0 => ~canFreeze(escrow, Total)
    BY AmountsAssumption DEF canFreeze
  <2> QED BY <2>1 DEF Halted, FindsRows, listener, Absent
<1> QED BY <1>1, <1>2, <1>3

(* The commit of a dispute: with the account's available part frozen, the  *)
(* settlement of the contract is frozen, or there is none.                 *)
LEMMA CommitHalts ==
  ASSUME DisputeIInv, NEW p \in Pollers, DisputeCommit(p),
         pc[p] \in {"dl_escrow", "dl_read", "dl_lock"},
         pc[p] = "dl_escrow" => ~FindsRows /\ status' = status,
         pc[p] # "dl_escrow" =>
           \/ status' = "FROZEN_BY_DISPUTE"
           \/ ~canBeFrozenByDispute(status) /\ status' = status
  PROVE  ListenerFacts' /\ Unpaid' /\ Halted'
<1> USE DEF DisputeIInv
<1>1. /\ poll[p].event \in 1..opened
      /\ poll \in [Pollers -> [upto : Nat, event : Nat, froze : BOOLEAN]]
      /\ opened \in Nat
  BY BoundsAssumption DEF ListenerFacts, IInv, TypeOK
<1>2. /\ opened' = opened /\ batch' = batch /\ contractId' = contractId
      /\ lastProcessed' = lastProcessed
      /\ processed' = processed \cup {poll[p].event}
  BY DEF DisputeCommit, bank, ledger
<1>3. pc' = [pc EXCEPT ![p] = "dl_next"]
  BY DEF DisputeCommit, Goto
<1>4. poll' = [poll EXCEPT ![p] = [upto |-> poll[p].upto,
                                  event |-> poll[p].event + 1, froze |-> FALSE]]
  BY DEF DisputeCommit, NextEvent
<1>5. /\ pc \in [Procs -> HandlerLabels \cup PollerLabels]
      /\ Pollers \cap Handlers = {} /\ Pollers \subseteq Procs /\ Handlers \subseteq Procs
  BY ProcsAssumption DEF IInv, TypeOK, Procs
<1>6. pc[p] \in {"dl_read", "dl_lock"} => availableBalance(escrow') = 0
  BY FrozenOut DEF IInv, Money, EscrowSound, ListenerFacts, DisputeCommit
<1>7. ASSUME NEW q \in Pollers, q # p, pc[q] \in {"dl_read", "dl_lock"}
      PROVE  escrow' = escrow
  <2>1. pc[p] = "dl_escrow"
    BY <1>7, ProcsAssumption DEF IInv, LockDiscipline
  <2>2. ~poll[p].froze
    BY <2>1 DEF ListenerFacts
  <2> QED BY <2>2 DEF DisputeCommit
<1>8. ListenerFacts'
  <2>1. lastProcessed' <= opened' /\ processed' \subseteq 1..opened'
    BY <1>1, <1>2 DEF ListenerFacts
  <2>2. /\ poll'[p] = [upto |-> poll[p].upto, event |-> poll[p].event + 1, froze |-> FALSE]
        /\ pc'[p] = "dl_next"
    BY <1>1, <1>3, <1>4, <1>5
  <2>3. ASSUME NEW q \in Pollers, q # p
        PROVE  poll'[q] = poll[q] /\ pc'[q] = pc[q]
    BY <1>3, <1>4, <1>1, <1>5, <2>3
  <2> QED
    BY <1>1, <1>2, <1>7, <2>1, <2>2, <2>3 DEF ListenerFacts
<1>9. Unpaid'
  BY <1>2, <1>3, <1>5 DEF Unpaid, HandlerLabels
<1>10. Halted'
  <2>1. CASE pc[p] = "dl_escrow"
    BY <2>1, <1>2 DEF Halted, FindsRows
  <2>2. CASE pc[p] # "dl_escrow"
    BY <2>2, <1>2, <1>6 DEF Halted, Unpaid, canBeFrozenByDispute,
       isTerminalStatus, TerminalStatuses, Statuses
  <2> QED BY <2>1, <2>2
<1> QED BY <1>8, <1>9, <1>10

(* So do the other steps of a poll: they change no row.                    *)
LEMMA PollerHalts ==
  ASSUME DisputeIInv, "bank_error" \notin Faults,
         NEW p \in Pollers, PollStart(p) \/ PollerWork(p)
  PROVE  ListenerFacts' /\ Unpaid' /\ Halted'
<1> DEFINE Good == ListenerFacts' /\ Unpaid' /\ Halted'
           Moves == /\ UNCHANGED <<row, escrow, bank, ledger, contractId, processed>>
                    /\ \A h \in Handlers : pc'[h] = pc[h]
<1>1. /\ pc \in [Procs -> HandlerLabels \cup PollerLabels]
      /\ Pollers \cap Handlers = {} /\ Pollers \subseteq Procs /\ Handlers \subseteq Procs
      /\ poll \in [Pollers -> [upto : Nat, event : Nat, froze : BOOLEAN]]
      /\ opened \in Nat /\ lastProcessed \in Nat
  BY ProcsAssumption, BoundsAssumption DEF DisputeIInv, IInv, TypeOK, Procs
<1>2. ASSUME Moves PROVE Unpaid' /\ Halted'
  BY <1>2 DEF DisputeIInv, Unpaid, Halted, FindsRows, row, bank, ledger
<1>3. ASSUME NEW label \in PollerLabels, Goto(p, label) \/ UNCHANGED pc
      PROVE  \A h \in Handlers : pc'[h] = pc[h]
  BY <1>1, <1>3 DEF Goto
<1> USE DEF NoPoll, NextEvent
<1>4. ASSUME DisputeRollback(p) PROVE Good
  <2>1. Moves
    BY <1>3, <1>4 DEF DisputeRollback, PollerLabels, listener
  <2>2. ListenerFacts'
    BY <1>1, <1>4 DEF DisputeRollback, ListenerFacts, DisputeIInv, listener, ledger, Goto
  <2> QED BY <1>2, <2>1, <2>2
<1>5. CASE PollStart(p)
  <2>1. Moves
    BY <1>3, <1>5 DEF PollStart, PollerLabels, listener
  <2>2. ListenerFacts'
    BY <1>1, <1>5 DEF PollStart, ListenerFacts, DisputeIInv, listener, ledger, Goto
  <2> QED BY <1>2, <2>1, <2>2
<1>6. CASE PollNext(p)
  <2>1. Moves
    BY <1>3, <1>6 DEF PollNext, PollerLabels, listener
  <2>2. ListenerFacts'
    BY <1>1, <1>6 DEF PollNext, ListenerFacts, DisputeIInv, listener, ledger, Goto
  <2> QED BY <1>2, <2>1, <2>2
<1>7. CASE PollEnd(p)
  <2>1. Moves
    BY <1>3, <1>7 DEF PollEnd, PollerLabels
  <2>2. ListenerFacts'
    BY <1>1, <1>7 DEF PollEnd, ListenerFacts, DisputeIInv, ledger, Goto
  <2> QED BY <1>2, <2>1, <2>2
<1>8. CASE PollAborted(p)
  <2>1. Moves
    BY <1>3, <1>8 DEF PollAborted, PollerLabels, listener
  <2>2. ListenerFacts'
    BY <1>1, <1>8 DEF PollAborted, ListenerFacts, DisputeIInv, listener, ledger, Goto
  <2> QED BY <1>2, <2>1, <2>2
<1>9. CASE DisputeLockEscrow(p)
  <2>1. Moves
    BY <1>3, <1>9 DEF DisputeLockEscrow, PollerLabels, listener
  <2>2. ListenerFacts'
    BY <1>1, <1>9 DEF DisputeLockEscrow, ListenerFacts, DisputeIInv, listener, ledger, Goto
  <2> QED BY <1>2, <2>1, <2>2
<1>10. CASE DisputeUnknown(p)
  BY <1>10, CommitHalts DEF DisputeUnknown
<1>11. CASE DisputeReadSettlement(p)
  <2>1. CASE Goto(p, "dl_lock") /\ UNCHANGED <<row, escrow, locks, elsewhere>>
    <3>1. Moves
      BY <1>3, <2>1 DEF PollerLabels, listener, elsewhere
    <3>2. ListenerFacts'
      BY <1>1, <1>11, <2>1 DEF DisputeReadSettlement, ListenerFacts, DisputeIInv,
         elsewhere, listener, ledger, Goto
    <3> QED BY <1>2, <3>1, <3>2
  <2>2. CASE ~canBeFrozenByDispute(status) /\ UNCHANGED status /\ DisputeCommit(p)
    BY <1>11, <2>2, CommitHalts DEF DisputeReadSettlement
  <2> QED BY <1>11, <2>1, <2>2 DEF DisputeReadSettlement
<1>12. CASE DisputeFreezeSettlement(p)
  BY <1>4, <1>12, CommitHalts DEF DisputeFreezeSettlement
<1>13. CASE PollerError(p) \/ DeadlockVictimPoller(p)
  BY <1>4, <1>13 DEF PollerError, DeadlockVictimPoller
<1> QED
  BY <1>5, <1>6, <1>7, <1>8, <1>9, <1>10, <1>11, <1>12, <1>13 DEF PollerWork

(* A dispute that is raised is not processed yet, and a restart forgets    *)
(* what has been.                                                          *)
LEMMA EnvironmentHalts ==
  ASSUME DisputeIInv, Environment
  PROVE  ListenerFacts' /\ Unpaid' /\ Halted'
<1> USE DEF DisputeIInv, ListenerFacts, Unpaid, Halted, FindsRows, row, bank,
        ledger, locks, listener
<1>1. /\ opened \in Nat /\ lastProcessed \in Nat
      /\ \A p \in Pollers : poll[p].upto \in Nat
  BY BoundsAssumption DEF IInv, TypeOK
<1>2. ASSUME NEW o \in {"SUCCESS", "FAILED"}, BankCompletes(o)
      PROVE  ListenerFacts' /\ Unpaid' /\ Halted'
  BY <1>2 DEF BankCompletes
<1>3. CASE BankReportsProgress \/ CallbackLost
  BY <1>3 DEF BankReportsProgress, CallbackLost
<1>4. CASE MarkVerified \/ CancelContract
  BY <1>4 DEF MarkVerified, CancelContract, LedgerMoves
<1>5. CASE RaiseDispute
  BY <1>1, <1>5 DEF RaiseDispute, LedgerMoves
<1>6. CASE Crash
  <2>1. \A p \in Procs : pc'[p] = "idle"
    BY <1>6 DEF Crash
  <2>2. \A p \in Pollers : poll'[p] = [upto |-> 0, event |-> 0, froze |-> FALSE]
    BY <1>6 DEF Crash, NoPoll
  <2>3. /\ UNCHANGED <<row, escrow, bank, ledger, contractId>>
        /\ lastProcessed' = opened /\ processed' = {}
    BY <1>6 DEF Crash
  <2>4. \A h \in Handlers : pc'[h] = "idle"
    BY <2>1 DEF Procs
  <2>5. \A p \in Pollers : pc'[p] = "idle" /\ poll'[p].upto = 0 /\ ~poll'[p].froze
    BY <2>1, <2>2 DEF Procs
  <2>6. ListenerFacts'
    BY <1>1, <2>3, <2>5
  <2>7. Unpaid' /\ Halted'
    BY <2>3, <2>4
  <2> QED
    BY <2>6, <2>7
<1> QED
  BY <1>2, <1>3, <1>4, <1>5, <1>6 DEF Environment, BankWork

(* No step asks the bank to pay once a dispute has been processed.         *)
Halts ==
  batch = "none" /\ batch' # "none"
    => ~(FindsRows /\ chain = "DISPUTED" /\ opened \in processed)

LEMMA DisputeStepKeeps ==
  ASSUME "bank_error" \notin Faults, DisputeIInv, [Next]_vars
  PROVE  DisputeIInv' /\ Halts
<1>1. IInv'
  BY StepKeeps DEF DisputeIInv
<1>2. ASSUME NEW h \in Handlers, Request(h) \/ HandlerWork(h)
      PROVE  ListenerFacts' /\ Unpaid' /\ Halted' /\ Halts
  <2>1. Spares
    BY <1>2, HandlerSpares DEF DisputeIInv
  <2>2. Halts
    BY <2>1 DEF Spares, Halts, DisputeIInv, Halted, Absent
  <2> QED BY <2>1, <2>2, HandlerHalts
<1>3. ASSUME NEW p \in Pollers, PollStart(p) \/ PollerWork(p)
      PROVE  ListenerFacts' /\ Unpaid' /\ Halted' /\ Halts
  <2>1. batch' = batch
    BY <1>3 DEF PollStart, PollerWork, PollNext, PollEnd, PollAborted, DisputeUnknown,
       DisputeLockEscrow, DisputeReadSettlement, DisputeFreezeSettlement, PollerError,
       DeadlockVictimPoller, DisputeCommit, DisputeRollback, elsewhere, bank
  <2> QED BY <1>3, <2>1, PollerHalts DEF Halts
<1>4. CASE Environment
  <2>1. batch = "none" => batch' = "none"
    BY <1>4 DEF Environment, BankWork, BankCompletes, BankReportsProgress, CallbackLost,
       MarkVerified, CancelContract, RaiseDispute, LedgerMoves, Crash, bank
  <2> QED BY <1>1, <1>4, <2>1, EnvironmentHalts DEF Halts, DisputeIInv
<1>5. CASE UNCHANGED vars
  <2>1. ListenerFacts' /\ Unpaid' /\ Halted' /\ Halts
    BY <1>5 DEF vars, row, bank, ledger, locks, listener, DisputeIInv, ListenerFacts,
       Unpaid, Halted, FindsRows, Halts
  <2> QED BY <1>1, <2>1 DEF DisputeIInv
<1> QED BY <1>1, <1>2, <1>3, <1>4, <1>5 DEF Next, DisputeIInv

LEMMA DisputeInitHolds == Init => DisputeIInv
<1> SUFFICES ASSUME Init PROVE DisputeIInv
    OBVIOUS
<1>1. ListenerFacts /\ Unpaid /\ Halted
  BY ProcsAssumption DEF Init, ListenerFacts, Unpaid, Halted, NoPoll, Procs
<1> QED BY <1>1, InitHolds DEF DisputeIInv

(* Where the bank does not fail to freeze, it is not asked to pay for a    *)
(* contract whose open dispute the listener has processed: whatever the    *)
(* handlers had read, locked or begun before.                              *)
THEOREM DisputesHaltPayments ==
  ASSUME "bank_error" \notin Faults
  PROVE  Spec => DisputeHaltsPayment
<1>1. DisputeIInv /\ [Next]_vars => DisputeIInv' /\ [Halts]_vars
  BY DisputeStepKeeps
<1> QED
  BY <1>1, DisputeInitHolds, PTL DEF Spec, DisputeHaltsPayment, Halts

-----------------------------------------------------------------------------
(* The reconciliation job beside the flow.                                 *)

(* A step that a repair takes on the flow's part: a callback is made up,   *)
(* or handled.                                                             *)
Repairs(h) ==
  \/ CallbackMadeUp(h) /\ UNCHANGED <<row, escrow, locks, elsewhere>>
  \/ RepairWork(h)

(* A job changes the flow by its own steps and by repairs only.            *)
LEMMA JobsRepair ==
  ASSUME [ReconcileNext]_allVars
  PROVE  [Next]_vars \/ \E h \in Handlers : Repairs(h)
<1>1. ASSUME NEW j \in Jobs, JobStart(j) \/ JobBank(j) \/ JobChain(j)
                               \/ SyncRead(j) \/ SyncSave(j) \/ JobReport(j)
      PROVE  UNCHANGED vars
  BY <1>1 DEF JobStart, JobBank, JobChain, SyncRead, SyncSave, JobReport
<1>2. ASSUME NEW j \in Jobs, RepairStalePending(j)
      PROVE  UNCHANGED vars \/ \E h \in Handlers : Repairs(h)
  <2>1. CASE \E h \in Handlers : CallbackMadeUp(h)
    <3>1. UNCHANGED <<row, escrow, locks, elsewhere>>
      BY <1>2 DEF RepairStalePending
    <3> QED BY <2>1, <3>1 DEF Repairs
  <2>2. CASE UNCHANGED pc
    BY <1>2, <2>2 DEF RepairStalePending, elsewhere, vars
  <2> QED BY <1>2, <2>1, <2>2 DEF RepairStalePending
<1>3. ASSUME NEW h \in Handlers, StaleCheck(h) \/ RepairWork(h)
      PROVE  Repairs(h)
  BY <1>3 DEF StaleCheck, Repairs
<1> QED
  BY <1>1, <1>2, <1>3 DEF ReconcileNext, JobWork, allVars

(* Repairs keep the invariant of the flow and have no effect that its      *)
(* handlers do not have.                                                   *)
LEMMA RepairsKeep ==
  ASSUME IInv, NEW h \in Handlers, Repairs(h)
  PROVE  IInv' /\ Effects
<1> USE ProcsAssumption, AmountsAssumption
    DEF TypeOK, LockDiscipline, Phases, Money, EscrowSound, BankBeforeChain,
        CompletedIsPaidAndBooked, IInv, row, bank, ledger, locks, listener,
        elsewhere, Goto, Release, Rollback, Store, Procs, SettlementFree,
        HandlerLabels, PollerLabels, MadeUpLabels
<1>1. CASE CallbackMadeUp(h) /\ UNCHANGED <<row, escrow, locks, elsewhere>>
  <2>1. batch \in {"SUCCESS", "FAILED"}
    BY <1>1 DEF CallbackMadeUp, bankDecided, queryTransferStatus
  <2>2. IInv'
    BY <1>1, <2>1 DEF CallbackMadeUp
  <2>3. Effects
    BY <1>1 DEF Effects, Settles, Sticks, Promise!vars
  <2> QED BY <2>2, <2>3
<1>2. CASE CallbackConfirmed(h)
  <2>1. IInv'
    BY <1>2, StoreFacts DEF CallbackConfirmed
  <2>2. Effects
    BY <1>2, StoreFacts DEF CallbackConfirmed, Effects, Settles, Sticks, Promise!vars
  <2> QED BY <2>1, <2>2
<1>3. CASE CallbackUnpaid(h)
  <2>1. IInv'
    BY <1>3, StoreFacts DEF CallbackUnpaid
  <2>2. Effects
    BY <1>3, StoreFacts DEF CallbackUnpaid, Effects, Settles, Sticks, Promise!vars
  <2> QED BY <2>1, <2>2
<1> QED BY <1>1, <1>2, <1>3 DEF Repairs, RepairWork

LEMMA ReconcileStep == IInv /\ [ReconcileNext]_allVars => IInv' /\ Effects
<1> SUFFICES ASSUME IInv, [ReconcileNext]_allVars PROVE IInv' /\ Effects
  OBVIOUS
<1>1. CASE [Next]_vars
  BY <1>1, StepKeeps, StepEffects
<1>2. CASE \E h \in Handlers : Repairs(h)
  BY <1>2, RepairsKeep
<1> QED BY <1>1, <1>2, JobsRepair

LEMMA ReconcileInitHolds == ReconcileInit => ReconcileIInv
<1> SUFFICES ASSUME ReconcileInit PROVE ReconcileIInv
  OBVIOUS
<1>1. IInv
  BY InitHolds DEF ReconcileInit
<1>2. JobTypeOK
  BY ReconciliationAssumption DEF ReconcileInit, JobTypeOK, Absent
<1>3. SeenIsSettled /\ NoMissingRecordReported
  BY DEF ReconcileInit, SeenIsSettled, NoMissingRecordReported, Absent
<1> QED BY <1>1, <1>2, <1>3 DEF ReconcileIInv

(* Every step keeps what the jobs know: settling is final.                 *)
LEMMA JobsKeep ==
  ASSUME ReconcileIInv, [ReconcileNext]_allVars
  PROVE  JobTypeOK' /\ SeenIsSettled' /\ NoMissingRecordReported'
<1> DEFINE Good == JobTypeOK' /\ SeenIsSettled' /\ NoMissingRecordReported'
<1>1. /\ status \in Statuses \cup {Absent}
      /\ status = "COMPLETED" => chain = "SETTLED"
  BY DEF ReconcileIInv, IInv, TypeOK, CompletedIsPaidAndBooked
<1>2. chain = "SETTLED" => chain' = "SETTLED"
  BY ReconcileStep
     DEF ReconcileIInv, Effects, Promise!Next, Promise!Pay, Promise!Record,
         Promise!Book, Promise!vars
<1> USE DEF JobTypeOK, SeenIsSettled, NoMissingRecordReported, ReconcileIInv, jgoto
<1>3. ASSUME UNCHANGED job PROVE Good
  BY <1>2, <1>3 DEF job
<1>4. ASSUME JobsLost PROVE Good
  <2>1. CASE crashes' # crashes
    BY <1>4, <2>1 DEF JobsLost, Absent
  <2>2. CASE crashes' = crashes
    BY <1>3, <1>4, <2>2 DEF JobsLost
  <2> QED BY <2>1, <2>2
<1>5. ASSUME NEW h \in Handlers, StaleCheck(h) \/ RepairWork(h) PROVE Good
  BY <1>3, <1>5 DEF StaleCheck, RepairWork, CallbackConfirmed, CallbackUnpaid
<1>6. ASSUME NEW j \in Jobs, JobStart(j) PROVE Good
  BY <1>1, <1>2, <1>6, ReconciliationAssumption DEF JobStart
<1>7. ASSUME NEW j \in Jobs, JobBank(j) PROVE Good
  <2>1. PICK D \in SUBSET {"BANK_UNCONFIRMED"} : found' = [found EXCEPT ![j] = @ \cup D]
    BY <1>7 DEF JobBank, orNothing
  <2>2. found' \in [Jobs -> SUBSET Discrepancies] /\ NoMissingRecordReported'
    BY <2>1 DEF Discrepancies
  <2> QED BY <1>2, <1>7, <2>2 DEF JobBank
<1>8. ASSUME NEW j \in Jobs, JobChain(j) PROVE Good
  <2>1. PICK D \in SUBSET {"CHAIN_AHEAD", "STALE_PENDING"} :
          /\ found' = [found EXCEPT ![j] = @ \cup D]
          /\ todo' = [todo EXCEPT ![j] = (found[j] \cup D) \cap autoRepairEligible]
    <3>1. PICK onChain \in orNothing(chainDiscrepancies(seen[j]), "chain_error"),
               stale \in SUBSET {"STALE_PENDING"} :
            /\ found' = [found EXCEPT ![j] = found[j] \cup onChain \cup stale]
            /\ todo' = [todo EXCEPT ![j] =
                          (found[j] \cup onChain \cup stale) \cap autoRepairEligible]
      BY <1>8 DEF JobChain
    <3>2. onChain \subseteq {"CHAIN_AHEAD"}
      BY <3>1 DEF orNothing, chainDiscrepancies
    <3>3. onChain \cup stale \in SUBSET {"CHAIN_AHEAD", "STALE_PENDING"}
      BY <3>2
    <3> QED BY <3>1, <3>3
  <2>2. found' \in [Jobs -> SUBSET Discrepancies] /\ NoMissingRecordReported'
    BY <2>1 DEF Discrepancies
  <2>3. todo' \in [Jobs -> SUBSET autoRepairEligible]
    BY <2>1
  <2> QED BY <1>2, <1>8, <2>2, <2>3 DEF JobChain
<1>9. ASSUME NEW j \in Jobs, RepairStalePending(j) PROVE Good
  BY <1>2, <1>9 DEF RepairStalePending
<1>10. ASSUME NEW j \in Jobs, SyncRead(j) PROVE Good
  BY <1>1, <1>2, <1>10 DEF SyncRead
<1>11. ASSUME NEW j \in Jobs, SyncSave(j) PROVE Good
  BY <1>2, <1>11 DEF SyncSave
<1>12. ASSUME NEW j \in Jobs, JobReport(j) PROVE Good
  BY <1>2, <1>12 DEF JobReport, storeReport, reportStatus, Absent
<1>13. CASE UNCHANGED allVars
  BY <1>3, <1>13 DEF allVars
<1> HIDE DEF Good
<1> QED
  BY <1>4, <1>5, <1>6, <1>7, <1>8, <1>9, <1>10, <1>11, <1>12, <1>13
     DEF ReconcileNext, JobWork, Good

LEMMA ReconcileInvariantHolds == ReconcileSpec => []ReconcileIInv
<1>1. ReconcileIInv /\ [ReconcileNext]_allVars => ReconcileIInv'
  BY ReconcileStep, JobsKeep DEF ReconcileIInv
<1> QED BY ReconcileInitHolds, <1>1, PTL DEF ReconcileSpec

(* No job reports a COMPLETED settlement that the ledger does not have as  *)
(* SETTLED, whenever it reads the one and the other.                       *)
THEOREM NoFalseAlarm == ReconcileSpec => []NoMissingRecordReported
<1>1. ReconcileIInv => NoMissingRecordReported
  BY DEF ReconcileIInv
<1> QED BY <1>1, ReconcileInvariantHolds, PTL

(* Repairs leave the booking of the escrow account as the flow keeps it.   *)
THEOREM RepairsBookOnce == ReconcileSpec => []CompletedIsPaidAndBooked
<1>1. ReconcileIInv => CompletedIsPaidAndBooked
  BY DEF ReconcileIInv, IInv
<1> QED BY <1>1, ReconcileInvariantHolds, PTL

(* Neither a repair nor a made-up callback brings a frozen, blocked or     *)
(* completed settlement back to life.                                      *)
THEOREM RepairsRespectStops == ReconcileSpec => SafetyStatusSticky
<1>1. ReconcileIInv /\ [ReconcileNext]_allVars => [Sticks]_vars
  BY ReconcileStep DEF ReconcileIInv, Effects
<1> QED
  BY <1>1, ReconcileInvariantHolds, PTL DEF ReconcileSpec, SafetyStatusSticky, Sticks

(* The flow implements the promise with the reconciliation running too.    *)
THEOREM RepairsKeepPromise == ReconcileSpec => KeepsPromise
<1>1. ReconcileInit => Promise!Init
  BY DEF ReconcileInit, Init, Promise!Init, Absent
<1>2. ReconcileIInv /\ [ReconcileNext]_allVars => [Promise!Next]_(Promise!vars)
  BY ReconcileStep DEF ReconcileIInv, Effects
<1> QED
  BY <1>1, <1>2, ReconcileInvariantHolds, PTL DEF ReconcileSpec, KeepsPromise, Promise!Spec
=============================================================================
