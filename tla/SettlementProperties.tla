------------------------ MODULE SettlementProperties ------------------------
(***************************************************************************)
(* What the settlement of a contract must never, and must always, do.      *)
(***************************************************************************)
EXTENDS SettlementFlow

(* Every variable has its type: the rows, the bank, the ledger, the locks  *)
(* and the locals of the handlers and polls.                               *)
TypeOK ==
  /\ status \in Statuses \cup {Absent}
  /\ retryCount \in 0..MaxRetries
  /\ results \in {"none", "successful", "unsuccessful"}
  /\ escrow \in Accounts
  /\ batch \in {"none", "PENDING", "SUCCESS", "FAILED"}
  /\ callbacks \subseteq CallbackStatuses
  /\ chain \in LedgerStatuses
  /\ opened \in 0..MaxDisputes
  /\ holderS \in Procs \cup {Nobody}
  /\ holderE \in Procs \cup {Nobody}
  /\ pc \in [Procs -> HandlerLabels \cup PollerLabels]
  /\ \A h \in Handlers : pc[h] \in HandlerLabels
  /\ \A p \in Pollers : pc[p] \in PollerLabels
  /\ poll \in [Pollers -> [upto : Nat, event : Nat, froze : BOOLEAN]]
  /\ lastProcessed \in Nat
  /\ processed \subseteq Nat
  /\ contractId \in {"bytes32", "plain"}
  /\ crashes \in 0..MaxCrashes

(* A row lock is held by a process that is inside the transaction that took *)
(* it, and a process that has taken one holds it until it ends: no early   *)
(* return or exception leaves a lock behind, and none is dropped halfway.  *)
LockDiscipline ==
  /\ \A h \in Handlers :
       holderS = h <=> pc[h] \in {"bt_call", "bt_commit", "cs_verify",
                                  "cs_block", "cs_send", "cs_confirm",
                                  "cs_debit"}
  /\ \A h \in Handlers : holderE # h
  /\ \A p \in Pollers :
       /\ holderS # p
       /\ holderE = p => pc[p] \in {"dl_read", "dl_lock"}
       /\ pc[p] \in {"dl_read", "dl_lock"} => holderE = p

(* completeSettlementOnChain is "ONLY called after bank transfer success":  *)
(* whatever callbacks, retries and restarts did, a contract SETTLED on the *)
(* ledger is one whose split transfer the bank has carried out.            *)
BankBeforeChain == chain = "SETTLED" => batch = "SUCCESS"

(* A COMPLETED settlement has been paid by the bank, recorded by the       *)
(* ledger, and its total has left the escrow balance exactly once; the     *)
(* balance of any other settlement is untouched.                           *)
CompletedIsPaidAndBooked ==
  IF status = "COMPLETED"
  THEN batch = "SUCCESS" /\ chain = "SETTLED" /\ escrow.balance = Deposit - Total
  ELSE escrow.balance = Deposit

(* Money the bank is sending, or has sent, stays frozen in the escrow until *)
(* the settlement is booked: no unlock after a failure, no retry and no    *)
(* dispute releases what a transfer under way is paid from.                *)
UnbookedPaymentBacked ==
  batch \in {"PENDING", "SUCCESS"} /\ status # "COMPLETED"
    => escrow.frozen >= Total

(* The escrow row satisfies the constraints of migration 003 through every *)
(* interleaving of freeze, unfreeze and debit.                             *)
EscrowSound == Sound(escrow)

(* A settlement that is frozen, blocked or completed is left alone by every *)
(* handler that was already under way: a stale callback or retry does not  *)
(* bring it back to life.                                                  *)
SafetyStatusSticky ==
  [][ (status \in {"FROZEN_BY_DISPUTE", "BLOCKED_BY_STATE_CHANGE",
                   "COMPLETED"}) => status' = status ]_vars

(* The ledger settles only a contract it has as VERIFIED, while the row is *)
(* locked in BANK_SUCCESS: no dispute freezes the settlement between the   *)
(* re-validation of the on-chain status and the transaction.               *)
SettleUnderLock ==
  [][chain' = "SETTLED" /\ chain # "SETTLED"
       => /\ chain = "VERIFIED"
          /\ status = "BANK_SUCCESS"
          /\ \E h \in Handlers : holderS = h]_vars

(* Once the listener has processed a dispute that is still open, of a      *)
(* contract whose rows it finds, the bank is not asked to pay: the         *)
(* settlement is frozen, or there is none yet and nothing is left in the   *)
(* escrow to start one with.                                               *)
DisputeHaltsPayment ==
  [][batch = "none" /\ batch' # "none"
       => ~(FindsRows /\ chain = "DISPUTED" /\ opened \in processed)]_vars

(* What makes the invariants above inductive: what each label, status and  *)
(* webhook says about the bank, the ledger and the locked row.             *)
Phases ==
  /\ "SUCCESS" \in callbacks => batch = "SUCCESS"
  /\ "FAILED" \in callbacks => batch = "FAILED"
  /\ status \in {"BANK_SUCCESS", "BLOCKCHAIN_FAILED"} => batch = "SUCCESS"
  /\ status = "BANK_FAILED" => batch = "FAILED"
  /\ status = Absent => batch = "none"
  /\ \A h \in Handlers :
       /\ pc[h] \in {"cb_success", "cb_confirmed"} => batch = "SUCCESS"
       /\ pc[h] \in {"cb_failed", "cb_unpaid", "ul_begin"} => batch = "FAILED"
       /\ pc[h] \in {"bt_call", "bt_commit"} => status = "ESCROW_LOCKED"
       /\ pc[h] \in {"cs_verify", "cs_block", "cs_send", "cs_confirm",
                    "cs_debit"} => status = "BANK_SUCCESS"
       /\ pc[h] \in {"cs_confirm", "cs_debit"} => chain = "SETTLED"

(* The money: until the bank has refused the transfer nothing the          *)
(* settlement has frozen is released.                                      *)
Money ==
  /\ status \notin {Absent, "COMPLETED"} /\ batch # "FAILED"
       => escrow.frozen >= Total
  /\ EscrowSound

(* The inductive invariant of the flow.                                    *)
IInv ==
  /\ TypeOK /\ LockDiscipline /\ Phases /\ Money
  /\ BankBeforeChain /\ CompletedIsPaidAndBooked

(* What makes DisputeHaltsPayment inductive where the bank does not fail to *)
(* freeze.  The listener knows no event before its dispute, and a poll that *)
(* has locked the account has frozen what is available in it.              *)
ListenerFacts ==
  /\ lastProcessed <= opened /\ processed \subseteq 1..opened
  /\ \A p \in Pollers :
       /\ poll[p].upto <= opened
       /\ pc[p] # "idle" => poll[p].event >= 1
       /\ pc[p] \in {"dl_escrow", "dl_read", "dl_lock"} => poll[p].event <= poll[p].upto
       /\ pc[p] \in {"dl_read", "dl_lock"}
            => poll[p].froze \/ availableBalance(escrow) = 0
       /\ poll[p].froze => pc[p] \in {"dl_read", "dl_lock"}

\* Before the bank is asked, a settlement is on its way there or frozen.
Unpaid ==
  /\ batch = "none" => status \in {Absent, "ESCROW_LOCKED", "FROZEN_BY_DISPUTE"}
  /\ \A h \in Handlers : pc[h] = "bt_commit" => batch # "none"

Halted ==
  FindsRows /\ batch = "none" /\ opened \in processed
    => \/ status = "FROZEN_BY_DISPUTE"
       \/ status = Absent /\ availableBalance(escrow) = 0

DisputeIInv == IInv /\ ListenerFacts /\ Unpaid /\ Halted

(* Bank, then ledger, then completion: the promise of SettlementPromise.   *)
Promise ==
  INSTANCE SettlementPromise
    WITH paid <- (batch = "SUCCESS"), settled <- (chain = "SETTLED"),
         booked <- (status = "COMPLETED"), kept <- escrow.balance

(* The flow implements the promise under that mapping, with every handler, *)
(* poll, fault and restart a stutter or one of its steps.                  *)
KeepsPromise == Promise!Spec

(* Every handler that starts ends: no two handlers, and no handler and     *)
(* poll, wait for each other's row locks for ever.                         *)
HandlersFinish == \A h \in Handlers : pc[h] # "idle" ~> pc[h] = "idle"

(* Every DisputeOpened event is eventually behind the listener, although   *)
(* overlapping polls may set lastProcessedBlock back.                      *)
DisputesPolled ==
  \A n \in 1..MaxDisputes : opened >= n ~> lastProcessed >= n
=============================================================================
