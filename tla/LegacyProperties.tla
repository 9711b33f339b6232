--------------------------- MODULE LegacyProperties ---------------------------
(***************************************************************************)
(* What the first generation of the backend promises about one contract.   *)
(***************************************************************************)
EXTENDS LegacyContracts

payoutDone == \A r \in Recipients : paid[r] >= fees[r]

(* Whatever overwrites the row and whichever transfers fail unnoticed      *)
(* (SettleContractUseCase.ts:160 looks at no result): a contract that the  *)
(* row or the chain calls settled has paid out every share of it.          *)
SettledIsPaid ==
  row # None /\ (row.status = "SETTLED" \/ chain = "SETTLED") => payoutDone

(* A row that says the money of the contract is in escrow names an account *)
(* the bank has opened for it, which holds the total unless the seller has *)
(* been paid; so does the chain, on which the row may be overwritten later *)
(* (PostgresContractRepository.ts:124-160).                                *)
FundedIsHeld ==
  /\ row # None /\ row.status \in ESCROW_ACTIVE_STATUSES =>
       /\ row.account \in DOMAIN accounts
       /\ accounts[row.account].balance = Total \/ paid["sellerAmount"] >= fees.sellerAmount
  /\ chain \in ESCROW_ACTIVE_STATUSES => accounts # <<>>

(* A run of the reconciliation job during which nothing changed, and which *)
(* was answered, stores COMPLETED only if the chain agrees with an active  *)
(* row and the account of a funded one holds its total                     *)
(* (ReconciliationJob.ts:316: one critical discrepancy asks for a review). *)
QuietRunTells ==
  [][job.pc = "store" /\ job'.pc = "idle" /\ report' = "COMPLETED"
     /\ job.seen = <<row, chain, accounts>>
     => /\ "chain" \in job.heard => chain = row.status
        /\ "bank" \in job.heard /\ row.status \in {"FUNDED", "VERIFIED"}
           => accounts[row.account].balance = Total]_vars

(* ProcessQRISPaymentUseCase.ts:70: "Cek idempotency - jangan proses       *)
(* dobel" (check idempotency, do not process twice): one payment opens one *)
(* escrow account.                                                         *)
OneEscrowPerPayment ==
  \A i, j \in DOMAIN accounts : accounts[i].reference = accounts[j].reference => i = j
-----------------------------------------------------------------------------
(* The inductive invariant behind the two safety properties: whatever a    *)
(* call has loaded, changed and not yet saved is as true of the bank as    *)
(* the row, since accounts only fill up and payments are never taken back. *)

sum == fees.sellerAmount + fees.platformFee

isCall(h) ==
  /\ h = [kind |-> h.kind, pc |-> h.pc, copy |-> h.copy, note |-> h.note]
  /\ h.kind \in {None, "create", "pay", "officer", "settle"}
  /\ h.pc \in {"idle", "record", "key", "load", "open", "save", "setKey", "chain",
               "balance", "transfer", "close"}
  /\ h.copy \in ContractType \cup {None}
  /\ h.kind = "pay" => h.note \in Notifications
  /\ h.kind = "officer" => h.note \in OfficerStatuses

\* The shares make up the total, and the mediator's is less than half of it.
feesSound ==
  /\ fees.sellerAmount \in Nat /\ fees.platformFee \in Nat /\ fees.mediatorFee \in Nat
  /\ sum + fees.mediatorFee = Total
  /\ 2 * fees.mediatorFee < Total

\* Nothing has left an account, or one batch of transfers, which is booked.
bankSound ==
  /\ accounts \in Seq([reference : References, balance : Int, open : BOOLEAN])
  /\ paid \in [Recipients -> Int] /\ \A r \in Recipients : paid[r] >= 0
  /\ \A i \in DOMAIN accounts :
       \/ accounts[i].balance = Total
       \/ /\ accounts[i].balance = Total - sum
          /\ paid["sellerAmount"] >= fees.sellerAmount
          /\ paid["platformFee"] >= fees.platformFee

contractSound(contract) ==
  /\ contract \in ContractType
  /\ contract.status \in ESCROW_ACTIVE_STATUSES => contract.account \in DOMAIN accounts
  /\ contract.status = "SETTLED" => payoutDone

chainSound ==
  /\ chain \in ContractStatus \cup {None}
  /\ chain = "SETTLED" => payoutDone
  /\ chain \in ESCROW_ACTIVE_STATUSES => accounts # <<>>

handlerSound(p) ==
  /\ isCall(handler[p])
  /\ at(p, "open") => handler[p].kind = "pay"
  /\ at(p, "open") \/ at(p, "save") \/ at(p, "chain") \/ at(p, "balance")
       \/ at(p, "transfer") \/ at(p, "close")
       \/ (at(p, "record") /\ handler[p].kind # "create")
     => row # None /\ contractSound(handler[p].copy)
  /\ at(p, "chain") \/ at(p, "balance") \/ at(p, "transfer") \/ at(p, "close")
     => handler[p].copy.status = "VERIFIED"

worldSound ==
  IF row = None
  THEN accounts = <<>> /\ paid = [r \in Recipients |-> 0] /\ chain \in {None, "CREATED"}
  ELSE feesSound /\ bankSound /\ chainSound /\ contractSound(row)

IInv ==
  /\ handler = [p \in Handlers |-> handler[p]]
  /\ worldSound
  /\ \A p \in Handlers : handlerSound(p)
-----------------------------------------------------------------------------
(* The invariant behind QuietRunTells.  The chain only moves on and the    *)
(* balance of an account only falls, so what is the same at the end of a   *)
(* run as at its beginning was the same when the job asked for it.         *)

stages == [CREATED |-> 1, FUNDED |-> 2, VERIFIED |-> 3, DISPUTED |-> 4, SETTLED |-> 5,
           CANCELLED |-> 6]
stage(status) == IF status = None THEN 0 ELSE stages[status]

\* What a run has seen of the chain and of the accounts when it began.
chainSeen == job.seen[2]
accountsSeen == job.seen[3]

chainMovedOn ==
  chainSeen \in ContractStatus \cup {None} /\ stage(chainSeen) <= stage(chain)

balancesFell ==
  \A i \in DOMAIN accountsSeen :
    /\ accountsSeen[i].balance \in Int
    /\ i \in DOMAIN accounts /\ accounts[i].balance <= accountsSeen[i].balance

\* What a run that has found nothing critical may conclude so far.
chainAgreed ==
  "chain" \in job.heard /\ "CRITICAL" \notin job.found /\ chain = chainSeen
    => chain = job.copy.status

balanceAgreed ==
  "bank" \in job.heard /\ "CRITICAL" \notin job.found
    /\ job.copy.status \in {"FUNDED", "VERIFIED"}
    /\ accounts[job.copy.account].balance = accountsSeen[job.copy.account].balance
    => accounts[job.copy.account].balance = Total

runSound ==
  /\ job.seen = <<job.copy, chainSeen, accountsSeen>>
  /\ job.pc = "chain" => job.heard = {} /\ job.found = {}
  /\ job.pc \in {"chain", "bank"} \/ job.heard # {} =>
       /\ job.copy \in ContractType
       /\ job.copy.status \in ESCROW_ACTIVE_STATUSES
            => job.copy.account \in DOMAIN accountsSeen
  /\ chainMovedOn /\ balancesFell /\ chainAgreed /\ balanceAgreed

jobSound ==
  /\ job = [pc |-> job.pc, copy |-> job.copy, found |-> job.found, heard |-> job.heard,
            seen |-> job.seen]
  /\ job.pc # "idle" => runSound

JobIInv == IInv /\ jobSound
=============================================================================
