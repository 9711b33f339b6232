---------------------------- MODULE FeeProperties ----------------------------
(***************************************************************************)
(* What the parties of an akad are promised about the amounts.             *)
(***************************************************************************)
EXTENDS FeePolicy

leg(r) == IF r \in DOMAIN split THEN split[r] ELSE 0

\* The amounts of the contract are ones a JavaScript number holds exactly.
Exact == feeInfo.totalAmount <= MAX_EXACT

(* The legs the bank is given pay out the whole of the contract, and give  *)
(* each recipient what the ledger records for him: no leg is dropped while *)
(* its amount is still counted in the total.  Amounts above MAX_EXACT are  *)
(* rounded on the way, and their legs need not add up.                     *)
LegsPayEverything ==
  split # None /\ Exact =>
    /\ leg("SELLER") + leg("PLATFORM") + leg("MEDIATOR") = feeInfo.totalAmount
    /\ \A r \in Recipients : leg(r) = amounts(feeInfo)[r]

(* Terms the ledger has accepted, and that nobody can change any more, can *)
(* be split: the service refuses none of them for what they say, so that   *)
(* a buyer's money cannot be taken in under terms that never pay out.      *)
(* Terms above MAX_EXACT may be refused: rounded, they need not add up.    *)
LedgerTermsSplit ==
  feeInfo # None /\ Exact => splitAllowed(fromPayoutInfo(feeInfo), Recipients)

(* A report of what the bank really charged, of a contract whose amounts   *)
(* are exact, is refused only if the seller bears a fee that leaves him    *)
(* less than a hundredth of his amount, or the platform one that exceeds   *)
(* its fee.                                                                *)
TrueReportSettles ==
  /\ verdict = "refused" /\ Exact
  /\ report = calculateActualAmounts(fromPayoutInfo(feeInfo), networkFee)
  => \/ /\ feeInfo.networkFeeBearer = "SELLER"
        /\ feeInfo.sellerAmount - networkFee < feeInfo.sellerAmount \div 100
     \/ /\ feeInfo.networkFeeBearer = "PLATFORM"
        /\ feeInfo.platformFee < networkFee
=============================================================================
