------------------------------ MODULE FeePolicy ------------------------------
(***************************************************************************)
(* The way of the amounts of one contract: agreed in the akad (network-    *)
(* fee.types.ts), recorded on the ledger (createContract), read back and   *)
(* turned into transfer legs (split-payment.value.ts), paid by the bank,   *)
(* which charges a network fee, and reported to the ledger, which refuses  *)
(* a report against the declared bearer (_validateNetworkFeePolicy).       *)
(***************************************************************************)
EXTENDS FeeStructure

CONSTANTS
  Totals,               \* the totals of the contracts
  Structures,           \* fee structures, each satisfying validFees
  NetworkFees,          \* what a bank transfer is expected to cost, or costs
  Slips,                \* how far an entered amount may be off the agreed one
  MAX_FEE_BPS,
  MAX_EXACT,            \* 2^53: up to it every integer is a number of JavaScript
  None                  \* model value: nothing yet

ASSUME TotalsAssumption == Totals \subseteq Nat
ASSUME StructuresAssumption == \A fs \in Structures : validFees(fs)
ASSUME NetworkFeesAssumption == NetworkFees \subseteq Nat
ASSUME SlipsAssumption == Slips \subseteq Int
ASSUME ExactAssumption == MAX_EXACT \in Nat \ {0}
ASSUME NoneAssumption == None # "refused"

NetworkFeeBearer == {"PLATFORM", "SELLER", "BUYER"}
Recipients == {"SELLER", "PLATFORM", "MEDIATOR"}

VARIABLES
  akad,                 \* the disclosure both parties sign
  feeInfo,              \* the terms on the ledger
  split,                \* the SplitPayment: what to transfer to whom
  networkFee,           \* what the bank charged
  report, verdict       \* the markSettled call, and the ledger's answer

vars == <<akad, feeInfo, split, networkFee, report, verdict>>

Init ==
  /\ akad = None /\ feeInfo = None /\ split = None
  /\ networkFee = None /\ report = None /\ verdict = None

amounts(terms) ==
  [r \in Recipients |-> CASE r = "SELLER" -> terms.sellerAmount
                          [] r = "PLATFORM" -> terms.platformFee
                          [] r = "MEDIATOR" -> terms.mediatorFee]
-----------------------------------------------------------------------------
(* A double holds an integer above MAX_EXACT only if it is a multiple of a *)
(* power of two; the others go to the nearest one, a tie to the even one.  *)

ulp(n) == 2 ^ (CHOOSE e \in 1..n : /\ n <= MAX_EXACT * 2^e
                                   /\ \A d \in 0..(e - 1) : n > MAX_EXACT * 2^d)

\* A negative number is left as it is: only its sign is ever looked at.
Number(n) ==
  IF n <= MAX_EXACT THEN n
  ELSE LET u == ulp(n)
           below == n \div u
           rest == n % u
           up == 2 * rest > u \/ (2 * rest = u /\ below % 2 = 1)
       IN u * (IF up THEN below + 1 ELSE below)
-----------------------------------------------------------------------------
(* createAkadFeeDisclosure over the breakdown of the fee structure.  Its   *)
(* amounts are numbers too; they are kept exact here, since the ledger     *)
(* takes what is entered below, as integers that add up.                   *)

calculateSellerNetAfterFees(sellerAmount, fee, bearer) ==
  IF bearer # "SELLER" THEN sellerAmount
  ELSE IF sellerAmount > fee THEN sellerAmount - fee ELSE 0

AkadFeeDisclosure(total, fs, fees, bearer, estimate) ==
  [totalAmount |-> total, feeBps |-> fs.platformFeeBps,
   sellerAmount |-> fees.sellerAmount,
   platformFee |-> fees.platformFee, mediatorFee |-> fees.mediatorFee,
   networkFeeBearer |-> bearer, estimatedNetworkFee |-> estimate,
   sellerNetAfterFees |-> calculateSellerNetAfterFees(fees.sellerAmount, estimate, bearer)]

Disclose(total, fs, bearer, estimate) ==
  /\ akad = None
  /\ \E fees \in calculateFees(fs, total) :
       akad' = AkadFeeDisclosure(total, fs, fees, bearer, estimate)
  /\ UNCHANGED <<feeInfo, split, networkFee, report, verdict>>
-----------------------------------------------------------------------------
(* createContract of the ledger.                                           *)

(* Mutant of acceptsTerms: the platform may promise to bear any fee.       *)
acceptsTermsAnyBearer(t, signed) ==
  /\ t.totalAmount # 0
  /\ t.feeBps <= MAX_FEE_BPS
  /\ t.platformFee + t.sellerAmount + t.mediatorFee = t.totalAmount
  /\ signed

acceptsTerms(t, signed) ==
  /\ t.totalAmount # 0
  /\ t.feeBps <= MAX_FEE_BPS
  /\ t.platformFee + t.sellerAmount + t.mediatorFee = t.totalAmount
  /\ signed
  /\ t.networkFeeBearer = "PLATFORM" => t.platformFee >= t.estimatedNetworkFee

(* The operator enters the amounts by hand: the call takes each of them,   *)
(* and nothing ties them to the disclosure but its hash, zero if unsigned. *)
createContract(sellerSlip, platformSlip, signed) ==
  /\ akad # None /\ feeInfo = None
  /\ akad.sellerAmount + sellerSlip >= 0
  /\ akad.platformFee + platformSlip >= 0
  /\ LET entered == [akad EXCEPT !.sellerAmount = @ + sellerSlip,
                                 !.platformFee = @ + platformSlip]
     IN acceptsTerms(entered, signed) /\ feeInfo' = entered
  /\ UNCHANGED <<akad, split, networkFee, report, verdict>>
-----------------------------------------------------------------------------
(* SplitPayment.fromPayoutInfo over the terms of the ledger and the        *)
(* account numbers the database and the configuration hold.                *)

\* Any of the account numbers may be missing.
getTransferAccounts == SUBSET Recipients

\* The uint256 amounts of the ledger become numbers.
fromPayoutInfo(t) ==
  [totalAmount |-> Number(t.totalAmount), sellerAmount |-> Number(t.sellerAmount),
   platformFee |-> Number(t.platformFee), mediatorFee |-> Number(t.mediatorFee),
   networkFeeBearer |-> t.networkFeeBearer,
   estimatedNetworkFee |-> Number(t.estimatedNetworkFee)]

\* The sum of numbers that is compared with the total.
sum(t) == Number(Number(t.sellerAmount + t.platformFee) + t.mediatorFee)

(* Mutant of splitAllowed: a mediator's fee needs no account of his.       *)
splitAllowedNoMediator(t, accounts) ==
  /\ t.totalAmount > 0
  /\ sum(t) = t.totalAmount
  /\ {"SELLER", "PLATFORM"} \subseteq accounts
  /\ t.networkFeeBearer = "PLATFORM" => t.estimatedNetworkFee <= t.platformFee

splitAllowed(t, accounts) ==
  /\ t.totalAmount > 0
  /\ sum(t) = t.totalAmount
  /\ {"SELLER", "PLATFORM"} \subseteq accounts
  /\ t.mediatorFee > 0 => "MEDIATOR" \in accounts
  /\ t.networkFeeBearer = "PLATFORM" => t.estimatedNetworkFee <= t.platformFee

\* A leg for every amount above zero, the mediator's if he has an account.
buildTransferLegs(t, accounts) ==
  LET paid == {r \in Recipients : /\ amounts(t)[r] > 0
                                  /\ r = "MEDIATOR" => "MEDIATOR" \in accounts}
  IN [r \in paid |-> amounts(t)[r]]

\* Each leg goes to an account with a number and a bank code of due length.
validateAccounts(legs, wellFormed) == DOMAIN legs \subseteq wellFormed

(* Terms or accounts that are refused end in ROLLBACK; the settlement may *)
(* be asked for again.                                                     *)
initiateSettlement(accounts, wellFormed) ==
  /\ feeInfo # None /\ split = None
  /\ LET terms == fromPayoutInfo(feeInfo)
         legs == buildTransferLegs(terms, accounts)
     IN /\ splitAllowed(terms, accounts)
        /\ validateAccounts(legs, wellFormed)
        /\ split' = legs
  /\ UNCHANGED <<akad, feeInfo, networkFee, report, verdict>>

\* The bank executes the legs as they are and charges its fee.
BankTransfers(fee) ==
  /\ split # None /\ networkFee = None
  /\ networkFee' = fee
  /\ UNCHANGED <<akad, feeInfo, split, report, verdict>>
-----------------------------------------------------------------------------
(* markSettled: what is reported, and what the ledger makes of it.         *)

\* calculateActualAmounts, of a SplitPayment made from terms t.
calculateActualAmounts(t, fee) ==
  [actualNetworkFee |-> fee,
   sellerNetReceived |->
     Number(t.sellerAmount - IF t.networkFeeBearer = "SELLER" THEN fee ELSE 0),
   platformNetReceived |->
     Number(t.platformFee - IF t.networkFeeBearer = "PLATFORM" THEN fee ELSE 0)]

\* LedgerSyncService.markSettled, to which the orchestrator hands no audit.
DefaultAudit == [actualNetworkFee |-> 0, sellerNetReceived |-> 0, platformNetReceived |-> 0]

\* A negative amount is no uint256: the call is refused before it is sent.
Uint(r) == r.sellerNetReceived >= 0 /\ r.platformNetReceived >= 0

(* Mutant of followsPolicy: what the seller should get is worked out from  *)
(* the estimate of the akad.                                               *)
followsPolicyOfEstimate(t, r) ==
  /\ t.networkFeeBearer = "PLATFORM" => r.sellerNetReceived >= t.sellerAmount
  /\ t.networkFeeBearer = "SELLER" =>
       LET expected == IF t.sellerAmount > t.estimatedNetworkFee
                       THEN t.sellerAmount - t.estimatedNetworkFee ELSE 0
           tolerance == t.sellerAmount \div 100
       IN expected >= tolerance /\ r.sellerNetReceived >= expected - tolerance

(* _validateNetworkFeePolicy.  The subtraction of the tolerance is checked *)
(* arithmetic: it reverts when the tolerance exceeds what is expected.     *)
followsPolicy(t, r) ==
  /\ t.networkFeeBearer = "PLATFORM" => r.sellerNetReceived >= t.sellerAmount
  /\ t.networkFeeBearer = "SELLER" =>
       LET expected == IF t.sellerAmount > r.actualNetworkFee
                       THEN t.sellerAmount - r.actualNetworkFee ELSE 0
           tolerance == t.sellerAmount \div 100
       IN expected >= tolerance /\ r.sellerNetReceived >= expected - tolerance

\* As shipped never audited; a settlement that failed is retried.
markSettled(audited) ==
  /\ networkFee # None /\ verdict # "settled"
  /\ LET r == IF audited THEN calculateActualAmounts(fromPayoutInfo(feeInfo), networkFee)
              ELSE DefaultAudit
     IN /\ report' = r
        /\ verdict' = IF Uint(r) /\ followsPolicy(feeInfo, r) THEN "settled" ELSE "refused"
  /\ UNCHANGED <<akad, feeInfo, split, networkFee>>
-----------------------------------------------------------------------------
Next ==
  \/ \E total \in Totals, fs \in Structures, bearer \in NetworkFeeBearer, estimate \in NetworkFees :
       Disclose(total, fs, bearer, estimate)
  \/ \E s, p \in Slips, signed \in BOOLEAN : createContract(s, p, signed)
  \/ \E accounts \in getTransferAccounts : \E wellFormed \in SUBSET accounts :
       initiateSettlement(accounts, wellFormed)
  \/ \E fee \in NetworkFees : BankTransfers(fee)
  \/ \E audited \in BOOLEAN : markSettled(audited)

Spec == Init /\ [][Next]_vars
=============================================================================
