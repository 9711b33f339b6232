--------------------------- MODULE FeePolicy_proofs ---------------------------
(***************************************************************************)
(* For every fee structure, every total and every slip of the operator:    *)
(* terms the ledger has accepted can be split, and the legs of the split   *)
(* pay out the whole of the contract, as long as its total is an amount    *)
(* that a JavaScript number holds exactly.                                 *)
(***************************************************************************)
EXTENDS FeeProperties, TLAPS

Terms ==
  [totalAmount : Nat, feeBps : Int, sellerAmount : Int, platformFee : Int,
   mediatorFee : Nat, networkFeeBearer : NetworkFeeBearer,
   estimatedNetworkFee : Nat, sellerNetAfterFees : Int]

AkadSound == akad # None => akad \in Terms

LedgerSound ==
  feeInfo # None =>
    /\ feeInfo \in Terms
    /\ feeInfo.sellerAmount >= 0 /\ feeInfo.platformFee >= 0
    /\ feeInfo.totalAmount > 0
    /\ feeInfo.sellerAmount + feeInfo.platformFee + feeInfo.mediatorFee = feeInfo.totalAmount
    /\ feeInfo.networkFeeBearer = "PLATFORM" =>
         feeInfo.estimatedNetworkFee <= feeInfo.platformFee

SplitSound ==
  split # None =>
    /\ feeInfo # None
    /\ \E accounts \in SUBSET Recipients :
         /\ splitAllowed(fromPayoutInfo(feeInfo), accounts)
         /\ split = buildTransferLegs(fromPayoutInfo(feeInfo), accounts)

\* The terms and the charge a refusal was about are the ones still there.
VerdictSound ==
  /\ networkFee # None => networkFee \in Nat /\ split # None
  /\ verdict = "refused" =>
       /\ networkFee # None
       /\ ~(Uint(report) /\ followsPolicy(feeInfo, report))

IInv == AkadSound /\ LedgerSound /\ SplitSound /\ VerdictSound

(* A percentage of an amount is a natural number, whichever way a tie of   *)
(* the rounding goes (Money.ts:86-98).                                     *)
LEMMA PercentageIsNatural ==
  ASSUME NEW amount \in Nat, NEW bps \in Nat
  PROVE  percentage(amount, bps) \subseteq Nat
<1> DEFINE half(p) == (2 * p + BasisPoints) \div (2 * BasisPoints)
<1>1. amount * bps \in Nat
  OBVIOUS
<1>2. ASSUME NEW p \in Nat
      PROVE  /\ half(p) \in Nat
             /\ (2 * p) % (2 * BasisPoints) = BasisPoints => half(p) - 1 \in Nat
  BY SMT DEF BasisPoints
<1>3. 2 * amount * bps = 2 * (amount * bps)
  BY <1>1
<1> HIDE DEF half
<1>4. /\ half(amount * bps) \in Nat
      /\ (2 * amount * bps) % (2 * BasisPoints) = BasisPoints => half(amount * bps) - 1 \in Nat
  BY <1>1, <1>2, <1>3
<1>5. percentage(amount, bps) =
        {half(amount * bps)} \cup
        IF (2 * amount * bps) % (2 * BasisPoints) = BasisPoints
        THEN {half(amount * bps) - 1} ELSE {}
  BY <1>3 DEF percentage, half
<1>6. QED
  BY <1>4, <1>5

(* What calculateFees returns: integer shares, the mediator's not negative *)
(* (FeeStructure.ts:81-121).                                               *)
LEMMA FeesAreAmounts ==
  ASSUME NEW fs, validFees(fs), NEW total \in Nat, NEW fees \in calculateFees(fs, total)
  PROVE  /\ fees.sellerAmount \in Int /\ fees.platformFee \in Int
         /\ fees.mediatorFee \in Nat
<1>1. fs.platformFeeBps \in Nat /\ fs.mediatorFeeBps \in Nat
  BY DEF validFees, FeeStructures
<1>2. /\ percentage(total, fs.platformFeeBps) \subseteq Nat
      /\ percentage(total, fs.mediatorFeeBps) \subseteq Nat
  BY <1>1, PercentageIsNatural
<1>3. /\ fs.platformFixedFee \in Nat
      /\ fs.minimumPlatformFee \in Nat
      /\ fs.maximumPlatformFee \in Nat
  BY DEF validFees, FeeStructures
<1>4. platformFees(fs, total) \subseteq Nat
  BY <1>2, <1>3 DEF platformFees
<1>5. PICK f \in platformFees(fs, total) \X mediatorFees(fs, total) :
        fees = [sellerAmount |-> total - f[1] - f[2],
                platformFee |-> f[1], mediatorFee |-> f[2]]
  BY DEF calculateFees
<1>6. f[1] \in Nat /\ f[2] \in Nat
  BY <1>2, <1>4 DEF mediatorFees
<1>7. QED
  BY <1>5, <1>6

(* The disclosure of an akad is made of amounts.                           *)
LEMMA DiscloseKeepsIInv ==
  ASSUME IInv,
         NEW total \in Totals, NEW fs \in Structures,
         NEW bearer \in NetworkFeeBearer, NEW estimate \in NetworkFees,
         Disclose(total, fs, bearer, estimate)
  PROVE  IInv'
<1>1. total \in Nat /\ estimate \in Nat /\ validFees(fs)
  BY TotalsAssumption, NetworkFeesAssumption, StructuresAssumption
<1>2. PICK fees \in calculateFees(fs, total) :
        akad' = AkadFeeDisclosure(total, fs, fees, bearer, estimate)
  BY DEF Disclose
<1>3. /\ fees.sellerAmount \in Int /\ fees.platformFee \in Int /\ fees.mediatorFee \in Nat
      /\ fs.platformFeeBps \in Int
  BY <1>1, FeesAreAmounts DEF validFees, FeeStructures
<1>4. calculateSellerNetAfterFees(fees.sellerAmount, estimate, bearer) \in Int
  BY <1>1, <1>3 DEF calculateSellerNetAfterFees
<1>5. AkadSound'
  BY <1>1, <1>2, <1>3, <1>4 DEF AkadSound, Terms, AkadFeeDisclosure
<1>6. LedgerSound' /\ SplitSound' /\ VerdictSound'
  BY DEF Disclose, IInv, LedgerSound, SplitSound, VerdictSound
<1>7. QED
  BY <1>5, <1>6 DEF IInv

(* The ledger accepts only terms that can be split.                        *)
LEMMA CreateKeepsIInv ==
  ASSUME IInv, NEW s \in Slips, NEW p \in Slips, NEW signed \in BOOLEAN,
         createContract(s, p, signed)
  PROVE  IInv'
<1> DEFINE entered == [akad EXCEPT !.sellerAmount = @ + s, !.platformFee = @ + p]
<1>1. s \in Int /\ p \in Int
  BY SlipsAssumption
<1>2. akad \in Terms
  BY DEF IInv, AkadSound, createContract
<1>3. /\ entered \in Terms
      /\ entered.sellerAmount = akad.sellerAmount + s
      /\ entered.platformFee = akad.platformFee + p
  <2> DEFINE once == [akad EXCEPT !.sellerAmount = @ + s]
  <2>1. akad.sellerAmount + s \in Int /\ akad.platformFee + p \in Int
    BY <1>1, <1>2 DEF Terms
  <2>2. once \in Terms /\ once.sellerAmount = akad.sellerAmount + s
                       /\ once.platformFee = akad.platformFee
    BY <1>2, <2>1 DEF Terms
  <2>3. entered = [once EXCEPT !.platformFee = akad.platformFee + p]
    BY <2>2 DEF Terms
  <2> HIDE DEF once
  <2>4. QED
    BY <2>1, <2>2, <2>3 DEF Terms
<1>4. /\ acceptsTerms(entered, signed)
      /\ feeInfo' = entered
      /\ akad.sellerAmount + s >= 0 /\ akad.platformFee + p >= 0
      /\ feeInfo = None /\ UNCHANGED <<akad, split, networkFee, report, verdict>>
  BY DEF createContract
<1>5. entered.sellerAmount >= 0 /\ entered.platformFee >= 0
  BY <1>3, <1>4
<1> HIDE DEF entered
<1>6. /\ entered.totalAmount > 0
      /\ entered.sellerAmount + entered.platformFee + entered.mediatorFee = entered.totalAmount
      /\ entered.networkFeeBearer = "PLATFORM" =>
           entered.estimatedNetworkFee <= entered.platformFee
  BY <1>3, <1>4, <1>5 DEF acceptsTerms, Terms
<1>7. LedgerSound'
  BY <1>3, <1>4, <1>5, <1>6 DEF LedgerSound
<1>8. AkadSound' /\ SplitSound'
  BY <1>4 DEF IInv, AkadSound, SplitSound
<1>9. VerdictSound'
  <2>1. networkFee = None
    BY <1>4 DEF IInv, SplitSound, VerdictSound
  <2>2. verdict # "refused"
    BY <2>1 DEF IInv, VerdictSound
  <2>3. QED
    BY <1>4, <2>1, <2>2 DEF VerdictSound
<1>10. QED
  BY <1>7, <1>8, <1>9 DEF IInv

(* A refused report is one the ledger's policy is against, for the charge  *)
(* of the bank that was reported.                                          *)
LEMMA LateStepsKeepVerdict ==
  ASSUME IInv,
         \/ \E accounts \in getTransferAccounts : \E wellFormed \in SUBSET accounts :
              initiateSettlement(accounts, wellFormed)
         \/ \E fee \in NetworkFees : BankTransfers(fee)
         \/ \E audited \in BOOLEAN : markSettled(audited)
         \/ UNCHANGED vars
  PROVE  VerdictSound'
<1>1. ASSUME NEW accounts, NEW wellFormed, initiateSettlement(accounts, wellFormed)
      PROVE  VerdictSound'
  BY <1>1 DEF initiateSettlement, IInv, VerdictSound
<1>2. ASSUME NEW fee \in NetworkFees, BankTransfers(fee)
      PROVE  VerdictSound'
  BY <1>2, NetworkFeesAssumption DEF BankTransfers, IInv, VerdictSound
<1>3. ASSUME NEW audited \in BOOLEAN, markSettled(audited)
      PROVE  VerdictSound'
  <2> DEFINE r == IF audited THEN calculateActualAmounts(fromPayoutInfo(feeInfo), networkFee)
                  ELSE DefaultAudit
  <2>1. /\ report' = r
        /\ verdict' = IF Uint(r) /\ followsPolicy(feeInfo, r) THEN "settled" ELSE "refused"
        /\ networkFee # None /\ UNCHANGED <<feeInfo, split, networkFee>>
    BY <1>3 DEF markSettled
  <2> HIDE DEF r
  <2>2. verdict' = "refused" => ~(Uint(r) /\ followsPolicy(feeInfo, r))
    BY <2>1
  <2>3. /\ Uint(report)' = Uint(r)
        /\ followsPolicy(feeInfo, report)' = followsPolicy(feeInfo, r)
    BY <2>1 DEF Uint, followsPolicy
  <2>4. QED
    BY <2>1, <2>2, <2>3 DEF IInv, VerdictSound
<1>4. CASE UNCHANGED vars
  BY <1>4 DEF vars, IInv, VerdictSound, Uint, followsPolicy
<1>5. QED
  BY <1>1, <1>2, <1>3, <1>4

(* The strengthened invariant: what was disclosed and entered are amounts, *)
(* the legs are those of the terms on the ledger, and a refusal is one of  *)
(* its policy.                                                             *)
THEOREM Inductive == Spec => []IInv
<1>1. Init => IInv
  BY NoneAssumption DEF Init, IInv, AkadSound, LedgerSound, SplitSound, VerdictSound
<1>2. IInv /\ [Next]_vars => IInv'
  <2> SUFFICES ASSUME IInv, [Next]_vars PROVE IInv'
    OBVIOUS
  <2>1. CASE \E total \in Totals, fs \in Structures, bearer \in NetworkFeeBearer,
                estimate \in NetworkFees : Disclose(total, fs, bearer, estimate)
    BY <2>1, DiscloseKeepsIInv
  <2>2. CASE \E s, p \in Slips, signed \in BOOLEAN : createContract(s, p, signed)
    BY <2>2, CreateKeepsIInv
  <2>3. CASE \E accounts \in getTransferAccounts : \E wellFormed \in SUBSET accounts :
               initiateSettlement(accounts, wellFormed)
    BY <2>3, LateStepsKeepVerdict DEF initiateSettlement, getTransferAccounts, IInv, AkadSound, LedgerSound, SplitSound
  <2>4. CASE \E fee \in NetworkFees : BankTransfers(fee)
    BY <2>4, LateStepsKeepVerdict DEF BankTransfers, IInv, AkadSound, LedgerSound, SplitSound
  <2>5. CASE \E audited \in BOOLEAN : markSettled(audited)
    BY <2>5, LateStepsKeepVerdict DEF markSettled, IInv, AkadSound, LedgerSound, SplitSound
  <2>6. CASE UNCHANGED vars
    BY <2>6, LateStepsKeepVerdict DEF vars, IInv, AkadSound, LedgerSound, SplitSound
  <2>7. QED
    BY <2>1, <2>2, <2>3, <2>4, <2>5, <2>6 DEF Next
<1>3. QED
  BY <1>1, <1>2, PTL DEF Spec

(* Up to MAX_EXACT the conversion changes nothing (ECMAScript, Number of a *)
(* BigInt).                                                                *)
LEMMA NumberIsExact ==
  ASSUME NEW n \in Int, n <= MAX_EXACT
  PROVE  Number(n) = n
BY DEF Number

(* The terms as the service reads them: the amounts are those of the       *)
(* ledger if their total is exact, the expected charge if it matters       *)
(* (split-payment.value.ts:263-279).                                       *)
LEMMA ReadTermsAreExact ==
  ASSUME IInv, feeInfo # None, Exact, NEW terms, terms = fromPayoutInfo(feeInfo)
  PROVE  /\ terms.totalAmount = feeInfo.totalAmount
         /\ terms.sellerAmount = feeInfo.sellerAmount
         /\ terms.platformFee = feeInfo.platformFee
         /\ terms.mediatorFee = feeInfo.mediatorFee
         /\ terms.networkFeeBearer = feeInfo.networkFeeBearer
         /\ feeInfo.networkFeeBearer = "PLATFORM" =>
              terms.estimatedNetworkFee = feeInfo.estimatedNetworkFee
<1>1. /\ feeInfo \in Terms
      /\ feeInfo.sellerAmount >= 0 /\ feeInfo.platformFee >= 0
      /\ feeInfo.sellerAmount + feeInfo.platformFee + feeInfo.mediatorFee = feeInfo.totalAmount
      /\ feeInfo.networkFeeBearer = "PLATFORM" =>
           feeInfo.estimatedNetworkFee <= feeInfo.platformFee
  BY DEF IInv, LedgerSound
<1>2. /\ feeInfo.totalAmount \in Nat /\ feeInfo.sellerAmount \in Nat
      /\ feeInfo.platformFee \in Nat /\ feeInfo.mediatorFee \in Nat
      /\ feeInfo.estimatedNetworkFee \in Nat
  BY <1>1 DEF Terms
<1>3. MAX_EXACT \in Nat /\ feeInfo.totalAmount <= MAX_EXACT
  BY ExactAssumption DEF Exact
<1>4. /\ feeInfo.sellerAmount <= MAX_EXACT /\ feeInfo.platformFee <= MAX_EXACT
      /\ feeInfo.mediatorFee <= MAX_EXACT
      /\ feeInfo.networkFeeBearer = "PLATFORM" => feeInfo.estimatedNetworkFee <= MAX_EXACT
  BY <1>1, <1>2, <1>3
<1>5. /\ Number(feeInfo.totalAmount) = feeInfo.totalAmount
      /\ Number(feeInfo.sellerAmount) = feeInfo.sellerAmount
      /\ Number(feeInfo.platformFee) = feeInfo.platformFee
      /\ Number(feeInfo.mediatorFee) = feeInfo.mediatorFee
      /\ feeInfo.networkFeeBearer = "PLATFORM" =>
           Number(feeInfo.estimatedNetworkFee) = feeInfo.estimatedNetworkFee
  BY <1>2, <1>3, <1>4, NumberIsExact
<1>6. QED
  BY <1>5 DEF fromPayoutInfo

(* No terms that the ledger has accepted are refused by the service for    *)
(* what they say, if their total is exact.                                 *)
THEOREM LedgerTermsAlwaysSplit == Spec => []LedgerTermsSplit
<1>1. IInv => LedgerTermsSplit
  <2> SUFFICES ASSUME IInv, feeInfo # None, Exact,
                      NEW terms, terms = fromPayoutInfo(feeInfo)
               PROVE  splitAllowed(terms, Recipients)
    BY DEF LedgerTermsSplit
  <2>1. /\ feeInfo \in Terms
        /\ feeInfo.sellerAmount >= 0 /\ feeInfo.platformFee >= 0
        /\ feeInfo.totalAmount > 0
        /\ feeInfo.sellerAmount + feeInfo.platformFee + feeInfo.mediatorFee = feeInfo.totalAmount
        /\ feeInfo.networkFeeBearer = "PLATFORM" =>
             feeInfo.estimatedNetworkFee <= feeInfo.platformFee
    BY DEF IInv, LedgerSound
  <2> DEFINE s == feeInfo.sellerAmount
             p == feeInfo.platformFee
             m == feeInfo.mediatorFee
  <2>2. /\ feeInfo.totalAmount \in Nat /\ s \in Nat /\ p \in Nat /\ m \in Nat
        /\ feeInfo.totalAmount <= MAX_EXACT /\ MAX_EXACT \in Nat
    BY <2>1, ExactAssumption DEF Terms, Exact
  <2>3. Number(s + p) = s + p /\ Number(s + p + m) = s + p + m
    BY <2>1, <2>2, NumberIsExact
  <2>4. /\ terms.totalAmount = feeInfo.totalAmount
        /\ terms.sellerAmount = s /\ terms.platformFee = p /\ terms.mediatorFee = m
        /\ terms.networkFeeBearer = feeInfo.networkFeeBearer
        /\ feeInfo.networkFeeBearer = "PLATFORM" =>
             terms.estimatedNetworkFee = feeInfo.estimatedNetworkFee
    BY ReadTermsAreExact
  <2>5. sum(terms) = terms.totalAmount
    BY <2>1, <2>3, <2>4 DEF sum
  <2>6. QED
    BY <2>1, <2>4, <2>5 DEF splitAllowed, Recipients
<1>2. QED
  BY <1>1, Inductive, PTL

(* A split with all its accounts has a leg for every amount above zero.    *)
LEMMA LegsAreTheAmounts ==
  ASSUME IInv, split # None, Exact, NEW r \in Recipients
  PROVE  leg(r) = amounts(feeInfo)[r]
<1>1. PICK accounts \in SUBSET Recipients :
        /\ splitAllowed(fromPayoutInfo(feeInfo), accounts)
        /\ split = buildTransferLegs(fromPayoutInfo(feeInfo), accounts)
  BY DEF IInv, SplitSound
<1>2. /\ feeInfo # None /\ feeInfo \in Terms
      /\ feeInfo.sellerAmount >= 0 /\ feeInfo.platformFee >= 0
  BY DEF IInv, SplitSound, LedgerSound
<1> DEFINE t == fromPayoutInfo(feeInfo)
<1>3. /\ amounts(t)["SELLER"] = feeInfo.sellerAmount
      /\ amounts(t)["PLATFORM"] = feeInfo.platformFee
      /\ amounts(t)["MEDIATOR"] = feeInfo.mediatorFee
      /\ t.mediatorFee = feeInfo.mediatorFee
  BY <1>2, ReadTermsAreExact DEF amounts, Recipients
<1> HIDE DEF t
<1>4. /\ amounts(t)[r] = amounts(feeInfo)[r]
      /\ amounts(t)[r] \in Int /\ amounts(t)[r] >= 0
  BY <1>2, <1>3 DEF amounts, Recipients, Terms
<1> DEFINE paid == {q \in Recipients : /\ amounts(t)[q] > 0
                                       /\ q = "MEDIATOR" => "MEDIATOR" \in accounts}
<1>5. split = [q \in paid |-> amounts(t)[q]]
  BY <1>1 DEF buildTransferLegs, t
<1>6. r \notin paid => amounts(t)[r] = 0
  <2>1. t.mediatorFee > 0 => "MEDIATOR" \in accounts
    BY <1>1 DEF splitAllowed, t
  <2>2. QED
    BY <2>1, <1>3, <1>4
<1>7. QED
  BY <1>4, <1>5, <1>6 DEF leg

(* The legs pay out the whole of the contract, to each what the ledger     *)
(* records for him, if its total is exact.                                 *)
THEOREM LegsAlwaysPayEverything == Spec => []LegsPayEverything
<1>1. IInv => LegsPayEverything
  <2> SUFFICES ASSUME IInv, split # None, Exact
               PROVE  /\ leg("SELLER") + leg("PLATFORM") + leg("MEDIATOR") = feeInfo.totalAmount
                      /\ \A r \in Recipients : leg(r) = amounts(feeInfo)[r]
    BY DEF LegsPayEverything
  <2>1. \A r \in Recipients : leg(r) = amounts(feeInfo)[r]
    BY LegsAreTheAmounts
  <2>2. /\ leg("SELLER") = feeInfo.sellerAmount
        /\ leg("PLATFORM") = feeInfo.platformFee
        /\ leg("MEDIATOR") = feeInfo.mediatorFee
    BY <2>1 DEF amounts, Recipients
  <2>3. feeInfo.sellerAmount + feeInfo.platformFee + feeInfo.mediatorFee = feeInfo.totalAmount
    BY DEF IInv, SplitSound, LedgerSound
  <2>4. QED
    BY <2>1, <2>2, <2>3
<1>2. QED
  BY <1>1, Inductive, PTL

(* A true report of exact amounts is refused for two reasons only: the     *)
(* bearer's part does not cover the fee.                                   *)
THEOREM TrueReportAlwaysSettles == Spec => []TrueReportSettles
<1>1. IInv => TrueReportSettles
  <2> DEFINE s == feeInfo.sellerAmount
             p == feeInfo.platformFee
             bearer == feeInfo.networkFeeBearer
  <2> SUFFICES ASSUME IInv, verdict = "refused", Exact,
                      report = calculateActualAmounts(fromPayoutInfo(feeInfo), networkFee),
                      ~(bearer = "PLATFORM" /\ p < networkFee),
                      ~(bearer = "SELLER" /\ s - networkFee < s \div 100)
               PROVE  FALSE
    BY DEF TrueReportSettles
  <2>1. /\ networkFee \in Nat /\ split # None
        /\ ~(Uint(report) /\ followsPolicy(feeInfo, report))
    BY DEF IInv, VerdictSound
  <2>2. s \in Nat /\ p \in Nat /\ bearer \in NetworkFeeBearer
    BY <2>1 DEF IInv, SplitSound, LedgerSound, Terms
  <2>3. /\ report.actualNetworkFee = networkFee
        /\ report.sellerNetReceived = s - IF bearer = "SELLER" THEN networkFee ELSE 0
        /\ report.platformNetReceived = p - IF bearer = "PLATFORM" THEN networkFee ELSE 0
    <3> DEFINE t == fromPayoutInfo(feeInfo)
    <3>1. t.sellerAmount = s /\ t.platformFee = p /\ t.networkFeeBearer = bearer
      BY <2>1, ReadTermsAreExact DEF IInv, SplitSound
    <3> HIDE DEF t
    <3>2. /\ report.actualNetworkFee = networkFee
          /\ report.sellerNetReceived =
               Number(s - IF bearer = "SELLER" THEN networkFee ELSE 0)
          /\ report.platformNetReceived =
               Number(p - IF bearer = "PLATFORM" THEN networkFee ELSE 0)
      BY <3>1 DEF calculateActualAmounts, t
    <3>3. s <= MAX_EXACT /\ p <= MAX_EXACT /\ MAX_EXACT \in Nat
      <4>1. s + p + feeInfo.mediatorFee = feeInfo.totalAmount /\ feeInfo.mediatorFee \in Nat
        BY <2>1 DEF IInv, SplitSound, LedgerSound, Terms
      <4>2. QED
        BY <2>2, <4>1, ExactAssumption DEF Exact
    <3>4. ASSUME NEW n \in Nat, n <= MAX_EXACT, NEW fee \in {0, networkFee}
          PROVE  Number(n - fee) = n - fee
      BY <2>1, <3>3, <3>4, NumberIsExact
    <3>5. QED
      BY <2>2, <3>2, <3>3, <3>4
  <2>4. s \div 100 \in Nat
    BY <2>2
  <2>5. CASE bearer = "SELLER"
    <3>1. s - networkFee >= s \div 100
      BY <2>1, <2>2, <2>4, <2>5
    <3>2. report.sellerNetReceived = s - networkFee /\ report.platformNetReceived = p
      BY <2>2, <2>3, <2>5
    <3>3. Uint(report)
      BY <2>1, <2>2, <2>4, <3>1, <3>2 DEF Uint
    <3>4. (IF s > networkFee THEN s - networkFee ELSE 0) = s - networkFee
      BY <2>1, <2>2, <2>4, <3>1
    <3>5. followsPolicy(feeInfo, report)
      BY <2>1, <2>2, <2>3, <2>4, <2>5, <3>1, <3>2, <3>4 DEF followsPolicy
    <3>6. QED
      BY <2>1, <3>3, <3>5
  <2>6. CASE bearer = "PLATFORM"
    BY <2>1, <2>2, <2>3, <2>6 DEF Uint, followsPolicy
  <2>7. CASE bearer = "BUYER"
    BY <2>1, <2>2, <2>3, <2>7 DEF Uint, followsPolicy
  <2>8. QED
    BY <2>2, <2>5, <2>6, <2>7 DEF NetworkFeeBearer
<1>2. QED
  BY <1>1, Inductive, PTL
=============================================================================
