----------------------------- MODULE FeeStructure -----------------------------
(***************************************************************************)
(* Money and FeeStructure: how the total of a contract is divided among    *)
(* the seller, the platform and the mediator.  Amounts are integers of the *)
(* smallest unit; shares are computed in floating point and rounded.       *)
(***************************************************************************)
EXTENDS Integers

BasisPoints == 10000

(* Money.percentage: Math.round goes up on a tie, unless the error of the  *)
(* floating-point product has already put it below the tie.                *)
percentage(amount, bps) ==
  LET twice == 2 * amount * bps
      half == (twice + BasisPoints) \div (2 * BasisPoints)
  IN {half} \cup IF twice % (2 * BasisPoints) = BasisPoints THEN {half - 1} ELSE {}

FeeStructures ==
  [platformFeeBps : Nat, mediatorFeeBps : Nat, platformFixedFee : Nat,
   minimumPlatformFee : Nat, maximumPlatformFee : Nat]

\* validateFees, of the constructor; a Money is never negative.
validFees(fs) ==
  /\ fs \in FeeStructures
  /\ fs.mediatorFeeBps <= 5000
  /\ fs.platformFeeBps + fs.mediatorFeeBps <= BasisPoints

(* The fixed fee, the minimum and the maximum are left out of a structure  *)
(* by a 0, and then do not apply.                                          *)
platformFees(fs, amount) ==
  LET raised(fee) == IF fee < fs.minimumPlatformFee THEN fs.minimumPlatformFee ELSE fee
      capped(fee) == IF fs.maximumPlatformFee # 0 /\ fee > fs.maximumPlatformFee
                     THEN fs.maximumPlatformFee ELSE fee
  IN {capped(raised(fee + fs.platformFixedFee)) : fee \in percentage(amount, fs.platformFeeBps)}

mediatorFees(fs, amount) == percentage(amount, fs.mediatorFeeBps)

(* calculateFees: the breakdowns it can return, none when the fees exceed  *)
(* the amount (Money.subtract throws).                                     *)
calculateFees(fs, amount) ==
  {[sellerAmount |-> amount - f[1] - f[2], platformFee |-> f[1], mediatorFee |-> f[2]] :
     f \in {f \in platformFees(fs, amount) \X mediatorFees(fs, amount) :
             f[1] + f[2] <= amount}}
=============================================================================
