--------------------------- MODULE EscrowAccount ---------------------------
(***************************************************************************)
(* The EscrowAccount entity of escrow/domain/escrow-account.entity.ts: one *)
(* row of escrow_accounts, with the part of its balance that is frozen.    *)
(* An operation is a pair: the condition under which the method does not   *)
(* throw, and the account it leaves.  Amounts are whole rupiah.            *)
(***************************************************************************)
EXTENDS Integers

EscrowAccountStatuses == {"ACTIVE", "FROZEN", "CLOSED"}

Accounts == [balance : Nat, frozen : Nat, status : EscrowAccountStatuses]

lesser(a, b) == IF a <= b THEN a ELSE b

availableBalance(a) == a.balance - a.frozen

NewAccount == [balance |-> 0, frozen |-> 0, status |-> "ACTIVE"]

canCredit(a, amount) == amount > 0 /\ a.status # "CLOSED"

credit(a, amount) == [a EXCEPT !.balance = @ + amount]

canDebit(a, amount) ==
  /\ amount > 0
  /\ a.status # "CLOSED"
  /\ amount <= availableBalance(a)

(***************************************************************************)
(* A debit is paid from the available part, and then also takes the same   *)
(* amount off the frozen part, as far as that goes.                        *)
(***************************************************************************)
debit(a, amount) ==
  [balance |-> a.balance - amount,
   frozen  |-> a.frozen - lesser(amount, a.frozen),
   status  |-> a.status]

canFreeze(a, amount) == amount > 0 /\ amount <= availableBalance(a)

freezeFunds(a, amount) ==
  LET frozen == a.frozen + amount
  IN  [balance |-> a.balance,
       frozen  |-> frozen,
       status  |-> IF frozen >= a.balance THEN "FROZEN" ELSE a.status]

canUnfreeze(a, amount) == amount > 0 /\ amount <= a.frozen

unfreezeFunds(a, amount) ==
  LET frozen == a.frozen - amount
  IN  [balance |-> a.balance,
       frozen  |-> frozen,
       status  |-> IF frozen < a.balance /\ a.status = "FROZEN"
                   THEN "ACTIVE" ELSE a.status]

canClose(a) == a.balance <= 0 /\ a.status # "CLOSED"

close(a) == [a EXCEPT !.status = "CLOSED"]

(***************************************************************************)
(* The row constraints of migration 003: nothing frozen that is not there. *)
(***************************************************************************)
Sound(a) == a \in Accounts /\ a.frozen <= a.balance
=============================================================================
