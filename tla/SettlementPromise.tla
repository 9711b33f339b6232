------------------------- MODULE SettlementPromise -------------------------
(***************************************************************************)
(* What the settlement of a contract promises to its parties, with every   *)
(* process, lock, message and fault left out: the order of the flow that   *)
(* settlement-status.enum.ts draws (bank transfer, then the ledger, then   *)
(* completion) and what has become of the escrow at each point.            *)
(***************************************************************************)
EXTENDS Integers

CONSTANTS Total, Deposit

VARIABLES
  paid,     \* the bank has carried out the split transfer
  settled,  \* the ledger records the contract as SETTLED
  booked,   \* the settlement is COMPLETED
  kept      \* the balance of the escrow account

vars == <<paid, settled, booked, kept>>

Init == paid = FALSE /\ settled = FALSE /\ booked = FALSE /\ kept = Deposit

Pay == ~paid /\ paid' = TRUE /\ UNCHANGED <<settled, booked, kept>>

Record ==
  /\ paid /\ ~settled
  /\ settled' = TRUE
  /\ UNCHANGED <<paid, booked, kept>>

Book ==
  /\ settled /\ ~booked
  /\ booked' = TRUE
  /\ kept' = kept - Total
  /\ UNCHANGED <<paid, settled>>

Next == Pay \/ Record \/ Book

Spec == Init /\ [][Next]_vars
=============================================================================
