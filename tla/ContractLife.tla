---------------------------- MODULE ContractLife ----------------------------
(***************************************************************************)
(* What the backend relies on in the ledger: the status of each contract   *)
(* moves one step of the version's matrix at a time, and each step spends  *)
(* a transaction reference that was never used before.  Disputes, banks,   *)
(* time locks and the pause decide when a step is taken, never which.      *)
(***************************************************************************)
EXTENDS LedgerStatus

CONSTANTS Contracts, Refs, Version

VARIABLES
  life,  \* the status of each contract, or "NONE"
  used   \* the references spent so far

vars == <<life, used>>

Init == life = [c \in Contracts |-> "NONE"] /\ used = {}

Register(c) ==
  /\ life[c] = "NONE"
  /\ life' = [life EXCEPT ![c] = "CREATED"]
  /\ UNCHANGED used

Move(c, ref) ==
  /\ ref \notin used
  /\ used' = used \cup {ref}
  /\ \E to \in LedgerStatuses :
       /\ ledgerAllows(Version, life[c], to)
       /\ life' = [life EXCEPT ![c] = to]

Next == \E c \in Contracts : Register(c) \/ \E ref \in Refs : Move(c, ref)

Spec == Init /\ [][Next]_vars
=============================================================================
