----------------------- MODULE EscrowServiceProperties -----------------------
(***************************************************************************)
(* What the escrow account service promises about an account.              *)
(***************************************************************************)
EXTENDS EscrowService

answered(op, how) == {c \in asked(op) : pc[c] \in how}

opening == IF Earlier \in opened THEN Opening ELSE 0

(* No credit or debit is lost or booked twice: the balance is the opening  *)
(* balance, all the credits less all the debits that were answered, and    *)
(* some of those whose COMMIT failed with its outcome unknown.             *)
UpdatesKept ==
  \E C \in SUBSET answered("credit", {"error", "rollback"}),
     D \in SUBSET answered("debit", {"error", "rollback"}) :
    account.balance = opening
      + total(answered("credit", {"ok"}) \cup C)
      - total(answered("debit", {"ok"}) \cup D)

\* The freezes an unfreeze that has not succeeded may have released.
released ==
  {request[u].reference : u \in answered("unfreeze", {"save", "rollback", "error"})}

(* What the row shows as frozen is held by the bank.  The bank is asked    *)
(* first in either direction, so the one exception is an unfreeze that is  *)
(* under way or that failed after the bank had let go.                     *)
FrozenIsHeld == account.frozen <= total(holds \cup released)

(* Every createAccount that succeeds answers the account of the row: no    *)
(* buyer pays into an account of the bank that settlements are not paid    *)
(* from, however many calls open one at once.                              *)
OneAccountAnswered ==
  \A c \in Calls : answer[c] # None => answer[c] = accountNumber
-----------------------------------------------------------------------------
(* The inductive invariant.                                                *)

Requests ==
  [op : {"create", "credit", "debit", "freeze", "unfreeze", "close", "verify"},
   amount : Nat, reference : Calls \cup {None}]

Labels ==
  {"idle", "find", "open", "insert", "lock", "bank", "save", "rollback", "ask",
   "compare"} \cup Ended

\* Where a call under way can be.
labelsOf(op) ==
  CASE op = "create" -> {"find", "open", "insert"}
    [] op = "verify" -> {"ask", "compare"}
    [] op \in {"freeze", "unfreeze"} -> {"lock", "bank", "save", "rollback"}
    [] OTHER -> {"lock", "save", "rollback"}

(* Every variable has its type; a call is where its operation can be, and  *)
(* an unfreeze gives back what the freeze it names has asked for.          *)
TypeOK ==
  /\ agreed \in Agreements
  /\ opened \subseteq Calls \cup {Earlier}
  /\ bankBalance \in Nat
  /\ account \in Accounts \cup {Absent}
  /\ lock \in Calls \cup {None}
  /\ holds \subseteq asked("freeze")
  /\ pc \in [Calls -> Labels]
  /\ request \in [Calls -> Requests \cup {None}]
  /\ read \in [Calls -> Accounts \cup {Absent}]
  /\ answer \in [Calls -> Calls \cup {Earlier, None}]
  /\ accountNumber \in Calls \cup {Earlier, None}
  /\ \A c \in started :
       /\ request[c] \in Requests
       /\ pc[c] \in labelsOf(request[c].op) \cup (Ended \ {"idle"})
       /\ request[c].op = "unfreeze" =>
            /\ request[c].reference \in asked("freeze")
            /\ amountOf(c) = amountOf(request[c].reference)

(* The row lock makes the account a call has read the account there is.    *)
readIsCurrent ==
  \A c \in Calls : pc[c] \in {"bank", "save"} => lock = c /\ read[c] = account

(* The row satisfies the constraints of migration 003.  Before it is there *)
(* nobody has an answer, and nobody has asked for anything but an account. *)
rowSound ==
  IF account = Absent
  THEN /\ Earlier \notin opened
       /\ \A c \in Calls : answer[c] = None
       /\ \A c \in started : request[c].op = "create"
  ELSE Sound(account)

\* The freezes that back the row: a freeze counts once it has been booked, or
\* has ended without, and until an unfreeze of it has been booked.
backing == {f \in holds \cup released : pc[f] \notin {"lock", "bank", "save"}}

frozenIsBacked ==
  /\ account.frozen <= total(backing)
  /\ \A c \in asked("freeze") : pc[c] = "save" => c \in holds

IInv ==
  /\ TypeOK /\ readIsCurrent /\ rowSound /\ frozenIsBacked
  /\ UpdatesKept /\ OneAccountAnswered
=============================================================================
