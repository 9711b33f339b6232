---------------------------- MODULE EscrowService ----------------------------
(***************************************************************************)
(* EscrowAccountService: the calls it serves for one contract's escrow     *)
(* account, which is a row of escrow_accounts and an account at the bank.  *)
(* A call is a sequence of steps, one per await that other calls can see:  *)
(* the row lock, the bank, the save with its COMMIT.  A call that fails    *)
(* ends in ROLLBACK, whatever the bank has done by then.                   *)
(*                                                                         *)
(* Money moves at the bank before the service hears of it: creditFunds is  *)
(* called after a payment, debitFunds after a transfer.                    *)
(***************************************************************************)
EXTENDS EscrowAccount, Totals

CONSTANTS
  Calls,
  MaxAmount,            \* bound on the amount of one call
  Opening,              \* balance of an account that is already open
  \* Which of the fields the service reads or sends under a name of its own
  \* the adapter knows, in the deployments under study: {} as shipped.
  Agreements,
  Faults,               \* \subseteq {"bank_error", "db_error", "crash"}
  Earlier, None         \* model values: a call before these, and no call

ASSUME CallsAssumption ==
  IsFiniteSet(Calls) /\ Earlier \notin Calls /\ None \notin Calls
ASSUME AmountsAssumption == MaxAmount \in Nat /\ Opening \in Nat

VARIABLES
  agreed,               \* the fields agreed on, a member of Agreements
  account,              \* the row, Absent before its INSERT
  accountNumber,        \* of the row: the call that opened it at the bank
  lock,                 \* the call that holds the row lock
  opened,               \* the accounts the bank opened, named by the call
  bankBalance,          \* of the account of the row
  holds,                \* freezes the bank holds, named by the call
  request, pc,
  read,                 \* the account as each call has read it
  answer                \* the account number each createAccount answered

row == <<account, accountNumber>>
bank == <<opened, bankBalance, holds>>
locals == <<request, read, answer>>
vars == <<agreed, row, lock, bank, pc, locals>>

Absent == [balance |-> 0, frozen |-> 0, status |-> "ABSENT"]

Ended == {"idle", "ok", "error", "match", "mismatch"}

Init ==
  /\ agreed \in Agreements
  /\ \/ account = Absent /\ accountNumber = None /\ opened = {} /\ bankBalance = 0
     \/ /\ account = credit(NewAccount, Opening)
        /\ accountNumber = Earlier
        /\ opened = {Earlier}
        /\ bankBalance = Opening
  /\ lock = None
  /\ holds = {}
  /\ request = [c \in Calls |-> None]
  /\ pc = [c \in Calls |-> "idle"]
  /\ read = [c \in Calls |-> Absent]
  /\ answer = [c \in Calls |-> None]

started == {c \in Calls : pc[c] # "idle"}
asked(op) == {c \in started : request[c].op = op}
amountOf(c) == request[c].amount
amounts == [c \in started |-> amountOf(c)]
total(S) == SumOver(amounts, S)

goto(c, label) == pc' = [pc EXCEPT ![c] = label]

begin(c, label, r) ==
  /\ pc[c] = "idle"
  /\ goto(c, label)
  /\ request' = [request EXCEPT ![c] = r]
  /\ UNCHANGED <<agreed, row, lock, opened, holds, read, answer>>

Req(op, amount, reference) == [op |-> op, amount |-> amount, reference |-> reference]
-----------------------------------------------------------------------------
(* The calls.  One that names an account by its id needs the account.      *)

createAccount(c) ==
  begin(c, "find", Req("create", 0, None)) /\ UNCHANGED bankBalance

creditFunds(c, amount) ==
  /\ account # Absent
  /\ begin(c, "lock", Req("credit", amount, None))
  /\ bankBalance' = bankBalance + amount

debitFunds(c, amount) ==
  /\ account # Absent
  /\ amount <= bankBalance
  /\ begin(c, "lock", Req("debit", amount, None))
  /\ bankBalance' = bankBalance - amount

freezeCall(c, amount) ==
  /\ account # Absent
  /\ begin(c, "lock", Req("freeze", amount, None))
  /\ UNCHANGED bankBalance

\* What a freeze took is given back as a whole, under its reference.
unfreezeCall(c, f) ==
  /\ begin(c, "lock", Req("unfreeze", amountOf(f), f))
  /\ UNCHANGED bankBalance

closeAccount(c) ==
  /\ account # Absent
  /\ begin(c, "lock", Req("close", 0, None))
  /\ UNCHANGED bankBalance

verifyBalance(c) ==
  /\ account # Absent
  /\ begin(c, "ask", Req("verify", 0, None))
  /\ UNCHANGED bankBalance
-----------------------------------------------------------------------------
(* createAccount: find, open at the bank, INSERT.  There is no transaction. *)

findExisting(c) ==
  /\ pc[c] = "find"
  /\ IF account # Absent
     THEN goto(c, "ok") /\ answer' = [answer EXCEPT ![c] = accountNumber]
     ELSE goto(c, "open") /\ UNCHANGED answer
  /\ UNCHANGED <<agreed, row, lock, bank, request, read>>

openAtBank(c) ==
  /\ pc[c] = "open"
  /\ opened' = opened \cup {c}
  /\ goto(c, "insert")
  /\ UNCHANGED <<agreed, row, lock, bankBalance, holds, locals>>

\* The adapter throws, whether or not the bank has opened the account.
openFails(c) ==
  /\ pc[c] = "open" /\ "bank_error" \in Faults
  /\ opened' \in {opened, opened \cup {c}}
  /\ goto(c, "error")
  /\ UNCHANGED <<agreed, row, lock, bankBalance, holds, locals>>

(* Mutant of insertAccount: the INSERT replaces the row of the contract.   *)
insertAccountReplaces(c) ==
  /\ pc[c] = "insert"
  /\ account' = NewAccount /\ accountNumber' = c
  /\ goto(c, "ok") /\ answer' = [answer EXCEPT ![c] = c]
  /\ UNCHANGED <<agreed, lock, bank, request, read>>

\* contract_id is UNIQUE in escrow_accounts.
insertAccount(c) ==
  /\ pc[c] = "insert"
  /\ \/ /\ account = Absent
        /\ account' = NewAccount /\ accountNumber' = c
        /\ goto(c, "ok") /\ answer' = [answer EXCEPT ![c] = c]
     \/ /\ account # Absent \/ "db_error" \in Faults
        /\ goto(c, "error") /\ UNCHANGED <<row, answer>>
  /\ UNCHANGED <<agreed, lock, bank, request, read>>
-----------------------------------------------------------------------------
(* The balance operations: lock, the bank where it takes part, save.       *)

asksBank(c) == request[c].op \in {"freeze", "unfreeze"}

(* Mutant of lockRow: the row is read without waiting for its lock.        *)
lockRowUnlocked(c) ==
  /\ pc[c] = "lock"
  /\ read' = [read EXCEPT ![c] = account]
  /\ goto(c, IF asksBank(c) THEN "bank" ELSE "save")
  /\ UNCHANGED <<agreed, row, lock, bank, request, answer>>

\* findForUpdate as its port has it: SELECT ... FOR UPDATE.
lockRow(c) ==
  /\ pc[c] = "lock"
  /\ lock = None /\ lock' = c
  /\ read' = [read EXCEPT ![c] = account]
  /\ goto(c, IF asksBank(c) THEN "bank" ELSE "save")
  /\ UNCHANGED <<agreed, row, bank, request, answer>>

\* The service knows the bank's account only by the id it was answered.
bankKnows == "bankAccountId" \in agreed

bankAnswers(c, newHolds, label) ==
  /\ holds' = newHolds
  /\ goto(c, label)
  /\ UNCHANGED <<agreed, row, lock, opened, bankBalance, locals>>

(* Mutant of bankFreezes: a refusal of the bank is only logged, as it is   *)
(* for an unfreeze.                                                        *)
bankFreezesOrNot(c) ==
  /\ pc[c] = "bank" /\ request[c].op = "freeze"
  /\ \/ bankKnows /\ bankAnswers(c, holds \cup {c}, "save")
     \/ bankAnswers(c, holds, "save")

\* What a freeze adds to the holds of the bank.
frozenBy(c) ==
  IF bankKnows /\ amountOf(c) <= bankBalance - total(holds) THEN {c} ELSE {}

bankFreezes(c) ==
  /\ pc[c] = "bank" /\ request[c].op = "freeze"
  /\ bankAnswers(c, holds \cup frozenBy(c), IF frozenBy(c) # {} THEN "save" ELSE "rollback")

\* The adapter answers success: false, whether or not the bank has frozen.
freezeFails(c) ==
  /\ pc[c] = "bank" /\ request[c].op = "freeze" /\ "bank_error" \in Faults
  /\ \E done \in SUBSET frozenBy(c) : bankAnswers(c, holds \cup done, "rollback")

unfrozenBy(c) ==
  IF bankKnows /\ "freezeId" \in agreed THEN {request[c].reference} ELSE {}

\* A hold the bank does not find is only logged: the row is unfrozen.
bankUnfreezes(c) ==
  /\ pc[c] = "bank" /\ request[c].op = "unfreeze"
  /\ bankAnswers(c, holds \ unfrozenBy(c), IF bankKnows THEN "save" ELSE "rollback")

unfreezeFails(c) ==
  /\ pc[c] = "bank" /\ request[c].op = "unfreeze" /\ "bank_error" \in Faults
  /\ \E done \in SUBSET unfrozenBy(c) : bankAnswers(c, holds \ done, "rollback")

can(r, a) ==
  CASE r.op = "credit"   -> canCredit(a, r.amount)
    [] r.op = "debit"    -> canDebit(a, r.amount)
    [] r.op = "freeze"   -> canFreeze(a, r.amount)
    [] r.op = "unfreeze" -> canUnfreeze(a, r.amount)
    [] r.op = "close"    -> canClose(a)

result(r, a) ==
  CASE r.op = "credit"   -> credit(a, r.amount)
    [] r.op = "debit"    -> debit(a, r.amount)
    [] r.op = "freeze"   -> freezeFunds(a, r.amount)
    [] r.op = "unfreeze" -> unfreezeFunds(a, r.amount)
    [] r.op = "close"    -> close(a)

unlocked(c) == IF lock = c THEN None ELSE lock

\* The entity's method, save and COMMIT.  COMMIT may fail with or without
\* having taken effect; the caller gets an error in either case.
saveAccount(c) ==
  LET allowed == can(request[c], read[c]) IN
  /\ pc[c] = "save"
  /\ \/ /\ allowed
        /\ account' = result(request[c], read[c])
        /\ lock' = unlocked(c)
        /\ goto(c, "ok")
     \/ ~allowed /\ goto(c, "rollback") /\ UNCHANGED <<account, lock>>
     \/ /\ "db_error" \in Faults /\ allowed
        /\ \/ UNCHANGED <<account, lock>>
           \/ account' = result(request[c], read[c]) /\ lock' = unlocked(c)
        /\ goto(c, "rollback")
  /\ UNCHANGED <<agreed, accountNumber, bank, locals>>

rollback(c) ==
  /\ pc[c] = "rollback"
  /\ lock' = unlocked(c)
  /\ goto(c, "error")
  /\ UNCHANGED <<agreed, row, bank, locals>>
-----------------------------------------------------------------------------
(* verifyBalance reads the row without a lock, then asks the bank.         *)

verifyRead(c) ==
  /\ pc[c] = "ask"
  /\ read' = [read EXCEPT ![c] = account]
  /\ goto(c, "compare")
  /\ UNCHANGED <<agreed, row, lock, bank, request, answer>>

\* The adapter throws, or answers under names the service does not read.
getBalanceFails == ~(bankKnows /\ "balance" \in agreed) \/ "bank_error" \in Faults

verifyCompare(c) ==
  /\ pc[c] = "compare"
  /\ \/ /\ bankKnows /\ "balance" \in agreed
        /\ goto(c, IF bankBalance = read[c].balance THEN "match" ELSE "mismatch")
     \/ getBalanceFails /\ goto(c, "error")
  /\ UNCHANGED <<agreed, row, lock, bank, locals>>

\* The process stops: its connections close and its transactions roll back.
Crash ==
  /\ "crash" \in Faults
  /\ \E c \in Calls : pc[c] \notin Ended
  /\ pc' = [c \in Calls |-> IF pc[c] \in Ended THEN pc[c] ELSE "error"]
  /\ lock' = None
  /\ UNCHANGED <<agreed, row, bank, locals>>

Begin(c) ==
  \/ createAccount(c) \/ closeAccount(c) \/ verifyBalance(c)
  \/ \E amount \in 1..MaxAmount :
       creditFunds(c, amount) \/ debitFunds(c, amount) \/ freezeCall(c, amount)
  \/ \E f \in asked("freeze") : unfreezeCall(c, f)

Step(c) ==
  \/ findExisting(c) \/ openAtBank(c) \/ openFails(c) \/ insertAccount(c)
  \/ lockRow(c)
  \/ bankFreezes(c) \/ freezeFails(c) \/ bankUnfreezes(c) \/ unfreezeFails(c)
  \/ saveAccount(c) \/ rollback(c)
  \/ verifyRead(c) \/ verifyCompare(c)

Next == (\E c \in Calls : Begin(c) \/ Step(c)) \/ Crash

Spec == Init /\ [][Next]_vars
=============================================================================
