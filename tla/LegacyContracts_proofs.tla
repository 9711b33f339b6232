------------------------ MODULE LegacyContracts_proofs ------------------------
(***************************************************************************)
(* Theorems about the first generation of the backend, for any number of   *)
(* calls under way and in all, any total, fee structures and payments.     *)
(***************************************************************************)
EXTENDS LegacyProperties, TLAPS

(* Money.percentage is off the exact share by at most a half.              *)
LEMMA PercentageIsClose ==
  ASSUME NEW amount \in Nat, NEW bps \in Nat, NEW fee \in percentage(amount, bps)
  PROVE  fee \in Nat /\ 20000 * fee <= 2 * (amount * bps) + 10000
<1> DEFINE half(p) == (2 * p + BasisPoints) \div (2 * BasisPoints)
<1>1. amount * bps \in Nat
  OBVIOUS
<1>2. ASSUME NEW p \in Nat
      PROVE  /\ half(p) \in Nat /\ 20000 * half(p) <= 2 * p + 10000
             /\ (2 * p) % (2 * BasisPoints) = BasisPoints =>
                  half(p) - 1 \in Nat /\ 20000 * (half(p) - 1) <= 2 * p + 10000
  BY SMT DEF BasisPoints
<1>3. 2 * amount * bps = 2 * (amount * bps)
  BY <1>1
<1> HIDE DEF half
<1>4. percentage(amount, bps) =
        {half(amount * bps)} \cup
        IF (2 * (amount * bps)) % (2 * BasisPoints) = BasisPoints
        THEN {half(amount * bps) - 1} ELSE {}
  BY <1>3 DEF percentage, half
<1> QED BY <1>1, <1>2, <1>4

(* What CreateContractUseCase lets through is divided into shares of which  *)
(* the mediator's is less than half (CreateContractUseCase.ts,              *)
(* FeeStructure.ts:81-121).                                                *)
LEMMA SharesAreSound ==
  ASSUME NEW fs \in Structures, validInput(fs), NEW shares \in calculateFees(fs, Total)
  PROVE  /\ shares.sellerAmount \in Nat /\ shares.platformFee \in Nat
         /\ shares.mediatorFee \in Nat
         /\ shares.sellerAmount + shares.platformFee + shares.mediatorFee = Total
         /\ 2 * shares.mediatorFee < Total
<1>1. /\ fs.platformFeeBps \in Nat /\ fs.mediatorFeeBps \in Nat /\ fs.mediatorFeeBps <= 500
      /\ fs.platformFixedFee = 0
      /\ fs.minimumPlatformFee = 5000 /\ fs.maximumPlatformFee = 500000 /\ Total \in Nat
  BY StructuresAssumption, TotalAssumption DEF validFees, FeeStructures, validInput
<1> PICK f \in platformFees(fs, Total) \X mediatorFees(fs, Total) :
      /\ f[1] + f[2] <= Total
      /\ shares = [sellerAmount |-> Total - f[1] - f[2],
                   platformFee |-> f[1], mediatorFee |-> f[2]]
  BY DEF calculateFees
<1>2. f[1] \in Nat /\ f[1] >= 5000
  <2>1. \A fee \in percentage(Total, fs.platformFeeBps) : fee \in Nat
    BY <1>1, PercentageIsClose
  <2>2. f[1] \in platformFees(fs, Total)
    OBVIOUS
  <2> QED BY <1>1, <2>1, <2>2 DEF platformFees
<1>3. f[2] \in Nat /\ 20000 * f[2] <= 2 * (Total * fs.mediatorFeeBps) + 10000
  <2>1. f[2] \in percentage(Total, fs.mediatorFeeBps)
    BY DEF mediatorFees
  <2> QED BY <1>1, <2>1, PercentageIsClose
<1>4. Total * fs.mediatorFeeBps <= Total * 500
  <2>1. \A a, b, t \in Nat : a <= b => t * a <= t * b
    OBVIOUS
  <2> QED BY <1>1, <2>1
<1>5. 2 * f[2] < Total
  <2> PICK t, m, x \in Int : t = Total /\ m = f[2] /\ x = Total * fs.mediatorFeeBps
    BY <1>1, <1>3
  <2>1. 20000 * m <= 2 * x + 10000 /\ x <= t * 500 /\ t >= 5000 /\ m >= 0
    BY <1>1, <1>2, <1>3, <1>4
  <2> QED BY <2>1
<1> QED BY <1>1, <1>2, <1>3, <1>5
-----------------------------------------------------------------------------
(* What a step leaves of the world, and of the other calls.                *)

Pcs == {"idle", "record", "key", "load", "open", "save", "setKey", "chain", "balance",
        "transfer", "close"}
World == <<row, fees, chain, accounts, paid>>

Grows ==
  row # None =>
    /\ row' # None /\ fees' = fees /\ DOMAIN accounts \subseteq DOMAIN accounts'
    /\ \A r \in Recipients : paid[r] \in Int /\ paid'[r] \in Int /\ paid'[r] >= paid[r]

LEMMA PaidStaysPaid ==
  ASSUME worldSound, row # None, Grows, payoutDone
  PROVE  payoutDone'
<1>1. \A r \in Recipients : paid[r] \in Int /\ paid'[r] \in Int /\ paid'[r] >= paid[r]
  BY DEF Grows
<1>2. \A r \in Recipients : fees[r] \in Int /\ paid[r] >= fees[r] /\ fees'[r] = fees[r]
  BY DEF worldSound, feesSound, payoutDone, Recipients, Grows
<1> QED BY <1>1, <1>2 DEF payoutDone

LEMMA ContractStaysSound ==
  ASSUME worldSound, row # None, Grows, NEW contract, contractSound(contract)
  PROVE  /\ contract \in ContractType
         /\ contract.status \in ESCROW_ACTIVE_STATUSES => contract.account \in DOMAIN accounts'
         /\ contract.status = "SETTLED" => payoutDone'
BY PaidStaysPaid DEF contractSound, Grows

LEMMA StepKeeps ==
  ASSUME IInv, NEW p \in Handlers, NEW h, handler' = [handler EXCEPT ![p] = h],
         handlerSound(p)', worldSound', Grows
  PROVE  IInv'
<1>1. handler' = [q \in Handlers |-> handler'[q]]
  BY DEF IInv
<1>2. ASSUME NEW q \in Handlers, q # p
      PROVE  handlerSound(q)'
  <2>1. handler'[q] = handler[q] /\ handlerSound(q) /\ worldSound
    BY <1>2 DEF IInv
  <2>2. row # None => row' # None
    BY DEF Grows
  <2> PICK contract : contract = handler[q].copy
    OBVIOUS
  <2>3. row # None /\ contractSound(contract) =>
          /\ contract \in ContractType
          /\ contract.status \in ESCROW_ACTIVE_STATUSES => contract.account \in DOMAIN accounts'
          /\ contract.status = "SETTLED" => payoutDone'
    BY <2>1, ContractStaysSound
  <2>4. contractSound(contract) /\ row # None => contractSound(contract)'
    BY <2>3 DEF contractSound
  <2> PICK h0 : h0 = handler[q]
    OBVIOUS
  <2>5. handler[q] = h0 /\ handler'[q] = h0 /\ h0.copy = contract
    BY <2>1
  <2> HIDE DEF contractSound
  <2> QED BY <2>1, <2>2, <2>4, <2>5 DEF handlerSound, at, isCall
<1> QED BY <1>1, <1>2 DEF IInv

LEMMA WorldStill ==
  ASSUME IInv, UNCHANGED World
  PROVE  worldSound' /\ Grows
<1>1. worldSound'
  BY DEF IInv, World, worldSound, feesSound, bankSound, chainSound, contractSound, sum, payoutDone
<1>2. Grows
  <2> SUFFICES ASSUME row # None PROVE \A r \in Recipients : paid[r] \in Int /\ paid[r] >= paid[r]
    BY DEF Grows, World
  <2>1. paid \in [Recipients -> Int]
    BY DEF IInv, worldSound, bankSound
  <2> QED BY <2>1
<1> QED BY <1>1, <1>2

LEMMA QuietStep ==
  ASSUME IInv, NEW p \in Handlers, NEW h, handler' = [handler EXCEPT ![p] = h],
         handlerSound(p)', UNCHANGED World
  PROVE  IInv'
BY WorldStill, StepKeeps

LEMMA CallFacts ==
  ASSUME IInv, NEW p \in Handlers
  PROVE  /\ handlerSound(p) /\ isCall(handler[p])
         /\ \A h : handler' = [handler EXCEPT ![p] = h] => handler'[p] = h
BY DEF IInv, handlerSound

LEMMA FinishFacts ==
  ASSUME IInv, NEW p \in Handlers, Finish(p)
  PROVE  handler' = [handler EXCEPT ![p] = Idle] /\ handlerSound(p)'
<1>1. handler' = [handler EXCEPT ![p] = Idle] /\ handler'[p] = Idle
  BY CallFacts DEF Finish
<1>2. isCall(Idle) /\ Idle.pc = "idle"
  BY NoneAssumption DEF isCall, Idle
<1> QED BY <1>1, <1>2 DEF handlerSound, at

LEMMA FinishKeeps ==
  ASSUME IInv, NEW p \in Handlers, Finish(p), UNCHANGED World
  PROVE  IInv'
BY FinishFacts, QuietStep

LEMMA GotoFacts ==
  ASSUME IInv, NEW p \in Handlers, NEW pc \in Pcs, Goto(p, pc)
  PROVE  /\ handler' = [handler EXCEPT ![p] = handler'[p]]
         /\ isCall(handler'[p]) /\ handler'[p].pc = pc
         /\ handler'[p].kind = handler[p].kind /\ handler'[p].copy = handler[p].copy
<1>1. handler[p] = [kind |-> handler[p].kind, pc |-> handler[p].pc,
                    copy |-> handler[p].copy, note |-> handler[p].note]
      /\ isCall(handler[p])
  BY CallFacts DEF isCall
<1>2. handler' = [handler EXCEPT ![p] = [handler[p] EXCEPT !.pc = pc]]
      /\ handler'[p] = [handler[p] EXCEPT !.pc = pc]
  BY CallFacts DEF Goto
<1> PICK h, g : h = handler[p] /\ g = [handler[p] EXCEPT !.pc = pc]
  OBVIOUS
<1>3. /\ g = [kind |-> h.kind, pc |-> pc, copy |-> h.copy, note |-> h.note]
      /\ g.kind = h.kind /\ g.pc = pc /\ g.copy = h.copy /\ g.note = h.note
  BY <1>1
<1>4. isCall(g)
  BY <1>1, <1>3 DEF isCall, Pcs
<1> QED BY <1>2, <1>3, <1>4

LEMMA StartFacts ==
  ASSUME IInv, NEW p \in Handlers, NEW kind, NEW pc, NEW note, Start(p, kind, pc, note),
         \/ kind = "create" /\ pc = "record"
         \/ kind = "pay" /\ pc = "key" /\ note \in Notifications
         \/ kind = "officer" /\ pc = "load" /\ note \in OfficerStatuses
         \/ kind = "settle" /\ pc = "key"
  PROVE  handler' = [handler EXCEPT ![p] = handler'[p]] /\ handlerSound(p)'
<1> PICK h : h = [kind |-> kind, pc |-> pc, copy |-> None, note |-> note]
  OBVIOUS
<1>1. handler' = [handler EXCEPT ![p] = h] /\ handler'[p] = h
  BY CallFacts DEF Start
<1>2. /\ h.kind = kind /\ h.pc = pc /\ h.copy = None /\ h.note = note
      /\ h = [kind |-> h.kind, pc |-> h.pc, copy |-> h.copy, note |-> h.note]
  OBVIOUS
<1>3. isCall(h)
  BY <1>2, NoneAssumption DEF isCall
<1> QED BY <1>1, <1>2, <1>3 DEF handlerSound, at

LEMMA StartStep ==
  ASSUME IInv, NEW p \in Handlers,
         \/ \E note \in Notifications : handlePaymentNotification(p, note)
         \/ \E status \in OfficerStatuses : OfficerCalls(p, status)
         \/ SettleContract(p)
  PROVE  IInv'
<1>1. ASSUME NEW note \in Notifications, handlePaymentNotification(p, note) PROVE IInv'
  BY <1>1, StartFacts, QuietStep DEF handlePaymentNotification, World, bankVars
<1>2. ASSUME NEW status \in OfficerStatuses, OfficerCalls(p, status) PROVE IInv'
  BY <1>2, StartFacts, QuietStep DEF OfficerCalls, World, bankVars
<1>3. CASE SettleContract(p)
  BY <1>3, StartFacts, QuietStep DEF SettleContract, World, bankVars
<1> QED BY <1>1, <1>2, <1>3

(* A contract begins without money and without a call that knows it.       *)
LEMMA CreateStep ==
  ASSUME IInv, NEW p \in Handlers, NEW fs \in Structures, CreateContract(p, fs)
  PROVE  IInv'
<1>1. /\ row = None /\ Start(p, "create", "record", None) /\ validInput(fs)
      /\ fees' \in calculateFees(fs, Total) /\ row' = newContract
      /\ UNCHANGED <<chain, accounts, paid>>
  BY DEF CreateContract, bankVars
<1>2. newContract \in ContractType /\ newContract # None /\ newContract.status = "CREATED"
  BY NoneAssumption DEF newContract, ContractType, ContractStatus
<1>3. feesSound'
  BY <1>1, SharesAreSound DEF feesSound, sum
<1>4. accounts = <<>> /\ paid = [r \in Recipients |-> 0] /\ chain \in {None, "CREATED"}
  BY <1>1 DEF IInv, worldSound
<1>5. bankSound'
  BY <1>1, <1>4 DEF bankSound
<1>6. chainSound' /\ contractSound(row)'
  BY <1>1, <1>2, <1>4, NoneAssumption
     DEF chainSound, contractSound, ContractStatus, ESCROW_ACTIVE_STATUSES
<1>7. worldSound' /\ Grows
  BY <1>1, <1>2, <1>3, <1>5, <1>6 DEF worldSound, Grows
<1> QED BY <1>1, <1>7, StartFacts, StepKeeps

LEMMA RegisterStep ==
  ASSUME IInv, NEW p \in Handlers, Register(p)
  PROVE  IInv'
<1>1. /\ chain' = chain \/ (chain = None /\ chain' = "CREATED")
      /\ UNCHANGED <<row, fees, accounts, paid>> /\ Finish(p)
  BY DEF Register, registerContract, createContract, bankVars
<1>2. CASE chain' = chain
  BY <1>1, <1>2, FinishKeeps DEF World
<1>3. CASE chain = None /\ chain' = "CREATED"
  <2>1. worldSound'
    BY <1>1, <1>3 DEF IInv, worldSound, feesSound, bankSound, chainSound, contractSound, sum,
                      payoutDone, ContractStatus, ESCROW_ACTIVE_STATUSES
  <2>2. Grows
    BY <1>1 DEF IInv, worldSound, bankSound, Grows
  <2> QED BY <1>1, <2>1, <2>2, FinishFacts, StepKeeps
<1> QED BY <1>1, <1>2, <1>3

LEMMA KeyStep ==
  ASSUME IInv, NEW p \in Handlers, CheckKey(p) \/ SetKey(p) \/ Stops(p)
  PROVE  IInv'
<1>1. UNCHANGED World
  BY DEF CheckKey, SetKey, Stops, World, bankVars
<1>2. CASE Finish(p)
  BY <1>1, <1>2, FinishKeeps
<1>3. CASE Goto(p, "load")
  <2>1. handlerSound(p)'
    BY <1>3, GotoFacts DEF handlerSound, at, Pcs
  <2> QED BY <1>1, <1>3, <2>1, GotoFacts, QuietStep DEF Pcs
<1> QED BY <1>2, <1>3 DEF CheckKey, SetKey, Stops

LEMMA GoOnFacts ==
  ASSUME IInv, NEW p \in Handlers, NEW pc \in Pcs, NEW contract \in ContractType,
         GoOnWith(p, contract, pc)
  PROVE  /\ handler' = [handler EXCEPT ![p] = handler'[p]]
         /\ isCall(handler'[p]) /\ handler'[p].pc = pc
         /\ handler'[p].kind = handler[p].kind /\ handler'[p].copy = contract
<1> PICK h, g : h = handler[p]
                /\ g = [kind |-> h.kind, pc |-> pc, copy |-> contract, note |-> h.note]
  OBVIOUS
<1>1. handler' = [handler EXCEPT ![p] = g] /\ handler'[p] = g /\ isCall(h)
  BY CallFacts DEF GoOnWith
<1>2. /\ g.kind = h.kind /\ g.pc = pc /\ g.copy = contract /\ g.note = h.note
      /\ g = [kind |-> g.kind, pc |-> g.pc, copy |-> g.copy, note |-> g.note]
  OBVIOUS
<1>3. isCall(g)
  BY <1>1, <1>2 DEF isCall, Pcs
<1> QED BY <1>1, <1>2, <1>3
-----------------------------------------------------------------------------
(* The rows and the chain.                                                 *)

(* A status written over an escrow account's keeps what is asked of it.    *)
LEMMA RowContract ==
  ASSUME IInv, row # None
  PROVE  /\ worldSound /\ feesSound /\ bankSound /\ chainSound /\ contractSound(row)
         /\ row \in ContractType /\ row.status \in ContractStatus
BY DEF IInv, worldSound, contractSound, ContractType

(* What an update writes is as true of the bank as what it overwrites.     *)
LEMMA SaveStep ==
  ASSUME IInv, NEW p \in Handlers, Save(p)
  PROVE  IInv'
<1>1. at(p, "save") /\ UNCHANGED <<fees, chain, accounts, paid>>
  BY DEF Save, bankVars
<1>2. CASE Finish(p) /\ UNCHANGED row
  BY <1>1, <1>2, FinishKeeps DEF World
<1>3. CASE Goto(p, "record") /\ row' = handler[p].copy
  <2>1. row # None /\ contractSound(handler[p].copy)
    BY <1>1, CallFacts DEF handlerSound
  <2> PICK contract : contract = handler[p].copy
    OBVIOUS
  <2>2. row' = contract /\ contractSound(contract) /\ contract \in ContractType /\ contract # None
    BY <1>3, <2>1, NoneAssumption DEF contractSound
  <2>3. contractSound(contract)' /\ contractSound(row)'
    BY <1>1, <2>2 DEF contractSound, payoutDone
  <2>4. worldSound'
    <3>1. feesSound' /\ bankSound' /\ chainSound'
      BY <1>1, <2>1, RowContract DEF feesSound, bankSound, chainSound, sum, payoutDone
    <3> QED BY <2>2, <2>3, <3>1 DEF worldSound
  <2>5. Grows
    BY <1>1, <2>1, <2>2, RowContract DEF Grows, bankSound
  <2>6. /\ handler' = [handler EXCEPT ![p] = handler'[p]]
        /\ isCall(handler'[p]) /\ handler'[p].pc = "record" /\ handler'[p].copy = contract
    BY <1>3, GotoFacts DEF Pcs
  <2>7. handlerSound(p)'
    BY <2>2, <2>3, <2>6 DEF handlerSound, at
  <2> QED BY <2>4, <2>5, <2>6, <2>7, StepKeeps
<1> QED BY <1>2, <1>3 DEF Save

LEMMA RecordStep ==
  ASSUME IInv, NEW p \in Handlers, Record(p)
  PROVE  IInv'
<1>1. /\ at(p, "record") /\ handler[p].kind # "create"
      /\ UNCHANGED <<row, fees, accounts, paid>>
  BY DEF Record, bankVars
<1>2. row # None /\ contractSound(handler[p].copy)
  BY <1>1, CallFacts DEF handlerSound
<1>3. worldSound' /\ Grows
  <2>1. CASE chain' = chain
    BY <1>1, <2>1, WorldStill DEF World
  <2>2. CASE chain' = handler[p].copy.status
    <3> PICK contract : contract = handler[p].copy
      OBVIOUS
    <3>1. chain' = contract.status /\ contractSound(contract) /\ chain' \in ContractStatus
      BY <1>2, <2>2 DEF contractSound, ContractType
    <3>2. chain' \in ESCROW_ACTIVE_STATUSES => accounts # <<>>
      BY <3>1 DEF contractSound
    <3>3. chainSound'
      BY <1>1, <3>1, <3>2 DEF chainSound, contractSound, payoutDone
    <3>4. feesSound' /\ bankSound' /\ contractSound(row)'
      BY <1>1, <1>2, RowContract DEF feesSound, bankSound, contractSound, sum, payoutDone
    <3>5. Grows
      BY <1>1, <1>2, RowContract DEF Grows, bankSound
    <3> QED BY <1>1, <1>2, <3>3, <3>4, <3>5 DEF worldSound
  <2> QED BY <2>1, <2>2 DEF Record, recordOf, recordFunding, recordVerification, recordDispute,
                           recordCancellation, recordSettlement, take
<1>4. handlerSound(p)' /\ handler' = [handler EXCEPT ![p] = handler'[p]]
  <2>1. CASE Finish(p)
    BY <2>1, FinishFacts, CallFacts
  <2>2. CASE Goto(p, "setKey")
    BY <2>2, GotoFacts DEF handlerSound, at, Pcs
  <2> QED BY <2>1, <2>2 DEF Record
<1> QED BY <1>3, <1>4, StepKeeps
-----------------------------------------------------------------------------
(* What a call loads.                                                      *)

LEMMA LoadStep ==
  ASSUME IInv, NEW p \in Handlers, NEW contract, NEW pc \in Pcs,
         GoOnWith(p, contract, pc), UNCHANGED World,
         row # None, contract \in ContractType, contractSound(contract),
         pc = "open" => handler[p].kind = "pay",
         pc \in {"chain", "balance", "transfer", "close"} => contract.status = "VERIFIED"
  PROVE  IInv'
<1>1. /\ handler' = [handler EXCEPT ![p] = handler'[p]]
      /\ isCall(handler'[p]) /\ handler'[p].pc = pc
      /\ handler'[p].kind = handler[p].kind /\ handler'[p].copy = contract
  BY GoOnFacts
<1>2. row' # None /\ contractSound(contract)'
  BY DEF World, contractSound, payoutDone
<1>3. handlerSound(p)'
  BY <1>1, <1>2 DEF handlerSound, at
<1> QED BY <1>1, <1>3, QuietStep

LEMMA LoadForPaymentStep ==
  ASSUME IInv, NEW p \in Handlers, LoadForPayment(p)
  PROVE  IInv'
<1>1. handler[p].kind = "pay" /\ UNCHANGED World
  BY DEF LoadForPayment, World, bankVars
<1>2. CASE Finish(p)
  BY <1>1, <1>2, FinishKeeps
<1>3. ASSUME NEW pc \in {"open", "setKey"}, GoOnWith(p, row, pc), row # None
      PROVE  IInv'
  BY <1>1, <1>3, RowContract, LoadStep DEF Pcs
<1> QED BY <1>2, <1>3 DEF LoadForPayment, lockForUpdate

LEMMA LoadForSettlementStep ==
  ASSUME IInv, NEW p \in Handlers, LoadForSettlement(p)
  PROVE  IInv'
<1>1. UNCHANGED World
  BY DEF LoadForSettlement, World, bankVars
<1>2. CASE Finish(p)
  BY <1>1, <1>2, FinishKeeps
<1>3. CASE GoOnWith(p, row, "chain") /\ row # None /\ row.status = "VERIFIED"
  BY <1>1, <1>3, RowContract, LoadStep DEF Pcs
<1> QED BY <1>2, <1>3 DEF LoadForSettlement, lockForUpdate

(* An officer takes a contract to a status with an account only from one.  *)
LEMMA LoadForOfficerStep ==
  ASSUME IInv, NEW p \in Handlers, LoadForOfficer(p)
  PROVE  IInv'
<1>1. handler[p].kind = "officer" /\ UNCHANGED World
  BY DEF LoadForOfficer, World, bankVars
<1>2. CASE Finish(p)
  BY <1>1, <1>2, FinishKeeps
<1>3. CASE /\ GoOnWith(p, [row EXCEPT !.status = handler[p].note], "save")
           /\ row # None /\ canTransition(row.status, handler[p].note)
  <2> PICK note, c, contract : /\ note = handler[p].note /\ c = row
                               /\ contract = [c EXCEPT !.status = note]
    OBVIOUS
  <2>1. note \in OfficerStatuses
    BY <1>1, CallFacts DEF isCall
  <2>2. c \in ContractType /\ contractSound(c) /\ canTransition(c.status, note)
    BY <1>3, RowContract
  <2>3. note \in ContractStatus
    BY <2>1 DEF OfficerStatuses, ContractStatus
  <2>4. contract \in ContractType /\ contract.status = note /\ contract.account = c.account
    BY <2>2, <2>3 DEF ContractType
  <2>5. note \in ESCROW_ACTIVE_STATUSES => c.status \in ESCROW_ACTIVE_STATUSES
    BY <2>1, <2>2 DEF OfficerStatuses, canTransition, ALLOWED_TRANSITIONS,
                      ESCROW_ACTIVE_STATUSES, ContractType, ContractStatus
  <2>6. contractSound(contract)
    BY <2>1, <2>2, <2>4, <2>5 DEF contractSound, OfficerStatuses
  <2>7. GoOnWith(p, contract, "save")
    BY <1>3
  <2> QED BY <1>1, <1>3, <2>4, <2>6, <2>7, LoadStep DEF Pcs
<1> QED BY <1>2, <1>3 DEF LoadForOfficer
-----------------------------------------------------------------------------
(* The bank.                                                               *)

Account == [reference : References, balance : Int, open : BOOLEAN]

(* An account is opened with the total; the contract the call holds comes  *)
(* to name it (ProcessQRISPaymentUseCase.ts:120-150).                      *)
LEMMA OpenStep ==
  ASSUME IInv, NEW p \in Handlers, CreateEscrowAccount(p)
  PROVE  IInv'
<1> PICK a : a = account(handler[p].note.referenceId)
  OBVIOUS
<1>1. /\ at(p, "open") /\ accounts' = Append(accounts, a)
      /\ UNCHANGED <<row, fees, chain, paid>>
  BY DEF CreateEscrowAccount
<1>2. /\ handler[p].kind = "pay" /\ row # None /\ contractSound(handler[p].copy)
      /\ handler[p].note \in Notifications
  BY <1>1, CallFacts DEF handlerSound, isCall
<1>3. a \in Account /\ a.balance = Total
  BY <1>2, TotalAssumption DEF account, Account, Notifications
<1>4. accounts \in Seq(Account)
  BY <1>2, RowContract DEF bankSound, Account
<1>5. /\ accounts' \in Seq(Account) /\ Len(accounts') = Len(accounts) + 1
      /\ DOMAIN accounts' = DOMAIN accounts \cup {Len(accounts')}
      /\ Len(accounts') \in Nat /\ accounts' # <<>>
      /\ accounts'[Len(accounts')] = a
      /\ \A i \in DOMAIN accounts : accounts'[i] = accounts[i]
  BY <1>1, <1>3, <1>4
<1>6. feesSound' /\ chainSound' /\ contractSound(row)'
  BY <1>1, <1>2, <1>5, RowContract DEF feesSound, chainSound, contractSound, sum, payoutDone
<1>7. bankSound'
  <2>1. paid' \in [Recipients -> Int] /\ \A r \in Recipients : paid'[r] >= 0
    BY <1>1, <1>2, RowContract DEF bankSound
  <2>2. sum' = sum
    BY <1>1 DEF sum
  <2>3. ASSUME NEW i \in DOMAIN accounts'
        PROVE  \/ accounts'[i].balance = Total
               \/ /\ accounts'[i].balance = Total - sum
                  /\ paid["sellerAmount"] >= fees.sellerAmount
                  /\ paid["platformFee"] >= fees.platformFee
    <3>1. CASE i = Len(accounts')
      BY <1>3, <1>5, <3>1
    <3>2. CASE i \in DOMAIN accounts
      BY <1>2, <1>5, <3>2, RowContract DEF bankSound
    <3> QED BY <1>5, <3>1, <3>2
  <2> QED BY <1>1, <1>5, <2>1, <2>2, <2>3 DEF bankSound, Account
<1>8. worldSound' /\ Grows
  <2>1. Grows
    BY <1>1, <1>2, <1>5, RowContract DEF Grows, bankSound
  <2> QED BY <1>1, <1>2, <1>6, <1>7, <2>1 DEF worldSound
<1>9. CASE Finish(p)
  BY <1>8, <1>9, FinishFacts, StepKeeps
<1>10. CASE GoOnWith(p, fund(handler[p].copy, Len(accounts')), "save")
  <2> PICK c, contract : c = handler[p].copy /\ contract = fund(c, Len(accounts'))
    OBVIOUS
  <2>1. contract \in ContractType /\ contract.status = "FUNDED"
        /\ contract.account = Len(accounts')
    <3>1. c \in ContractType
      BY <1>2 DEF contractSound
    <3>2. Len(accounts') \in Nat
      BY <1>5
    <3>3. contract = [[c EXCEPT !.status = "FUNDED"] EXCEPT !.account = Len(accounts')]
      BY DEF fund
    <3>4. [c EXCEPT !.status = "FUNDED"] \in ContractType
      BY <3>1 DEF ContractType, ContractStatus
    <3> QED BY <3>1, <3>2, <3>3, <3>4 DEF ContractType
  <2>2. contractSound(contract)' /\ row' # None
    BY <1>1, <1>2, <1>5, <2>1 DEF contractSound, ESCROW_ACTIVE_STATUSES
  <2>3. GoOnWith(p, contract, "save")
    BY <1>10
  <2>4. /\ handler' = [handler EXCEPT ![p] = handler'[p]]
        /\ isCall(handler'[p]) /\ handler'[p].pc = "save" /\ handler'[p].copy = contract
    BY <2>1, <2>3, GoOnFacts DEF Pcs
  <2>5. handlerSound(p)'
    BY <2>2, <2>4 DEF handlerSound, at
  <2> QED BY <1>8, <2>4, <2>5, StepKeeps
<1> QED BY <1>9, <1>10 DEF CreateEscrowAccount

(* The comparisons of a settlement change nothing.                         *)
LEMMA CheckStep ==
  ASSUME IInv, NEW p \in Handlers, CheckChain(p) \/ CheckBalance(p)
  PROVE  IInv'
<1>1. UNCHANGED World /\ (at(p, "chain") \/ at(p, "balance"))
  BY DEF CheckChain, CheckBalance, World, bankVars
<1>2. CASE Finish(p)
  BY <1>1, <1>2, FinishKeeps
<1>3. ASSUME NEW pc \in {"balance", "transfer"}, Goto(p, pc)
      PROVE  IInv'
  <2> PICK contract : contract = handler[p].copy
    OBVIOUS
  <2>1. row # None /\ contractSound(contract) /\ contract.status = "VERIFIED"
    BY <1>1, CallFacts DEF handlerSound
  <2>2. contractSound(contract)' /\ row' # None
    BY <1>1, <2>1 DEF World, contractSound, payoutDone
  <2>3. /\ handler' = [handler EXCEPT ![p] = handler'[p]]
        /\ isCall(handler'[p]) /\ handler'[p].pc = pc /\ handler'[p].copy = contract
    BY <1>3, GotoFacts DEF Pcs
  <2>4. handlerSound(p)'
    BY <2>1, <2>2, <2>3 DEF handlerSound, at
  <2> QED BY <1>1, <2>3, <2>4, QuietStep
<1> QED BY <1>2, <1>3 DEF CheckChain, CheckBalance

(* Another account of the same make in the place of one leaves a sequence  *)
(* of accounts.                                                            *)
LEMMA OneAccount ==
  ASSUME accounts \in Seq(Account), NEW i \in DOMAIN accounts, NEW a \in Account,
         accounts' = [accounts EXCEPT ![i] = a]
  PROVE  /\ accounts' \in Seq(Account) /\ DOMAIN accounts' = DOMAIN accounts
         /\ accounts'[i] = a /\ accounts' # <<>>
         /\ \A j \in DOMAIN accounts : j # i => accounts'[j] = accounts[j]
OBVIOUS

(* The account named by a contract under settlement.                       *)
LEMMA SettledAccount ==
  ASSUME IInv, NEW p \in Handlers, at(p, "transfer") \/ at(p, "close")
  PROVE  /\ row # None /\ contractSound(handler[p].copy)
         /\ handler[p].copy \in ContractType /\ handler[p].copy.status = "VERIFIED"
         /\ handler[p].copy.account \in DOMAIN accounts
         /\ accounts \in Seq(Account) /\ accounts[handler[p].copy.account] \in Account
<1>1. /\ row # None /\ contractSound(handler[p].copy)
      /\ handler[p].copy.status = "VERIFIED"
  BY CallFacts DEF handlerSound
<1>2. accounts \in Seq(Account)
  BY <1>1, RowContract DEF bankSound, Account
<1> QED BY <1>1, <1>2 DEF contractSound, ESCROW_ACTIVE_STATUSES

(* A second batch does not fit an account that has paid the first.         *)
LEMMA TransferStep ==
  ASSUME IInv, NEW p \in Handlers, ExecuteTransfers(p)
  PROVE  IInv'
<1> PICK contract, i, a : contract = handler[p].copy /\ i = contract.account /\ a = accounts[i]
  OBVIOUS
<1>1. at(p, "transfer") /\ Goto(p, "close") /\ UNCHANGED <<row, fees, chain>>
  BY DEF ExecuteTransfers
<1>2. /\ row # None /\ contractSound(contract) /\ contract \in ContractType
      /\ contract.status = "VERIFIED" /\ i \in DOMAIN accounts
      /\ accounts \in Seq(Account) /\ a \in Account
  BY <1>1, SettledAccount
<1>3. /\ handler' = [handler EXCEPT ![p] = handler'[p]]
      /\ isCall(handler'[p]) /\ handler'[p].pc = "close" /\ handler'[p].copy = contract
  BY <1>1, GotoFacts DEF Pcs
<1>4. CASE UNCHANGED bankVars
  <2>1. UNCHANGED World
    BY <1>1, <1>4 DEF World, bankVars
  <2>2. contractSound(contract)' /\ row' # None
    BY <1>1, <1>2, <2>1 DEF World, contractSound, payoutDone
  <2>3. handlerSound(p)'
    BY <1>2, <1>3, <2>2 DEF handlerSound, at
  <2> QED BY <1>3, <2>1, <2>3, QuietStep
<1>5. CASE /\ a.open /\ a.balance >= sum
           /\ accounts' = [accounts EXCEPT ![i].balance = @ - sum]
           /\ paid' = [r \in Recipients |-> paid[r] + transfers[r]]
  <2>1. /\ fees.sellerAmount \in Nat /\ fees.platformFee \in Nat /\ fees.mediatorFee \in Nat
        /\ sum = fees.sellerAmount + fees.platformFee
        /\ sum + fees.mediatorFee = Total /\ 2 * fees.mediatorFee < Total
        /\ paid \in [Recipients -> Int] /\ (\A r \in Recipients : paid[r] >= 0)
        /\ \A j \in DOMAIN accounts :
             \/ accounts[j].balance = Total
             \/ /\ accounts[j].balance = Total - sum
                /\ paid["sellerAmount"] >= fees.sellerAmount
                /\ paid["platformFee"] >= fees.platformFee
    BY <1>2, RowContract DEF feesSound, bankSound, sum
  <2>2. a.balance = Total
    <3>1. \A x, m, t \in Int : x + m = t /\ 2 * m < t => ~(t - x >= x)
      OBVIOUS
    <3>2. sum \in Int /\ Total \in Int
      BY <2>1, TotalAssumption
    <3>3. a.balance = Total \/ a.balance = Total - sum
      BY <1>2, <2>1
    <3> QED BY <1>5, <2>1, <3>1, <3>2, <3>3
  <2>3. /\ paid'["sellerAmount"] = paid["sellerAmount"] + fees.sellerAmount
        /\ paid'["platformFee"] = paid["platformFee"] + fees.platformFee
        /\ paid'["mediatorFee"] = paid["mediatorFee"] + 0
        /\ paid' = [r \in Recipients |-> paid'[r]]
    <3>1. /\ transfers["sellerAmount"] = fees.sellerAmount
          /\ transfers["platformFee"] = fees.platformFee /\ transfers["mediatorFee"] = 0
      BY DEF transfers, Recipients
    <3> QED BY <1>5, <3>1 DEF Recipients
  <2>4. /\ paid["sellerAmount"] \in Int /\ paid["platformFee"] \in Int
        /\ paid["mediatorFee"] \in Int
        /\ paid["sellerAmount"] >= 0 /\ paid["platformFee"] >= 0 /\ paid["mediatorFee"] >= 0
    BY <2>1 DEF Recipients
  <2>5. \A r \in Recipients : paid'[r] \in Int /\ paid'[r] >= 0 /\ paid'[r] >= paid[r]
    BY <2>1, <2>3, <2>4 DEF Recipients
  <2> PICK b : b = [a EXCEPT !.balance = a.balance - sum]
    OBVIOUS
  <2>6. b \in Account /\ b.balance = Total - sum
    <3> PICK x : x = a.balance - sum
      OBVIOUS
    <3>1. b = [a EXCEPT !.balance = x]
      OBVIOUS
    <3>2. x \in Int /\ x = Total - sum
      BY <2>1, <2>2, TotalAssumption
    <3> QED BY <1>2, <3>1, <3>2 DEF Account
  <2>7. accounts' = [accounts EXCEPT ![i] = b]
    BY <1>5
  <2>8. /\ accounts' \in Seq(Account) /\ DOMAIN accounts' = DOMAIN accounts
        /\ accounts'[i] = b /\ accounts' # <<>>
        /\ \A j \in DOMAIN accounts : j # i => accounts'[j] = accounts[j]
    BY <1>2, <2>6, <2>7, OneAccount
  <2>9. Grows
    BY <1>1, <1>2, <2>1, <2>5, <2>8 DEF Grows
  <2>10. sum' = sum /\ feesSound'
    BY <1>1, <1>2, RowContract DEF sum, feesSound
  <2>11. /\ paid'["sellerAmount"] >= fees.sellerAmount
         /\ paid'["platformFee"] >= fees.platformFee
    BY <2>1, <2>3, <2>4
  <2>12. bankSound'
    <3>1. \A j \in DOMAIN accounts' :
            accounts'[j].balance = Total \/ accounts'[j].balance = Total - sum
      BY <2>1, <2>6, <2>8
    <3>2. accounts' \in Seq([reference : References, balance : Int, open : BOOLEAN])
      BY <2>8 DEF Account
    <3>3. paid' \in [Recipients -> Int]
      BY <2>3, <2>5
    <3> QED BY <1>1, <2>5, <2>10, <2>11, <3>1, <3>2, <3>3 DEF bankSound
  <2>13. worldSound
    BY <1>2, RowContract
  <2>14. payoutDone => payoutDone'
    BY <1>2, <2>9, <2>13, PaidStaysPaid
  <2>15. chainSound' /\ contractSound(row)' /\ contractSound(contract)'
    BY <1>1, <1>2, <2>8, <2>14, RowContract DEF chainSound, contractSound
  <2>16. worldSound'
    BY <1>1, <1>2, <2>10, <2>12, <2>15 DEF worldSound
  <2>17. handlerSound(p)'
    BY <1>1, <1>2, <1>3, <2>15 DEF handlerSound, at
  <2> QED BY <1>3, <2>9, <2>16, <2>17, StepKeeps
<1> QED BY <1>4, <1>5 DEF ExecuteTransfers, escrow, sum, transfers, Recipients

(* The bank closes an account only when the shares have left it, all of    *)
(* the total (SettleContractUseCase.ts:160-185).                           *)
LEMMA CloseStep ==
  ASSUME IInv, NEW p \in Handlers, CloseEscrowAccount(p)
  PROVE  IInv'
<1> PICK contract, i, a : contract = handler[p].copy /\ i = contract.account /\ a = accounts[i]
  OBVIOUS
<1>1. at(p, "close") /\ UNCHANGED <<row, fees, chain, paid>>
  BY DEF CloseEscrowAccount
<1>2. /\ row # None /\ contractSound(contract) /\ contract \in ContractType
      /\ contract.status = "VERIFIED" /\ i \in DOMAIN accounts
      /\ accounts \in Seq(Account) /\ a \in Account
  BY <1>1, SettledAccount
<1>3. CASE Finish(p) /\ UNCHANGED accounts
  BY <1>1, <1>3, FinishKeeps DEF World
<1>4. CASE /\ a.balance = 0 /\ accounts' = [accounts EXCEPT ![i].open = FALSE]
           /\ GoOnWith(p, settle(contract), "save")
  <2>1. /\ fees.sellerAmount \in Nat /\ fees.platformFee \in Nat /\ fees.mediatorFee \in Nat
        /\ sum = fees.sellerAmount + fees.platformFee
        /\ sum + fees.mediatorFee = Total /\ 2 * fees.mediatorFee < Total
        /\ paid \in [Recipients -> Int] /\ (\A r \in Recipients : paid[r] >= 0)
        /\ \/ a.balance = Total
           \/ /\ a.balance = Total - sum
              /\ paid["sellerAmount"] >= fees.sellerAmount
              /\ paid["platformFee"] >= fees.platformFee
    BY <1>2, RowContract DEF feesSound, bankSound, sum
  <2>2. payoutDone
    <3>1. paid["mediatorFee"] >= 0
      BY <2>1 DEF Recipients
    <3>2. Total - sum = 0 /\ fees.mediatorFee = 0
      BY <1>4, <2>1, TotalAssumption
    <3>3. paid["sellerAmount"] >= fees.sellerAmount /\ paid["platformFee"] >= fees.platformFee
      BY <1>4, <2>1, TotalAssumption
    <3> QED BY <3>1, <3>2, <3>3 DEF payoutDone, Recipients
  <2> PICK b : b = [a EXCEPT !.open = FALSE]
    OBVIOUS
  <2>3. b \in Account /\ b.balance = a.balance
    BY <1>2 DEF Account
  <2>4. accounts' = [accounts EXCEPT ![i] = b]
    BY <1>4
  <2>5. /\ accounts' \in Seq(Account) /\ DOMAIN accounts' = DOMAIN accounts
        /\ accounts'[i] = b /\ accounts' # <<>>
        /\ \A j \in DOMAIN accounts : j # i => accounts'[j] = accounts[j]
    BY <1>2, <2>3, <2>4, OneAccount
  <2>6. \A j \in DOMAIN accounts : accounts'[j].balance = accounts[j].balance
    BY <2>3, <2>5
  <2>7. feesSound' /\ chainSound' /\ contractSound(row)' /\ payoutDone'
    BY <1>1, <1>2, <2>2, <2>5, RowContract
       DEF feesSound, chainSound, contractSound, sum, payoutDone
  <2>8. bankSound'
    <3>1. sum' = sum /\ bankSound
      BY <1>1, <1>2, RowContract DEF sum
    <3>2. accounts' \in Seq([reference : References, balance : Int, open : BOOLEAN])
      BY <2>5 DEF Account
    <3> QED BY <1>1, <2>5, <2>6, <3>1, <3>2 DEF bankSound
  <2>9. Grows
    BY <1>1, <1>2, <2>1, <2>5 DEF Grows
  <2>10. worldSound'
    BY <1>1, <1>2, <2>7, <2>8 DEF worldSound
  <2> PICK done : done = settle(contract)
    OBVIOUS
  <2>11. done \in ContractType /\ done.status = "SETTLED"
    BY <1>2 DEF settle, ContractType, ContractStatus
  <2>12. contractSound(done)'
    BY <2>7, <2>11 DEF contractSound, ESCROW_ACTIVE_STATUSES
  <2>13. /\ handler' = [handler EXCEPT ![p] = handler'[p]]
         /\ isCall(handler'[p]) /\ handler'[p].pc = "save" /\ handler'[p].copy = done
    BY <1>4, <2>11, GoOnFacts DEF Pcs
  <2>14. handlerSound(p)'
    BY <1>1, <1>2, <2>12, <2>13 DEF handlerSound, at
  <2> QED BY <2>9, <2>10, <2>13, <2>14, StepKeeps
<1> QED BY <1>3, <1>4 DEF CloseEscrowAccount, closeEscrowAccount, getBalance
-----------------------------------------------------------------------------
LEMMA InitIInv == Init => IInv
<1> SUFFICES ASSUME Init PROVE IInv
  OBVIOUS
<1>1. isCall(Idle) /\ Idle.pc = "idle"
  BY NoneAssumption DEF isCall, Idle
<1>2. worldSound
  BY DEF Init, worldSound
<1>3. \A p \in Handlers : handler[p] = Idle
  BY DEF Init
<1>4. handler = [p \in Handlers |-> handler[p]]
  BY DEF Init
<1>5. \A p \in Handlers : handlerSound(p)
  BY <1>1, <1>3 DEF handlerSound, at
<1> QED BY <1>2, <1>4, <1>5 DEF IInv

(* The reconciliation job, and a step of nobody, leave all of it alone.    *)
LEMMA OtherStep ==
  ASSUME IInv, UNCHANGED World, UNCHANGED handler
  PROVE  IInv'
<1>1. worldSound'
  BY WorldStill
<1>2. ASSUME NEW p \in Handlers PROVE handlerSound(p)'
  <2>1. handlerSound(p)
    BY DEF IInv
  <2> QED BY <2>1 DEF World, handlerSound, at, isCall, contractSound, payoutDone
<1> QED BY <1>1, <1>2 DEF IInv

LEMMA NextKeepsIInv == IInv /\ [Next]_vars => IInv'
<1> SUFFICES ASSUME IInv, [Next]_vars PROVE IInv'
  OBVIOUS
<1>1. ASSUME NEW p \in Handlers, NEW fs \in Structures, CreateContract(p, fs) PROVE IInv'
  BY <1>1, CreateStep
<1>2. ASSUME NEW p \in Handlers,
             \/ \E note \in Notifications : handlePaymentNotification(p, note)
             \/ \E status \in OfficerStatuses : OfficerCalls(p, status)
             \/ SettleContract(p)
      PROVE  IInv'
  BY <1>2, StartStep
<1>3. ASSUME NEW p \in Handlers, Register(p) \/ Save(p) \/ Record(p) \/ LoadForOfficer(p)
      PROVE  IInv'
  BY <1>3, RegisterStep, SaveStep, RecordStep, LoadForOfficerStep
<1>4. ASSUME NEW p \in Handlers, Payment(p) \/ Stops(p)
      PROVE  IInv'
  BY <1>4, KeyStep, LoadForPaymentStep, OpenStep DEF Payment
<1>5. ASSUME NEW p \in Handlers, Settlement(p)
      PROVE  IInv'
  BY <1>5, LoadForSettlementStep, CheckStep, TransferStep, CloseStep DEF Settlement
<1>6. CASE JobStart \/ JobChain \/ JobBank \/ JobStore
  <2>1. UNCHANGED World /\ UNCHANGED handler
    BY <1>6 DEF JobStart, JobChain, JobBank, JobStore, World, bankVars
  <2> QED BY <2>1, OtherStep
<1>7. CASE UNCHANGED vars
  BY <1>7, OtherStep DEF vars, World
<1> QED BY <1>1, <1>2, <1>3, <1>4, <1>5, <1>6, <1>7 DEF Next

(* The rows, the chain and what each call holds are at all times as true   *)
(* of the bank as IInv asks.                                               *)
THEOREM InvariantHolds == Spec => []IInv
BY InitIInv, NextKeepsIInv, PTL DEF Spec

(* A contract the row or the chain calls settled has paid out its shares,  *)
(* although SettleContractUseCase.ts:160 looks at no transfer's result.    *)
THEOREM SettledPays == Spec => []SettledIsPaid
<1>1. IInv => SettledIsPaid
  BY DEF IInv, worldSound, SettledIsPaid, chainSound, contractSound
<1> QED BY <1>1, InvariantHolds, PTL

(* A contract that is funded, verified or disputed names an account of the *)
(* bank's that holds its total unless the seller has had his share.        *)
THEOREM FundedStaysHeld == Spec => []FundedIsHeld
<1>1. ASSUME IInv PROVE FundedIsHeld
  <2>1. CASE row = None
    BY <1>1, <2>1, NoneAssumption
       DEF IInv, worldSound, FundedIsHeld, ESCROW_ACTIVE_STATUSES, ContractStatus
  <2>2. CASE row # None
    BY <1>1, <2>2, RowContract DEF FundedIsHeld, chainSound, contractSound, bankSound
  <2> QED BY <2>1, <2>2
<1> QED BY <1>1, InvariantHolds, PTL
-----------------------------------------------------------------------------
(* What a run of the reconciliation job may conclude.                      *)

(* What every step does to what a run looks at: it leaves the chain where  *)
(* it is or moves it on, and takes from accounts or adds one.              *)
ChainMoves ==
  /\ chain \in ContractStatus \cup {None} /\ chain' \in ContractStatus \cup {None}
  /\ chain' = chain \/ stage(chain) < stage(chain')

BalancesFall ==
  \A i \in DOMAIN accounts :
    /\ i \in DOMAIN accounts' /\ accounts[i].balance \in Int /\ accounts'[i].balance \in Int
    /\ accounts'[i].balance <= accounts[i].balance

LEMMA StageFacts ==
  /\ \A s \in ContractStatus \cup {None} : stage(s) \in Nat
  /\ \A s, t \in ContractStatus : canTransition(s, t) => stage(s) < stage(t)
  /\ \A s \in ContractStatus : stage(None) < stage(s)
<1>1. \A s \in ContractStatus : s # None
  BY NoneAssumption
<1>2. \A s \in ContractStatus : stage(s) = stages[s] /\ stages[s] \in 1..6
  BY <1>1 DEF stage, stages, ContractStatus
<1>3. stage(None) = 0
  BY DEF stage
<1>4. ASSUME NEW s \in ContractStatus, NEW t \in ContractStatus, canTransition(s, t)
      PROVE  stages[s] < stages[t]
  BY <1>4 DEF canTransition, ALLOWED_TRANSITIONS, stages, ContractStatus
<1> QED BY <1>2, <1>3, <1>4

LEMMA AccountFacts ==
  ASSUME IInv
  PROVE  /\ chain \in ContractStatus \cup {None} /\ accounts \in Seq(Account)
         /\ \A i \in DOMAIN accounts : accounts[i] \in Account /\ accounts[i].balance \in Int
<1>1. chain \in ContractStatus \cup {None} /\ accounts \in Seq(Account)
  <2>1. CASE row = None
    BY <2>1 DEF IInv, worldSound, ContractStatus
  <2>2. CASE row # None
    BY <2>2 DEF IInv, worldSound, chainSound, bankSound, Account
  <2> QED BY <2>1, <2>2
<1>2. \A i \in DOMAIN accounts : accounts[i] \in Account
  BY <1>1
<1>3. \A a \in Account : a.balance \in Int
  BY DEF Account
<1> QED BY <1>1, <1>2, <1>3

LEMMA WorldMoves ==
  ASSUME IInv, IInv', UNCHANGED chain, UNCHANGED accounts
  PROVE  ChainMoves /\ BalancesFall
BY AccountFacts DEF ChainMoves, BalancesFall

LEMMA HandlersMove ==
  ASSUME IInv, IInv', NEW p \in Handlers,
         \/ \E fs \in Structures : CreateContract(p, fs)
         \/ \E note \in Notifications : handlePaymentNotification(p, note)
         \/ \E status \in OfficerStatuses : OfficerCalls(p, status)
         \/ SettleContract(p)
         \/ Register(p) \/ Save(p) \/ Record(p) \/ LoadForOfficer(p)
         \/ Payment(p) \/ Settlement(p) \/ Stops(p)
  PROVE  job' = job /\ ChainMoves /\ BalancesFall
<1>0. job' = job
  BY DEF CreateContract, handlePaymentNotification, OfficerCalls, SettleContract, Register,
     Save, Record, LoadForOfficer, Payment, CheckKey, LoadForPayment, CreateEscrowAccount,
     SetKey, Settlement, LoadForSettlement, CheckChain, CheckBalance, ExecuteTransfers,
     CloseEscrowAccount, Stops, jobVars
<1>1. /\ chain \in ContractStatus \cup {None} /\ accounts \in Seq(Account)
      /\ chain' \in ContractStatus \cup {None} /\ accounts' \in Seq(Account)
  <2>1. chain \in ContractStatus \cup {None} /\ accounts \in Seq(Account)
    BY AccountFacts
  <2>2. chain' \in ContractStatus \cup {None} /\ accounts' \in Seq(Account)
    <3>1. CASE row' = None
      BY <3>1 DEF IInv, worldSound, ContractStatus
    <3>2. CASE row' # None
      BY <3>2 DEF IInv, worldSound, chainSound, bankSound, Account
    <3> QED BY <3>1, <3>2
  <2> QED BY <2>1, <2>2
<1>2. \A i \in DOMAIN accounts : accounts[i] \in Account /\ accounts[i].balance \in Int
  BY AccountFacts
<1>3. CASE Register(p) \/ Record(p)
  <2>1. UNCHANGED accounts
    BY <1>3 DEF Register, Record, bankVars
  <2>2. \/ chain' = chain
        \/ chain = None /\ chain' = "CREATED"
        \/ chain # None /\ canTransition(chain, chain')
    BY <1>3 DEF Register, Record, registerContract, createContract, recordOf, recordFunding,
       recordVerification, recordDispute, recordCancellation, recordSettlement, take
  <2>3. ChainMoves
    <3>1. CASE chain' = chain
      BY <1>1, <3>1 DEF ChainMoves
    <3>2. CASE chain = None /\ chain' = "CREATED"
      BY <1>1, <3>2, StageFacts DEF ChainMoves, ContractStatus
    <3>3. CASE chain # None /\ canTransition(chain, chain')
      <4>1. chain \in ContractStatus
        BY <1>1, <3>3
      <4>2. chain' \in ContractStatus
        BY <3>3, <4>1 DEF canTransition, ALLOWED_TRANSITIONS, ContractStatus
      <4> QED BY <1>1, <3>3, <4>1, <4>2, StageFacts DEF ChainMoves
    <3> QED BY <2>2, <3>1, <3>2, <3>3
  <2>4. BalancesFall
    BY <1>2, <2>1 DEF BalancesFall
  <2> QED BY <1>0, <2>3, <2>4
<1>4. ASSUME UNCHANGED chain, BalancesFall PROVE ChainMoves /\ BalancesFall
  BY <1>1, <1>4 DEF ChainMoves
<1>5. CASE CreateEscrowAccount(p)
  <2> PICK a : accounts' = Append(accounts, a)
    BY <1>5 DEF CreateEscrowAccount
  <2>1. \A i \in DOMAIN accounts : i \in DOMAIN accounts' /\ accounts'[i] = accounts[i]
    BY <1>1
  <2>2. BalancesFall
    BY <1>2, <2>1 DEF BalancesFall
  <2> QED BY <1>0, <1>4, <1>5, <2>2 DEF CreateEscrowAccount
<1>6. CASE ExecuteTransfers(p)
  <2> PICK i : i = handler[p].copy.account
    OBVIOUS
  <2>1. i \in DOMAIN accounts /\ row # None /\ feesSound
    BY <1>6, SettledAccount, RowContract DEF ExecuteTransfers
  <2>2. sum \in Nat
    BY <2>1 DEF feesSound, sum
  <2>3. \/ accounts' = accounts
        \/ accounts' = [accounts EXCEPT ![i].balance = @ - sum]
    BY <1>6 DEF ExecuteTransfers, bankVars, transfers, sum, Recipients
  <2>4. BalancesFall
    <3>1. CASE accounts' = accounts
      BY <1>2, <3>1 DEF BalancesFall
    <3>2. CASE accounts' = [accounts EXCEPT ![i].balance = @ - sum]
      <4> PICK a, b : a = accounts[i] /\ b = [a EXCEPT !.balance = a.balance - sum]
        OBVIOUS
      <4>1. a \in Account /\ a.balance \in Int
        BY <1>2, <2>1
      <4>2. b.balance = a.balance - sum
        BY <4>1 DEF Account
      <4>3. accounts' = [accounts EXCEPT ![i] = b]
        BY <3>2
      <4>4. /\ DOMAIN accounts' = DOMAIN accounts /\ accounts'[i] = b
            /\ \A j \in DOMAIN accounts : j # i => accounts'[j] = accounts[j]
        BY <1>1, <2>1, <4>3
      <4>5. b.balance \in Int /\ b.balance <= a.balance
        BY <2>2, <4>1, <4>2
      <4>6. ASSUME NEW j \in DOMAIN accounts
            PROVE  /\ accounts'[j].balance \in Int
                   /\ accounts'[j].balance <= accounts[j].balance
        <5>1. CASE j = i
          BY <4>4, <4>5, <5>1
        <5>2. CASE j # i
          BY <1>2, <4>4, <5>2
        <5> QED BY <5>1, <5>2
      <4> QED BY <1>2, <4>4, <4>6 DEF BalancesFall
    <3> QED BY <2>3, <3>1, <3>2
  <2> QED BY <1>0, <1>4, <1>6, <2>4 DEF ExecuteTransfers
<1>7. CASE CloseEscrowAccount(p)
  <2> PICK i : i = handler[p].copy.account
    OBVIOUS
  <2>1. i \in DOMAIN accounts
    BY <1>7, SettledAccount DEF CloseEscrowAccount
  <2>2. \/ accounts' = accounts
        \/ accounts' = [accounts EXCEPT ![i].open = FALSE]
    BY <1>7 DEF CloseEscrowAccount, closeEscrowAccount
  <2>3. BalancesFall
    <3>1. CASE accounts' = accounts
      BY <1>2, <3>1 DEF BalancesFall
    <3>2. CASE accounts' = [accounts EXCEPT ![i].open = FALSE]
      <4> PICK a, b : a = accounts[i] /\ b = [a EXCEPT !.open = FALSE]
        OBVIOUS
      <4>1. a \in Account /\ b.balance = a.balance
        BY <1>2, <2>1 DEF Account
      <4>2. accounts' = [accounts EXCEPT ![i] = b]
        BY <3>2
      <4>3. /\ DOMAIN accounts' = DOMAIN accounts /\ accounts'[i] = b
            /\ \A j \in DOMAIN accounts : j # i => accounts'[j] = accounts[j]
        BY <1>1, <2>1, <4>2
      <4>4. \A j \in DOMAIN accounts : accounts'[j].balance = accounts[j].balance
        BY <4>1, <4>3
      <4> QED BY <1>2, <4>3, <4>4 DEF BalancesFall
    <3> QED BY <2>2, <3>1, <3>2
  <2> QED BY <1>0, <1>4, <1>7, <2>3 DEF CloseEscrowAccount
<1>8. CASE UNCHANGED <<chain, accounts>>
  BY <1>0, <1>8, WorldMoves
<1> QED
  BY <1>3, <1>5, <1>6, <1>7, <1>8
  DEF CreateContract, handlePaymentNotification, OfficerCalls, SettleContract,
      Save, LoadForOfficer, Payment, CheckKey, LoadForPayment, SetKey, Settlement,
      LoadForSettlement, CheckChain, CheckBalance, Stops, bankVars

(* What a run has concluded stays true while others work: what is back at  *)
(* its value of the beginning never left it.                               *)
LEMMA RunGoesOn ==
  ASSUME jobSound, job' = job, ChainMoves, BalancesFall
  PROVE  jobSound'
<1> SUFFICES ASSUME job.pc # "idle" PROVE runSound'
  BY DEF jobSound
<1> PICK was, before : was = chainSeen /\ before = accountsSeen
  OBVIOUS
<1>1. /\ chainSeen' = was /\ accountsSeen' = before /\ runSound
      /\ chainSeen = was /\ accountsSeen = before
  BY DEF jobSound, chainSeen, accountsSeen
<1>2. chainMovedOn' /\ (chain' = was => chain = was)
  <2>1. was \in ContractStatus \cup {None} /\ stage(was) <= stage(chain)
    BY <1>1 DEF runSound, chainMovedOn
  <2>2. stage(was) \in Nat /\ stage(chain) \in Nat /\ stage(chain') \in Nat
    BY <2>1, StageFacts DEF ChainMoves
  <2>3. stage(was) <= stage(chain') /\ (chain' = was => chain = was)
    BY <2>1, <2>2 DEF ChainMoves
  <2>4. stage(was)' = stage(was) /\ stage(chain)' = stage(chain')
    BY DEF stage
  <2> QED BY <1>1, <2>1, <2>3 DEF chainMovedOn, stage
<1>3. balancesFell'
  BY <1>1 DEF runSound, balancesFell, BalancesFall
<1>4. \A i \in DOMAIN before :
        accounts'[i].balance = before[i].balance => accounts[i].balance = before[i].balance
  BY <1>1 DEF runSound, balancesFell, BalancesFall
<1>5. chainAgreed'
  BY <1>1, <1>2 DEF runSound, chainAgreed
<1>6. balanceAgreed'
  <2> SUFFICES ASSUME "bank" \in job.heard, "CRITICAL" \notin job.found,
                      job.copy.status \in {"FUNDED", "VERIFIED"},
                      accounts'[job.copy.account].balance = before[job.copy.account].balance
               PROVE  accounts'[job.copy.account].balance = Total
    BY <1>1 DEF balanceAgreed
  <2>1. job.copy.account \in DOMAIN before
    BY <1>1 DEF runSound, ESCROW_ACTIVE_STATUSES
  <2> QED BY <1>1, <1>4, <2>1 DEF runSound, balanceAgreed
<1> QED BY <1>1, <1>2, <1>3, <1>5, <1>6 DEF runSound

(* A run begins with what is there.                                        *)
LEMMA RunBegins ==
  ASSUME IInv, JobStart
  PROVE  jobSound'
<1> PICK pc \in {"chain", "store"} :
      /\ job' = [pc |-> pc, copy |-> row, found |-> {}, heard |-> {},
                 seen |-> <<row, chain, accounts>>]
      /\ pc = "chain" => row # None
  BY DEF JobStart, JobIdle, getActiveContracts
<1>1. /\ job'.pc = pc /\ job'.copy = row /\ job'.found = {} /\ job'.heard = {}
      /\ job'.seen = <<row, chain, accounts>>
      /\ job' = [pc |-> job'.pc, copy |-> job'.copy, found |-> job'.found,
                 heard |-> job'.heard, seen |-> job'.seen]
  OBVIOUS
<1>2. chainSeen' = chain /\ accountsSeen' = accounts
  BY <1>1 DEF chainSeen, accountsSeen
<1>3. UNCHANGED <<chain, accounts, row, fees, paid, handler>>
  BY DEF JobStart, bankVars
<1>4. IInv'
  BY <1>3, OtherStep DEF World
<1>5. ChainMoves /\ BalancesFall
  BY <1>3, <1>4, WorldMoves
<1>6. chainMovedOn'
  BY <1>2, <1>3, <1>5, StageFacts DEF chainMovedOn, ChainMoves, stage
<1>7. balancesFell'
  BY <1>2, <1>3, <1>5 DEF balancesFell, BalancesFall
<1>8. row # None =>
        /\ row \in ContractType
        /\ row.status \in ESCROW_ACTIVE_STATUSES => row.account \in DOMAIN accounts
  BY RowContract DEF contractSound
<1>9. runSound'
  BY <1>1, <1>2, <1>6, <1>7, <1>8 DEF runSound, chainAgreed, balanceAgreed
<1> QED BY <1>1, <1>9 DEF jobSound

(* A step of the job that keeps its copy and what it has seen.             *)
LEMMA RunAsks ==
  ASSUME JobIInv, job.pc \in {"chain", "bank"},
         NEW pc \in {"bank", "store"}, NEW found, NEW heard,
         job' = [job EXCEPT !.pc = pc, !.found = found, !.heard = heard],
         UNCHANGED <<row, fees, chain, accounts, paid, handler>>,
         "chain" \in heard /\ "CRITICAL" \notin found /\ chain = chainSeen
           => chain = job.copy.status,
         "bank" \in heard /\ "CRITICAL" \notin found /\ job.copy.status \in {"FUNDED", "VERIFIED"}
           /\ accounts[job.copy.account].balance = accountsSeen[job.copy.account].balance
           => accounts[job.copy.account].balance = Total
  PROVE  jobSound'
<1>1. job = [pc |-> job.pc, copy |-> job.copy, found |-> job.found, heard |-> job.heard,
             seen |-> job.seen] /\ runSound
  BY DEF JobIInv, jobSound
<1> PICK j : j = job
  OBVIOUS
<1>2. /\ job' = [pc |-> pc, copy |-> j.copy, found |-> found, heard |-> heard, seen |-> j.seen]
      /\ job'.pc = pc /\ job'.copy = j.copy /\ job'.found = found /\ job'.heard = heard
      /\ job'.seen = j.seen
  BY <1>1
<1>3. chainSeen' = chainSeen /\ accountsSeen' = accountsSeen
  BY <1>2 DEF chainSeen, accountsSeen
<1>4. chainMovedOn' /\ balancesFell'
  BY <1>1, <1>3 DEF runSound, chainMovedOn, balancesFell, stage
<1>5. chainAgreed' /\ balanceAgreed'
  BY <1>2, <1>3 DEF chainAgreed, balanceAgreed
<1>6. runSound'
  BY <1>1, <1>2, <1>3, <1>4, <1>5 DEF runSound
<1> QED BY <1>2, <1>6 DEF jobSound

LEMMA RunKeeps ==
  ASSUME JobIInv, JobChain \/ JobBank
  PROVE  jobSound'
<1>1. runSound /\ UNCHANGED <<row, fees, chain, accounts, paid, handler>>
  BY DEF JobIInv, jobSound, JobChain, JobBank, bankVars
<1>2. CASE JobChain
  <2>1. job.pc = "chain" /\ job.heard = {} /\ job.found = {}
    BY <1>1, <1>2 DEF JobChain, runSound
  <2>2. PICK status \in getContractStatus :
          job' = [job EXCEPT !.pc = "bank", !.found = checkBlockchainStatus(status),
                     !.heard = IF status = "NOT_FOUND" THEN {} ELSE {"chain"}]
    BY <1>2 DEF JobChain
  <2>3. status = "NOT_FOUND" \/ status = chain
    BY DEF getContractStatus
  <2> PICK found, heard : /\ found = checkBlockchainStatus(status)
                          /\ heard = IF status = "NOT_FOUND" THEN {} ELSE {"chain"}
    OBVIOUS
  <2>4. "chain" \in heard /\ "CRITICAL" \notin found => chain = job.copy.status
    BY <2>3 DEF checkBlockchainStatus
  <2>5. "bank" \notin heard
    OBVIOUS
  <2>6. job' = [job EXCEPT !.pc = "bank", !.found = found, !.heard = heard]
    BY <2>2
  <2> QED BY <1>1, <2>1, <2>4, <2>5, <2>6, RunAsks
<1>3. CASE JobBank
  <2>1. job.pc = "bank"
    BY <1>3 DEF JobBank
  <2>2. job = [pc |-> job.pc, copy |-> job.copy, found |-> job.found, heard |-> job.heard,
               seen |-> job.seen]
    BY DEF JobIInv, jobSound
  <2>3. CASE job' = [job EXCEPT !.pc = "store"]
    <3>1. job' = [job EXCEPT !.pc = "store", !.found = job.found, !.heard = job.heard]
      BY <2>2, <2>3
    <3> QED BY <1>1, <2>1, <3>1, RunAsks DEF runSound, chainAgreed, balanceAgreed
  <2>4. CASE job' = [job EXCEPT !.pc = "store", !.heard = @ \cup {"bank"},
                       !.found = @ \cup IF balanceDiffers THEN {"CRITICAL"} ELSE {}]
    <3> PICK found, heard : /\ found = job.found \cup IF balanceDiffers THEN {"CRITICAL"} ELSE {}
                            /\ heard = job.heard \cup {"bank"}
      OBVIOUS
    <3>1. job' = [job EXCEPT !.pc = "store", !.found = found, !.heard = heard]
      BY <2>2, <2>4
    <3>2. "CRITICAL" \notin found /\ job.copy.status \in {"FUNDED", "VERIFIED"}
            => accounts[job.copy.account].balance = Total
      BY DEF balanceDiffers, getBalance
    <3>3. "chain" \in heard /\ "CRITICAL" \notin found /\ chain = chainSeen
            => chain = job.copy.status
      BY <1>1 DEF runSound, chainAgreed
    <3> QED BY <1>1, <2>1, <3>1, <3>2, <3>3, RunAsks
  <2> QED BY <1>3, <2>3, <2>4 DEF JobBank
<1> QED BY <1>2, <1>3

LEMMA JobStepKeeps == JobIInv /\ [Next]_vars => JobIInv'
<1> SUFFICES ASSUME JobIInv, [Next]_vars PROVE JobIInv'
  OBVIOUS
<1>1. IInv /\ IInv' /\ jobSound
  BY NextKeepsIInv DEF JobIInv
<1>2. ASSUME NEW p \in Handlers,
         \/ \E fs \in Structures : CreateContract(p, fs)
         \/ \E note \in Notifications : handlePaymentNotification(p, note)
         \/ \E status \in OfficerStatuses : OfficerCalls(p, status)
         \/ SettleContract(p)
         \/ Register(p) \/ Save(p) \/ Record(p) \/ LoadForOfficer(p)
         \/ Payment(p) \/ Settlement(p) \/ Stops(p)
      PROVE jobSound'
  BY <1>1, <1>2, HandlersMove, RunGoesOn
<1>3. ASSUME JobStart PROVE jobSound'
  BY <1>1, <1>3, RunBegins
<1>4. ASSUME JobChain \/ JobBank PROVE jobSound'
  BY <1>4, RunKeeps
<1>5. ASSUME JobStore PROVE jobSound'
  BY <1>5 DEF JobStore, jobSound, JobIdle
<1>6. ASSUME UNCHANGED vars PROVE jobSound'
  BY <1>1, <1>6, WorldMoves, RunGoesOn DEF vars
<1> QED BY <1>1, <1>2, <1>3, <1>4, <1>5, <1>6 DEF Next, JobIInv

LEMMA JobInvariantHolds == Spec => []JobIInv
<1>1. Init => JobIInv
  BY InitIInv DEF Init, JobIInv, jobSound, JobIdle
<1> QED BY <1>1, JobStepKeeps, PTL DEF Spec

(* The step of QuietRunTells.                                              *)
Tells ==
  job.pc = "store" /\ job'.pc = "idle" /\ report' = "COMPLETED"
    /\ job.seen = <<row, chain, accounts>>
    => /\ "chain" \in job.heard => chain = row.status
       /\ "bank" \in job.heard /\ row.status \in {"FUNDED", "VERIFIED"}
          => accounts[row.account].balance = Total

(* A run during which nothing changed stores COMPLETED only if what it was *)
(* answered agrees with the row (ReconciliationJob.ts:316).                *)
THEOREM QuietRunsTell == Spec => QuietRunTells
<1>1. ASSUME JobIInv, [Next]_vars PROVE [Tells]_vars
  <2> SUFFICES ASSUME job.pc = "store", job'.pc = "idle", report' = "COMPLETED",
                      job.seen = <<row, chain, accounts>>
               PROVE  /\ "chain" \in job.heard => chain = row.status
                      /\ "bank" \in job.heard /\ row.status \in {"FUNDED", "VERIFIED"}
                         => accounts[row.account].balance = Total
    BY DEF Tells
  <2>1. runSound /\ IInv
    BY <1>1 DEF JobIInv, jobSound
  <2>2. row = job.copy /\ chain = chainSeen /\ accounts = accountsSeen
    BY <2>1 DEF runSound, chainSeen, accountsSeen
  <2>3. JobStore
    <3>1. IInv'
      BY <1>1, <2>1, NextKeepsIInv
    <3>2. job' # job
      OBVIOUS
    <3> QED BY <1>1, <2>1, <3>1, <3>2, HandlersMove DEF Next, vars, JobStart, JobChain, JobBank
  <2>4. "CRITICAL" \notin job.found
    BY <2>3 DEF JobStore, storeReconciliationRecord
  <2> QED BY <2>1, <2>2, <2>4 DEF runSound, chainAgreed, balanceAgreed
<1> QED BY <1>1, JobInvariantHolds, PTL DEF Spec, QuietRunTells, Tells
=============================================================================
