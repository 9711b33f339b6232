------------------------ MODULE EscrowService_proofs ------------------------
(***************************************************************************)
(* Theorems about EscrowService, for any finite number of calls, all       *)
(* amounts, every agreement with the adapter and every set of faults: no   *)
(* update of the account is lost, what it shows as frozen the bank holds,  *)
(* and everybody who asks for an account is answered the same one.         *)
(***************************************************************************)
EXTENDS EscrowServiceProperties, FiniteSetTheorems, TLAPS

-----------------------------------------------------------------------------
(* Totals.                                                                 *)

(* The amounts of finitely many add up to a natural number.                *)
LEMMA SumIsNatural ==
  ASSUME NEW S, NEW f, IsFiniteSet(S), \A x \in S : f[x] \in Nat
  PROVE  IsFiniteSet(Units(f, S)) /\ SumOver(f, S) \in Nat
<1> DEFINE g == [x \in S |-> {x} \X (1 .. f[x])]
           T == {g[x] : x \in S}
<1>1. IsFiniteSet(T)
  <2>1. g \in Surjection(S, T)
    BY DEF Surjection
  <2> QED BY <2>1, FS_Surjection
<1>2. ASSUME NEW x \in S PROVE IsFiniteSet(g[x])
  <2>1. IsFiniteSet({x}) /\ IsFiniteSet(1 .. f[x])
    <3>1. f[x] \in Int
      OBVIOUS
    <3>2. IsFiniteSet(1 .. f[x])
      BY <3>1, FS_Interval
    <3> QED BY <3>2, FS_Singleton
  <2> QED BY <2>1, FS_Product
<1>3. Units(f, S) = UNION T
  BY DEF Units
<1>4. IsFiniteSet(Units(f, S))
  <2> HIDE DEF g
  <2> QED BY <1>1, <1>2, <1>3, FS_UNION
<1> QED BY <1>4, FS_CardinalityType DEF SumOver

(* One more member adds its amount to the total.                           *)
LEMMA SumAdds ==
  ASSUME NEW S, NEW f, NEW x, IsFiniteSet(S), x \notin S,
         \A y \in S \cup {x} : f[y] \in Nat
  PROVE  SumOver(f, S \cup {x}) = SumOver(f, S) + f[x]
<1> DEFINE U == Units(f, S)
           V == {x} \X (1 .. f[x])
<1>1. IsFiniteSet(U)
  BY SumIsNatural
<1>2. IsFiniteSet(V) /\ Cardinality(V) = f[x]
  <2>1. /\ IsFiniteSet({x}) /\ Cardinality({x}) = 1
        /\ IsFiniteSet(1 .. f[x])
        /\ Cardinality(1 .. f[x]) = f[x]
    <3>1. f[x] \in Nat
      OBVIOUS
    <3>2. IsFiniteSet(1 .. f[x]) /\ Cardinality(1 .. f[x]) = f[x]
      <4>1. /\ IsFiniteSet(1 .. f[x])
            /\ Cardinality(1 .. f[x]) = IF 1 > f[x] THEN 0 ELSE f[x] - 1 + 1
        BY <3>1, FS_Interval
      <4> QED BY <3>1, <4>1
    <3> QED BY <3>2, FS_Singleton
  <2>2. IsFiniteSet(V) /\ Cardinality(V) = 1 * Cardinality(1 .. f[x])
    BY <2>1, FS_Product
  <2> QED BY <2>1, <2>2
<1>3. Units(f, S \cup {x}) = U \cup V /\ U \cap V = {}
  BY DEF Units
<1>4. Cardinality(U \cup V) = Cardinality(U) + Cardinality(V) - Cardinality({})
  BY <1>1, <1>2, <1>3, FS_Union
<1>5. Cardinality({}) = 0 /\ Cardinality(U) \in Nat
  BY <1>1, FS_EmptySet, FS_CardinalityType
<1>6. SumOver(f, S) = Cardinality(U) /\ SumOver(f, S \cup {x}) = Cardinality(U \cup V)
  BY <1>3 DEF SumOver
<1>7. f[x] \in Nat
  OBVIOUS
<1> HIDE DEF U, V
<1> QED BY <1>2, <1>4, <1>5, <1>6, <1>7

(* A total depends on the amounts of the members only.                     *)
LEMMA SumAgrees ==
  ASSUME NEW S, NEW f, NEW g, \A x \in S : f[x] = g[x]
  PROVE  SumOver(f, S) = SumOver(g, S)
BY DEF SumOver, Units

(* Nothing adds up to nothing.                                             *)
LEMMA SumOfNone ==
  ASSUME NEW f
  PROVE  SumOver(f, {}) = 0
BY FS_EmptySet DEF SumOver, Units

(* A part adds up to no more than the whole.                               *)
LEMMA SumGrows ==
  ASSUME NEW S, NEW T, NEW f, IsFiniteSet(S), T \subseteq S,
         \A x \in S : f[x] \in Nat
  PROVE  SumOver(f, T) <= SumOver(f, S)
<1>1. Units(f, T) \subseteq Units(f, S) /\ IsFiniteSet(Units(f, S))
  BY SumIsNatural DEF Units
<1> QED BY <1>1, FS_Subset DEF SumOver

(* The amounts of calls that have started.                                 *)
LEMMA AmountFacts ==
  ASSUME TypeOK, NEW S, S \subseteq started
  PROVE  /\ IsFiniteSet(S) /\ \A c \in S : amounts[c] \in Nat
         /\ SumOver(amounts, S) \in Nat
<1>1. IsFiniteSet(S)
  <2>1. S \subseteq Calls
    BY DEF started
  <2> QED BY <2>1, CallsAssumption, FS_Subset
<1>2. \A c \in started : amounts[c] \in Nat
  BY DEF TypeOK, amounts, amountOf, Requests
<1> QED BY <1>1, <1>2, SumIsNatural

LEMMA AmountsAdd ==
  ASSUME TypeOK, NEW S, S \subseteq started, NEW c \in started, c \notin S
  PROVE  SumOver(amounts, S \cup {c}) = SumOver(amounts, S) + amounts[c]
<1>1. IsFiniteSet(S)
  BY AmountFacts
<1>2. \A d \in S \cup {c} : amounts[d] \in Nat
  BY DEF TypeOK, amounts, amountOf, Requests
<1> HIDE DEF amounts
<1> QED BY <1>1, <1>2, SumAdds

-----------------------------------------------------------------------------
(* The entity.                                                             *)

(* What saving the result of a method that does not throw does to the row. *)
LEMMA ResultFacts ==
  ASSUME NEW a, Sound(a), NEW r \in Requests, can(r, a),
         r.op \in {"credit", "debit", "freeze", "unfreeze", "close"}
  PROVE  /\ Sound(result(r, a)) /\ result(r, a) # Absent
         /\ result(r, a).balance =
              CASE r.op = "credit" -> a.balance + r.amount
                [] r.op = "debit"  -> a.balance - r.amount
                [] OTHER           -> a.balance
         /\ result(r, a).frozen <=
              CASE r.op = "freeze"   -> a.frozen + r.amount
                [] r.op = "unfreeze" -> a.frozen - r.amount
                [] OTHER             -> a.frozen
<1> DEFINE b == result(r, a)
<1>1. /\ a \in Accounts /\ a.balance \in Nat /\ a.frozen \in Nat
      /\ a.status \in EscrowAccountStatuses /\ a.frozen <= a.balance
      /\ r.amount \in Nat
  BY DEF Sound, Accounts, Requests
<1>2. \A x \in Accounts : x # Absent
  BY DEF Accounts, EscrowAccountStatuses, Absent
<1>3. CASE r.op = "credit"
  <2>1. b = [a EXCEPT !.balance = @ + r.amount]
    BY <1>3 DEF result, credit
  <2>2. b.balance = a.balance + r.amount /\ b.frozen = a.frozen /\ b \in Accounts
    BY <1>1, <2>1 DEF Accounts
  <2> HIDE DEF b
  <2> QED BY <1>1, <1>2, <1>3, <2>2 DEF Sound, b
<1>4. CASE r.op = "debit"
  <2>1. b = debit(a, r.amount) /\ r.amount <= a.balance - a.frozen
    BY <1>4 DEF result, can, canDebit, availableBalance
  <2>2. /\ b.balance = a.balance - r.amount
        /\ b.frozen = a.frozen - lesser(r.amount, a.frozen)
        /\ b.status = a.status /\ b = [balance |-> b.balance, frozen |-> b.frozen, status |-> b.status]
    BY <2>1 DEF debit
  <2>3. lesser(r.amount, a.frozen) \in Nat /\ lesser(r.amount, a.frozen) <= a.frozen
    BY <1>1 DEF lesser
  <2>4. b.balance \in Nat /\ b.frozen \in Nat /\ b.frozen <= a.frozen /\ b.frozen <= b.balance
    BY <1>1, <2>1, <2>2, <2>3
  <2> HIDE DEF b
  <2>5. b \in Accounts
    BY <1>1, <2>2, <2>4 DEF Accounts
  <2> QED BY <1>2, <1>4, <2>2, <2>4, <2>5 DEF Sound, b
<1>5. CASE r.op = "freeze"
  <2>1. b = freezeFunds(a, r.amount) /\ r.amount <= a.balance - a.frozen
    BY <1>5 DEF result, can, canFreeze, availableBalance
  <2>2. b.balance = a.balance /\ b.frozen = a.frozen + r.amount /\ b \in Accounts
    BY <1>1, <2>1 DEF freezeFunds, Accounts, EscrowAccountStatuses
  <2> HIDE DEF b
  <2> QED BY <1>1, <1>2, <1>5, <2>1, <2>2 DEF Sound, b
<1>6. CASE r.op = "unfreeze"
  <2>1. b = unfreezeFunds(a, r.amount) /\ r.amount <= a.frozen
    BY <1>6 DEF result, can, canUnfreeze
  <2>2. b.balance = a.balance /\ b.frozen = a.frozen - r.amount /\ b \in Accounts
    BY <1>1, <2>1 DEF unfreezeFunds, Accounts, EscrowAccountStatuses
  <2> HIDE DEF b
  <2> QED BY <1>1, <1>2, <1>6, <2>1, <2>2 DEF Sound, b
<1>7. CASE r.op = "close"
  <2>1. b = [a EXCEPT !.status = "CLOSED"]
    BY <1>7 DEF result, close
  <2>2. b.balance = a.balance /\ b.frozen = a.frozen /\ b \in Accounts
    BY <1>1, <2>1 DEF Accounts, EscrowAccountStatuses
  <2> HIDE DEF b
  <2> QED BY <1>1, <1>2, <1>7, <2>2 DEF Sound, b
<1> QED BY <1>3, <1>4, <1>5, <1>6, <1>7

-----------------------------------------------------------------------------
(* What steps have in common.                                              *)

(* The calls that have started are asked what they were asked, and those   *)
(* that have ended without success stay so.                                *)
goesOn ==
  /\ started \subseteq started'
  /\ \A c \in started : request'[c] = request[c]
  /\ \A c \in started' \ started : pc'[c] \in {"find", "lock", "ask"}
  /\ \A c \in started :
       pc[c] \in {"error", "rollback"} => pc'[c] \in {"error", "rollback"}

LEMMA AmountsStay ==
  ASSUME goesOn
  PROVE  \A c \in started : amounts'[c] = amounts[c]
<1> SUFFICES ASSUME NEW c \in started PROVE amounts'[c] = amounts[c]
  OBVIOUS
<1>1. c \in started' /\ request'[c] = request[c]
  BY DEF goesOn
<1> QED BY <1>1 DEF amounts, amountOf

(* Nothing is added to what credits and debits have done to the balance.   *)
LEMMA UpdatesStay ==
  ASSUME IInv, goesOn, account'.balance = account.balance,
         Earlier \in opened' <=> Earlier \in opened,
         \A c \in asked("credit") \cup asked("debit") : pc'[c] = "ok" <=> pc[c] = "ok"
  PROVE  UpdatesKept'
<1>1. PICK C \in SUBSET answered("credit", {"error", "rollback"}),
           D \in SUBSET answered("debit", {"error", "rollback"}) :
        account.balance = opening
          + total(answered("credit", {"ok"}) \cup C)
          - total(answered("debit", {"ok"}) \cup D)
  BY DEF IInv, UpdatesKept
<1> DEFINE In(op) == answered(op, {"ok"})
<1>2. ASSUME NEW op \in {"credit", "debit"}
      PROVE  /\ answered(op, {"ok"})' = In(op)
             /\ answered(op, {"error", "rollback"})
                  \subseteq answered(op, {"error", "rollback"})'
             /\ In(op) \cup answered(op, {"error", "rollback"}) \subseteq started
  BY DEF answered, asked, goesOn
<1>3. ASSUME NEW S, S \subseteq started
      PROVE  SumOver(amounts', S) = SumOver(amounts, S)
  <2>1. \A c \in S : amounts'[c] = amounts[c]
    BY <1>3, AmountsStay
  <2> QED BY <2>1, SumAgrees
<1>4. opening' = opening
  BY DEF opening
<1>5. /\ SumOver(amounts', In("credit") \cup C) = SumOver(amounts, In("credit") \cup C)
      /\ SumOver(amounts', In("debit") \cup D) = SumOver(amounts, In("debit") \cup D)
  BY <1>2, <1>3
<1>6. account'.balance = opening'
          + SumOver(amounts', answered("credit", {"ok"})' \cup C)
          - SumOver(amounts', answered("debit", {"ok"})' \cup D)
  BY <1>1, <1>2, <1>4, <1>5 DEF total
<1>7. /\ C \in SUBSET (answered("credit", {"error", "rollback"})')
      /\ D \in SUBSET (answered("debit", {"error", "rollback"})')
  BY <1>1, <1>2
<1> HIDE DEF In
<1> QED BY <1>6, <1>7 DEF UpdatesKept, total, SumOver, Units

LEMMA BackingIsCounted ==
  ASSUME TypeOK'
  PROVE  /\ IsFiniteSet(backing') /\ \A c \in backing' : amounts'[c] \in Nat
         /\ SumOver(amounts', backing') \in Nat
<1>1. backing' \subseteq started'
  BY DEF backing, released, TypeOK, asked, answered
<1>2. IsFiniteSet(backing')
  <2>1. backing' \subseteq Calls
    BY <1>1 DEF started
  <2> QED BY <2>1, CallsAssumption, FS_Subset
<1>3. \A c \in started' : amounts'[c] \in Nat
  BY DEF TypeOK, amounts, amountOf, Requests
<1> QED BY <1>1, <1>2, <1>3, SumIsNatural

(* What backs the frozen part of the row after a step is worth as much as  *)
(* any of the calls before it that are still among it.                     *)
LEMMA BackingCovers ==
  ASSUME TypeOK', goesOn, NEW X, X \subseteq started, X \subseteq backing'
  PROVE  /\ SumOver(amounts, X) <= SumOver(amounts', backing')
         /\ SumOver(amounts', backing') \in Nat
<1>1. SumOver(amounts', X) = SumOver(amounts, X)
  <2>1. \A c \in X : amounts'[c] = amounts[c]
    BY AmountsStay
  <2> QED BY <2>1, SumAgrees
<1>2. SumOver(amounts', X) <= SumOver(amounts', backing')
  BY BackingIsCounted, SumGrows
<1> QED BY <1>1, <1>2, BackingIsCounted

(* The backing before a step: calls that have started, worth no less than  *)
(* what the row shows as frozen.                                           *)
LEMMA BackingFacts ==
  ASSUME IInv
  PROVE  /\ backing \subseteq started /\ IsFiniteSet(backing)
         /\ \A c \in backing : amounts[c] \in Nat
         /\ account.frozen <= SumOver(amounts, backing)
         /\ account.frozen \in Nat /\ SumOver(amounts, backing) \in Nat
<1>1. backing \subseteq started
  BY DEF backing, released, IInv, TypeOK, asked, answered
<1>2. account.frozen \in Nat
  BY DEF IInv, TypeOK, Accounts, Absent
<1>3. TypeOK /\ account.frozen <= SumOver(amounts, backing)
  BY DEF IInv, frozenIsBacked, total
<1> QED BY <1>1, <1>2, <1>3, AmountFacts

(* What the row shows as frozen stays backed when nothing is frozen and    *)
(* nothing of the backing is taken away.                                   *)
LEMMA BackingStays ==
  ASSUME IInv, TypeOK', goesOn, account'.frozen <= account.frozen,
         account'.frozen \in Nat, backing \subseteq backing'
  PROVE  account'.frozen <= SumOver(amounts', backing')
<1>1. /\ SumOver(amounts, backing) <= SumOver(amounts', backing')
      /\ SumOver(amounts', backing') \in Nat
  BY BackingFacts, BackingCovers
<1> QED BY <1>1, BackingFacts

(* A step that leaves the row alone keeps the invariant, if it keeps what  *)
(* the calls know of the row and what backs its frozen part.               *)
LEMMA RowStays ==
  ASSUME IInv, TypeOK', readIsCurrent', goesOn,
         UNCHANGED <<account, accountNumber>>,
         Earlier \in opened' <=> Earlier \in opened,
         \A c \in Calls : \/ answer'[c] = answer[c]
                          \/ account # Absent /\ answer'[c] = accountNumber,
         account = Absent => \A c \in started' : request'[c].op = "create",
         \A c \in asked("credit") \cup asked("debit") : pc'[c] = "ok" <=> pc[c] = "ok",
         backing \subseteq backing',
         \A c \in asked("freeze")' : pc'[c] = "save" => c \in holds'
  PROVE  IInv'
<1>1. rowSound'
  BY DEF IInv, rowSound, Sound, Accounts
<1>2. account.frozen \in Nat
  BY DEF IInv, TypeOK, Accounts, Absent
<1>3. frozenIsBacked'
  <2>1. account'.frozen <= SumOver(amounts', backing')
    BY <1>2, BackingStays
  <2> QED BY <2>1 DEF frozenIsBacked, total, SumOver, Units
<1>4. UpdatesKept'
  BY UpdatesStay
<1>5. OneAccountAnswered'
  <2> SUFFICES ASSUME NEW c \in Calls, answer'[c] # None
               PROVE  answer'[c] = accountNumber'
    BY DEF OneAccountAnswered
  <2> QED BY DEF IInv, OneAccountAnswered
<1> QED BY <1>1, <1>3, <1>4, <1>5 DEF IInv

(* A call under way that moves on is still where its operation can be.     *)
LEMMA MoveFacts ==
  ASSUME IInv, NEW c \in started, NEW label, goto(c, label), UNCHANGED request,
         label \in labelsOf(request[c].op) \cup (Ended \ {"idle"}),
         pc[c] # "error", pc[c] = "rollback" => label \in {"error", "rollback"},
         agreed' \in Agreements, opened' \subseteq Calls \cup {Earlier},
         bankBalance' \in Nat, account' \in Accounts \cup {Absent},
         lock' \in Calls \cup {None}, holds' \subseteq asked("freeze"),
         read' \in [Calls -> Accounts \cup {Absent}],
         answer' \in [Calls -> Calls \cup {Earlier, None}],
         accountNumber' \in Calls \cup {Earlier, None}
  PROVE  /\ TypeOK' /\ goesOn /\ started' = started
         /\ \A op : asked(op)' = asked(op)
         /\ pc'[c] = label /\ \A d \in Calls \ {c} : pc'[d] = pc[d]
         /\ c \in Calls
<1>1. c \in Calls /\ pc[c] # "idle" /\ pc \in [Calls -> Labels]
      /\ pc' = [pc EXCEPT ![c] = label]
  BY DEF started, IInv, TypeOK, goto
<1>2. label # "idle" /\ label \in Labels
  BY DEF labelsOf, Ended, Labels
<1>3. pc' \in [Calls -> Labels] /\ pc'[c] = label /\ \A d \in Calls \ {c} : pc'[d] = pc[d]
  BY <1>1, <1>2
<1>4. started' = started
  BY <1>1, <1>2, <1>3 DEF started
<1>5. \A op : asked(op)' = asked(op)
  BY <1>4 DEF asked
<1>6. goesOn
  <2>1. \A d \in started : pc[d] \in {"error", "rollback"} => pc'[d] \in {"error", "rollback"}
    BY <1>3 DEF started
  <2> QED BY <1>4, <2>1 DEF goesOn
<1>7. ASSUME NEW d \in started'
      PROVE  /\ request'[d] \in Requests
             /\ pc'[d] \in labelsOf(request'[d].op) \cup (Ended \ {"idle"})
             /\ request'[d].op = "unfreeze" =>
                  /\ request'[d].reference \in asked("freeze")'
                  /\ amountOf(d)' = amountOf(request[d].reference)'
  <2>1. d \in started /\ d \in Calls
    BY <1>4 DEF started
  <2>2. /\ request[d] \in Requests
        /\ pc[d] \in labelsOf(request[d].op) \cup (Ended \ {"idle"})
        /\ request[d].op = "unfreeze" =>
             /\ request[d].reference \in asked("freeze")
             /\ amountOf(d) = amountOf(request[d].reference)
    BY <2>1 DEF IInv, TypeOK
  <2>3. pc'[d] \in labelsOf(request[d].op) \cup (Ended \ {"idle"})
    BY <1>3, <2>1, <2>2
  <2> QED BY <1>5, <2>2, <2>3 DEF amountOf
<1>8. TypeOK'
  BY <1>3, <1>5, <1>7 DEF IInv, TypeOK, labelsOf
<1> QED BY <1>1, <1>3, <1>4, <1>5, <1>6, <1>8

-----------------------------------------------------------------------------
(* The calls.                                                              *)

(* A call begins outside every set that the invariant adds up.             *)
LEMMA BeginKeeps ==
  ASSUME IInv, NEW c \in Calls, NEW label \in {"find", "lock", "ask"},
         NEW r \in Requests, begin(c, label, r), bankBalance' \in Nat,
         label \in labelsOf(r.op),
         r.op # "create" => account # Absent,
         r.op = "unfreeze" => /\ r.reference \in asked("freeze")
                              /\ r.amount = amountOf(r.reference)
  PROVE  IInv'
<1>1. /\ pc[c] = "idle" /\ pc' = [pc EXCEPT ![c] = label]
      /\ request' = [request EXCEPT ![c] = r]
      /\ UNCHANGED <<agreed, account, accountNumber, lock, opened, holds, read, answer>>
      /\ pc \in [Calls -> Labels] /\ request \in [Calls -> Requests \cup {None}]
  BY DEF begin, goto, row, IInv, TypeOK
<1>2. /\ pc'[c] = label /\ request'[c] = r
      /\ \A d \in Calls \ {c} : pc'[d] = pc[d] /\ request'[d] = request[d]
      /\ pc' \in [Calls -> Labels] /\ request' \in [Calls -> Requests \cup {None}]
  BY <1>1 DEF Labels
<1>3. started' = started \cup {c} /\ c \notin started /\ started \subseteq Calls
  BY <1>1, <1>2 DEF started
<1>4. \A op : asked(op)' = IF r.op = op THEN asked(op) \cup {c} ELSE asked(op)
  BY <1>2, <1>3 DEF asked
<1>5. goesOn
  BY <1>2, <1>3 DEF goesOn
<1>6. ASSUME NEW d \in started'
      PROVE  /\ request'[d] \in Requests
             /\ pc'[d] \in labelsOf(request'[d].op) \cup (Ended \ {"idle"})
             /\ request'[d].op = "unfreeze" =>
                  /\ request'[d].reference \in asked("freeze")'
                  /\ amountOf(d)' = amountOf(request[d].reference)'
  <2>1. CASE d = c
    <3>1. r.op = "unfreeze" => r.reference # c /\ r.reference \in Calls
      BY <1>3 DEF asked
    <3>2. r.op = "unfreeze" => amountOf(r.reference) = request'[r.reference].amount
      BY <1>2, <3>1 DEF amountOf
    <3> QED BY <1>2, <1>4, <2>1, <3>2 DEF amountOf
  <2>2. CASE d # c
    <3>1. d \in started /\ request'[d] = request[d] /\ pc'[d] = pc[d]
      BY <1>2, <1>3, <2>2
    <3>2. /\ request[d] \in Requests
          /\ pc[d] \in labelsOf(request[d].op) \cup (Ended \ {"idle"})
          /\ request[d].op = "unfreeze" =>
               /\ request[d].reference \in asked("freeze")
               /\ amountOf(d) = amountOf(request[d].reference)
      BY <3>1 DEF IInv, TypeOK
    <3>3. request[d].op = "unfreeze" => request[d].reference # c /\ request[d].reference \in Calls
      BY <1>3, <3>2 DEF asked
    <3> QED BY <1>2, <1>4, <3>1, <3>2, <3>3 DEF amountOf
  <2> QED BY <2>1, <2>2
<1>7. TypeOK'
  <2>1. holds' \subseteq asked("freeze")'
    BY <1>1, <1>4 DEF IInv, TypeOK
  <2> QED BY <1>1, <1>2, <1>6, <2>1 DEF IInv, TypeOK, labelsOf
<1>8. readIsCurrent'
  BY <1>1, <1>2 DEF IInv, readIsCurrent
<1>9. backing \subseteq backing'
  <2>1. \A d \in started : pc'[d] = pc[d] /\ request'[d] = request[d]
    BY <1>2, <1>3
  <2>2. released \subseteq released'
    BY <1>4, <2>1 DEF released, answered, asked
  <2>3. holds \cup released \subseteq started
    BY DEF released, answered, asked, IInv, TypeOK
  <2> QED BY <1>1, <2>1, <2>2, <2>3 DEF backing
<1>10. \A d \in asked("freeze")' : pc'[d] = "save" => d \in holds'
  BY <1>1, <1>2, <1>4 DEF IInv, frozenIsBacked
<1>11. account = Absent => \A d \in started' : request'[d].op = "create"
  BY <1>2, <1>3 DEF IInv, rowSound
<1>12. \A d \in asked("credit") \cup asked("debit") : pc'[d] = "ok" <=> pc[d] = "ok"
  BY <1>2, <1>3 DEF asked
<1> QED
  BY <1>1, <1>5, <1>7, <1>8, <1>9, <1>10, <1>11, <1>12, RowStays

LEMMA CallBegins ==
  ASSUME IInv, NEW c \in Calls, Begin(c)
  PROVE  IInv'
<1>0. bankBalance \in Nat /\ \A amount \in 1 .. MaxAmount : amount \in Nat
  BY AmountsAssumption DEF IInv, TypeOK
<1>1. CASE createAccount(c)
  BY <1>0, <1>1, BeginKeeps DEF createAccount, Req, Requests, labelsOf
<1>2. CASE closeAccount(c)
  BY <1>0, <1>2, BeginKeeps DEF closeAccount, Req, Requests, labelsOf
<1>3. CASE verifyBalance(c)
  BY <1>0, <1>3, BeginKeeps DEF verifyBalance, Req, Requests, labelsOf
<1>4. ASSUME NEW amount \in 1 .. MaxAmount,
             creditFunds(c, amount) \/ debitFunds(c, amount) \/ freezeCall(c, amount)
      PROVE  IInv'
  <2>1. bankBalance' \in Nat
    BY <1>0, <1>4 DEF creditFunds, debitFunds, freezeCall
  <2>2. CASE creditFunds(c, amount)
    BY <1>0, <2>1, <2>2, BeginKeeps DEF creditFunds, Req, Requests, labelsOf
  <2>3. CASE debitFunds(c, amount)
    BY <1>0, <2>1, <2>3, BeginKeeps DEF debitFunds, Req, Requests, labelsOf
  <2>4. CASE freezeCall(c, amount)
    BY <1>0, <2>1, <2>4, BeginKeeps DEF freezeCall, Req, Requests, labelsOf
  <2> QED BY <1>4, <2>2, <2>3, <2>4
<1>5. ASSUME NEW f \in asked("freeze"), unfreezeCall(c, f)
      PROVE  IInv'
  <2> DEFINE r == Req("unfreeze", amountOf(f), f)
  <2>1. f \in Calls /\ amountOf(f) \in Nat /\ account # Absent
    <3>1. f \in started /\ f \in Calls /\ request[f].op = "freeze"
      BY DEF asked, started
    <3> QED BY <3>1 DEF IInv, TypeOK, Requests, amountOf, rowSound
  <2>2. r \in Requests /\ r.op = "unfreeze" /\ r.reference = f /\ r.amount = amountOf(f)
    BY <2>1 DEF Req, Requests
  <2>3. begin(c, "lock", r) /\ bankBalance' \in Nat
    BY <1>0, <1>5 DEF unfreezeCall
  <2>4. "lock" \in labelsOf("unfreeze")
    BY DEF labelsOf
  <2> HIDE DEF r
  <2> QED BY <2>1, <2>2, <2>3, <2>4, BeginKeeps
<1> QED BY <1>1, <1>2, <1>3, <1>4, <1>5 DEF Begin

-----------------------------------------------------------------------------
(* The steps that leave the row alone.                                     *)

(* What the fields of the state are, to be handed on to MoveFacts.         *)
LEMMA StateFacts ==
  ASSUME IInv
  PROVE  /\ agreed \in Agreements /\ opened \subseteq Calls \cup {Earlier}
         /\ bankBalance \in Nat /\ account \in Accounts \cup {Absent}
         /\ lock \in Calls \cup {None} /\ holds \subseteq asked("freeze")
         /\ read \in [Calls -> Accounts \cup {Absent}]
         /\ answer \in [Calls -> Calls \cup {Earlier, None}]
         /\ accountNumber \in Calls \cup {Earlier, None}
         /\ \A c \in started :
              /\ c \in Calls /\ request[c] \in Requests
              /\ pc[c] \in labelsOf(request[c].op) \cup (Ended \ {"idle"})
BY DEF IInv, TypeOK, started

(* A call that is not done is one that has started.                        *)
LEMMA UnderWay ==
  ASSUME NEW c \in Calls, pc[c] # "idle"
  PROVE  c \in started
BY DEF started

(* A move of a call that is no balance operation: create and verify.       *)
LEMMA BystanderKeeps ==
  ASSUME IInv, NEW c \in started, request[c].op \in {"create", "verify"},
         NEW label, goto(c, label), UNCHANGED request,
         label \in labelsOf(request[c].op) \cup (Ended \ {"idle"}),
         pc[c] \notin Ended,
         UNCHANGED <<agreed, account, accountNumber, lock, bankBalance, holds>>,
         opened' \subseteq opened \cup {c},
         opened \subseteq opened',
         read' \in [Calls -> Accounts \cup {Absent}],
         \A d \in Calls \ {c} : read'[d] = read[d],
         answer' \in [Calls -> Calls \cup {Earlier, None}],
         \A d \in Calls : \/ answer'[d] = answer[d]
                          \/ account # Absent /\ answer'[d] = accountNumber
  PROVE  IInv'
<1>1. /\ pc[c] \notin {"error", "rollback"} /\ label \notin {"bank", "save"}
      /\ opened' \subseteq Calls \cup {Earlier} /\ c \in Calls
  BY StateFacts DEF labelsOf, Ended
<1>2. /\ TypeOK' /\ goesOn /\ started' = started
      /\ \A op : asked(op)' = asked(op)
      /\ pc'[c] = label /\ \A d \in Calls \ {c} : pc'[d] = pc[d]
  BY <1>1, StateFacts, MoveFacts
<1>3. readIsCurrent'
  BY <1>1, <1>2 DEF IInv, readIsCurrent
<1>4. Earlier \in opened' <=> Earlier \in opened
  BY <1>1, CallsAssumption
<1>5. c \notin asked("freeze") /\ c \notin asked("unfreeze")
      /\ c \notin asked("credit") \cup asked("debit")
  BY DEF asked
<1>6. asked("freeze") \subseteq Calls /\ asked("unfreeze") \subseteq Calls
  BY DEF asked, started
<1>7. backing \subseteq backing'
  <2>1. released' = released
    BY <1>2, <1>5, <1>6 DEF released, answered
  <2>2. holds \cup released \subseteq asked("freeze")
    BY DEF released, answered, asked, IInv, TypeOK
  <2> QED BY <1>2, <1>5, <1>6, <2>1, <2>2 DEF backing
<1>8. \A d \in asked("freeze")' : pc'[d] = "save" => d \in holds'
  BY <1>2, <1>5, <1>6 DEF IInv, frozenIsBacked
<1>9. account = Absent => \A d \in started' : request'[d].op = "create"
  BY <1>2 DEF IInv, rowSound
<1>10. \A d \in asked("credit") \cup asked("debit") : pc'[d] = "ok" <=> pc[d] = "ok"
  BY <1>2, <1>5 DEF asked, started
<1> QED
  BY <1>2, <1>3, <1>4, <1>7, <1>8, <1>9, <1>10, RowStays

LEMMA CreateSteps ==
  ASSUME IInv, NEW c \in Calls,
         \/ findExisting(c) \/ openAtBank(c) \/ openFails(c)
         \/ (insertAccount(c) /\ account # Absent)
         \/ (insertAccount(c) /\ UNCHANGED row)
  PROVE  IInv'
<1>1. pc[c] \in {"find", "open", "insert"}
  BY DEF findExisting, openAtBank, openFails, insertAccount
<1>2. c \in started
  BY <1>1, UnderWay
<1>3. request[c].op = "create" /\ pc[c] \notin Ended
  BY <1>1, <1>2, StateFacts DEF labelsOf, Ended, Requests
<1>4. {"open", "insert", "ok", "error"} \subseteq labelsOf("create") \cup (Ended \ {"idle"})
  BY DEF labelsOf, Ended
<1>5. CASE findExisting(c)
  <2>1. /\ answer' \in [Calls -> Calls \cup {Earlier, None}]
        /\ \A d \in Calls : \/ answer'[d] = answer[d]
                            \/ account # Absent /\ answer'[d] = accountNumber
    BY <1>5, StateFacts DEF findExisting
  <2> QED
    BY <1>2, <1>3, <1>4, <1>5, <2>1, StateFacts, BystanderKeeps
       DEF findExisting, row, bank
<1>6. CASE openAtBank(c)
  BY <1>2, <1>3, <1>4, <1>6, StateFacts, BystanderKeeps DEF openAtBank, row, locals
<1>7. CASE openFails(c)
  BY <1>2, <1>3, <1>4, <1>7, StateFacts, BystanderKeeps DEF openFails, row, locals
<1>8. CASE insertAccount(c) /\ (account # Absent \/ UNCHANGED row)
  <2>1. goto(c, "error") /\ UNCHANGED <<row, answer, agreed, lock, bank, request, read>>
    <3>1. account = Absent /\ account' = NewAccount => account' # account
      BY DEF NewAccount, Absent
    <3> QED BY <1>8, <3>1 DEF insertAccount, row
  <2> QED
    BY <1>2, <1>3, <1>4, <2>1, StateFacts, BystanderKeeps DEF row, bank
<1> QED BY <1>5, <1>6, <1>7, <1>8

LEMMA VerifySteps ==
  ASSUME IInv, NEW c \in Calls, verifyRead(c) \/ verifyCompare(c)
  PROVE  IInv'
<1>1. pc[c] \in {"ask", "compare"}
  BY DEF verifyRead, verifyCompare
<1>2. c \in started
  BY <1>1, UnderWay
<1>3. request[c].op = "verify" /\ pc[c] \notin Ended
  BY <1>1, <1>2, StateFacts DEF labelsOf, Ended, Requests
<1>4. {"compare", "match", "mismatch", "error"}
        \subseteq labelsOf("verify") \cup (Ended \ {"idle"})
  BY DEF labelsOf, Ended
<1>5. CASE verifyRead(c)
  <2>1. /\ read' \in [Calls -> Accounts \cup {Absent}]
        /\ \A d \in Calls \ {c} : read'[d] = read[d]
    BY <1>5, StateFacts DEF verifyRead
  <2> QED
    BY <1>2, <1>3, <1>4, <1>5, <2>1, StateFacts, BystanderKeeps DEF verifyRead, row, bank
<1>6. CASE verifyCompare(c)
  <2>1. PICK label \in {"match", "mismatch", "error"} : goto(c, label)
    BY <1>6 DEF verifyCompare
  <2> QED
    BY <1>2, <1>3, <1>4, <1>6, <2>1, StateFacts, BystanderKeeps
       DEF verifyCompare, row, bank, locals
<1> QED BY <1>5, <1>6

(* A move of a balance operation that does not reach the row.              *)
LEMMA OperationKeeps ==
  ASSUME IInv, NEW c \in started, pc[c] \in {"lock", "bank", "save", "rollback"},
         NEW label \in {"bank", "save", "rollback", "error"},
         label \in labelsOf(request[c].op) \cup (Ended \ {"idle"}),
         pc[c] = "rollback" => label = "error",
         goto(c, label), UNCHANGED request,
         UNCHANGED <<agreed, account, accountNumber, opened, bankBalance, answer>>,
         lock' \in Calls \cup {None}, read' \in [Calls -> Accounts \cup {Absent}],
         readIsCurrent',
         holds' \subseteq asked("freeze"),
         holds \ holds' \subseteq {f \in asked("freeze") :
           request[c].op = "unfreeze" /\ f = request[c].reference},
         holds # holds' => pc[c] = "bank" /\ label \in {"save", "rollback"},
         request[c].op = "freeze" /\ label = "save" => c \in holds',
         request[c].op = "freeze" /\ label \in {"bank", "save"} => pc[c] \in {"lock", "bank"},
         request[c].op = "unfreeze" /\ pc[c] \in {"save", "rollback"}
           => label \in {"rollback", "error"}
  PROVE  IInv'
<1>1. /\ TypeOK' /\ goesOn /\ started' = started
      /\ \A op : asked(op)' = asked(op)
      /\ pc'[c] = label /\ \A d \in Calls \ {c} : pc'[d] = pc[d]
      /\ c \in Calls
  BY StateFacts, MoveFacts
<1>2. asked("freeze") \subseteq Calls /\ asked("unfreeze") \subseteq Calls
  BY DEF asked, started
<1>3. backing \subseteq backing'
  <2> SUFFICES ASSUME NEW f \in backing PROVE f \in backing'
    OBVIOUS
  <2>1. f \in asked("freeze") /\ pc[f] \notin {"lock", "bank", "save"}
    BY DEF backing, released, answered, asked, IInv, TypeOK
  <2>2. pc'[f] \notin {"lock", "bank", "save"}
    <3>1. CASE f = c
      <4>1. request[c].op = "freeze" /\ pc[c] = "rollback"
        BY <2>1, <3>1 DEF asked
      <4> QED BY <1>1, <3>1, <4>1
    <3>2. CASE f # c
      BY <1>1, <1>2, <2>1, <3>2
    <3> QED BY <3>1, <3>2
  <2>3. released \subseteq released'
    <3> SUFFICES ASSUME NEW u \in answered("unfreeze", {"save", "rollback", "error"})
                 PROVE  u \in answered("unfreeze", {"save", "rollback", "error"})'
      BY DEF released
    <3>1. u \in asked("unfreeze") /\ u \in Calls
      BY <1>2 DEF answered
    <3>2. pc'[u] \in {"save", "rollback", "error"}
      <4>1. CASE u = c
        BY <1>1, <3>1, <4>1 DEF answered, asked
      <4>2. CASE u # c
        BY <1>1, <3>1, <4>2 DEF answered
      <4> QED BY <4>1, <4>2
    <3> QED BY <1>1, <3>1, <3>2 DEF answered
  <2>4. CASE f \in released
    BY <2>2, <2>3, <2>4 DEF backing
  <2>5. CASE f \in holds'
    BY <2>2, <2>5 DEF backing
  <2>6. CASE f \in holds \ holds'
    <3>1. request[c].op = "unfreeze" /\ f = request[c].reference /\ label \in {"save", "rollback"}
      BY <2>6
    <3>2. c \in answered("unfreeze", {"save", "rollback", "error"})'
      BY <1>1, <3>1 DEF answered, asked
    <3>3. f \in released'
      BY <3>1, <3>2 DEF released
    <3> QED BY <2>2, <3>3 DEF backing
  <2> QED BY <2>4, <2>5, <2>6 DEF backing
<1>4. \A d \in asked("freeze")' : pc'[d] = "save" => d \in holds'
  <2> SUFFICES ASSUME NEW d \in asked("freeze"), pc'[d] = "save"
               PROVE  d \in holds'
    BY <1>1
  <2>1. CASE d = c
    BY <1>1, <2>1 DEF asked
  <2>2. CASE d # c
    <3>1. pc[d] = "save" /\ d \in holds
      BY <1>1, <1>2, <2>2 DEF IInv, frozenIsBacked
    <3>2. pc[c] = "bank" => c = d
      BY <1>1, <1>2, <3>1 DEF IInv, readIsCurrent
    <3> QED BY <2>2, <3>1, <3>2
  <2> QED BY <2>1, <2>2
<1>5. account = Absent => \A d \in started' : request'[d].op = "create"
  BY <1>1 DEF IInv, rowSound
<1>6. \A d \in asked("credit") \cup asked("debit") : pc'[d] = "ok" <=> pc[d] = "ok"
  <2>1. asked("credit") \cup asked("debit") \subseteq Calls
    BY DEF asked, started
  <2> QED BY <1>1, <2>1
<1> QED BY <1>1, <1>3, <1>4, <1>5, <1>6, RowStays

LEMMA LockStep ==
  ASSUME IInv, NEW c \in Calls, lockRow(c)
  PROVE  IInv'
<1> DEFINE label == IF asksBank(c) THEN "bank" ELSE "save"
<1>1. /\ pc[c] = "lock" /\ lock = None /\ lock' = c /\ goto(c, label)
      /\ read' = [read EXCEPT ![c] = account]
      /\ UNCHANGED <<agreed, account, accountNumber, opened, bankBalance, holds,
                     request, answer>>
  BY DEF lockRow, row, bank
<1>2. c \in started
  BY <1>1, UnderWay
<1>3. /\ request[c].op \in {"credit", "debit", "freeze", "unfreeze", "close"}
      /\ label \in labelsOf(request[c].op) \cup (Ended \ {"idle"})
  BY <1>1, <1>2, StateFacts DEF labelsOf, Ended, Requests, asksBank
<1>4. \A d \in Calls : pc[d] \notin {"bank", "save"}
  BY <1>1, CallsAssumption DEF IInv, readIsCurrent
<1>5. readIsCurrent'
  <2> SUFFICES ASSUME NEW d \in Calls, pc'[d] \in {"bank", "save"}
               PROVE  lock' = d /\ read'[d] = account'
    BY DEF readIsCurrent
  <2>1. pc \in [Calls -> Labels] /\ read \in [Calls -> Accounts \cup {Absent}]
    BY DEF IInv, TypeOK
  <2>2. d = c
    BY <1>1, <1>4, <2>1 DEF goto
  <2> QED BY <1>1, <2>1, <2>2
<1>6. read' \in [Calls -> Accounts \cup {Absent}]
  BY <1>1, StateFacts
<1>7. request[c].op = "freeze" => label = "bank"
  BY DEF asksBank
<1>8. label \in {"bank", "save", "rollback", "error"}
  OBVIOUS
<1> HIDE DEF label
<1> QED
  BY <1>1, <1>2, <1>3, <1>5, <1>6, <1>7, <1>8, StateFacts, OperationKeeps

(* The bank takes a hold or lets one go; the row stays locked.             *)
LEMMA BankSteps ==
  ASSUME IInv, NEW c \in Calls,
         bankFreezes(c) \/ freezeFails(c) \/ bankUnfreezes(c) \/ unfreezeFails(c)
  PROVE  IInv'
<1>1. pc[c] = "bank" /\ request[c].op \in {"freeze", "unfreeze"}
  BY DEF bankFreezes, freezeFails, bankUnfreezes, unfreezeFails
<1>2. c \in started /\ c \in asked(request[c].op)
  BY <1>1, UnderWay DEF asked
<1>3. request[c].op = "unfreeze" => request[c].reference \in asked("freeze")
  BY <1>2 DEF IInv, TypeOK
<1>4. PICK label \in {"save", "rollback"} :
        /\ goto(c, label)
        /\ UNCHANGED <<agreed, account, accountNumber, lock, opened, bankBalance,
                       request, read, answer>>
        /\ request[c].op = "freeze" => holds \subseteq holds' /\ holds' \subseteq holds \cup {c}
        /\ request[c].op = "freeze" /\ label = "save" => c \in holds'
        /\ request[c].op = "unfreeze" =>
             holds' \subseteq holds /\ holds \ holds' \subseteq {request[c].reference}
  <2>1. CASE bankFreezes(c)
    BY <2>1 DEF bankFreezes, bankAnswers, frozenBy, row, locals
  <2>2. CASE freezeFails(c)
    <3>1. PICK done \in SUBSET frozenBy(c) : bankAnswers(c, holds \cup done, "rollback")
      BY <2>2 DEF freezeFails
    <3>2. request[c].op = "freeze" /\ done \subseteq {c}
      BY <2>2 DEF freezeFails, frozenBy
    <3> QED BY <3>1, <3>2 DEF bankAnswers, row, locals
  <2>3. CASE bankUnfreezes(c)
    BY <2>3 DEF bankUnfreezes, bankAnswers, unfrozenBy, row, locals
  <2>4. CASE unfreezeFails(c)
    <3>1. PICK done \in SUBSET unfrozenBy(c) : bankAnswers(c, holds \ done, "rollback")
      BY <2>4 DEF unfreezeFails
    <3>2. request[c].op = "unfreeze" /\ done \subseteq {request[c].reference}
      BY <2>4 DEF unfreezeFails, unfrozenBy
    <3> QED BY <3>1, <3>2 DEF bankAnswers, row, locals
  <2> QED BY <2>1, <2>2, <2>3, <2>4
<1>5. readIsCurrent'
  <2>1. pc \in [Calls -> Labels]
    BY DEF IInv, TypeOK
  <2> QED BY <1>1, <1>4, <2>1 DEF IInv, readIsCurrent, goto
<1>6. holds' \subseteq asked("freeze")
  BY <1>1, <1>2, <1>4, StateFacts
<1>7. label \in labelsOf(request[c].op) \cup (Ended \ {"idle"})
  BY <1>1 DEF labelsOf
<1>8. holds \ holds' \subseteq {f \in asked("freeze") :
        request[c].op = "unfreeze" /\ f = request[c].reference}
  BY <1>1, <1>3, <1>4
<1> QED
  BY <1>1, <1>2, <1>4, <1>5, <1>6, <1>7, <1>8, StateFacts, OperationKeeps

(* A ROLLBACK, or a save that does not reach the row.                      *)
LEMMA UndoneKeeps ==
  ASSUME IInv, NEW c \in Calls, NEW label,
         \/ pc[c] = "save" /\ label = "rollback"
         \/ pc[c] = "rollback" /\ label = "error",
         goto(c, label), lock' \in {lock, unlocked(c)},
         UNCHANGED <<agreed, row, bank, locals>>
  PROVE  IInv'
<1>1. c \in started
  BY UnderWay
<1>2. label \in labelsOf(request[c].op) \cup (Ended \ {"idle"})
  BY <1>1, StateFacts DEF labelsOf, Ended, Requests
<1>3. lock' \in Calls \cup {None}
  BY StateFacts DEF unlocked
<1>4. readIsCurrent'
  <2>1. pc \in [Calls -> Labels]
    BY DEF IInv, TypeOK
  <2>2. lock' # lock => lock = c
    BY DEF unlocked
  <2> QED BY <2>1, <2>2 DEF IInv, readIsCurrent, goto, row, locals
<1> QED
  BY <1>1, <1>2, <1>3, <1>4, StateFacts, OperationKeeps DEF row, bank, locals

-----------------------------------------------------------------------------
(* The steps that change the row.                                          *)

(* The INSERT: until then nobody asked for anything but an account.        *)
LEMMA InsertStep ==
  ASSUME IInv, NEW c \in Calls, insertAccount(c), account = Absent, account' = NewAccount,
         goto(c, "ok"), accountNumber' = c, answer' = [answer EXCEPT ![c] = c]
  PROVE  IInv'
<1>1. pc[c] = "insert" /\ c \in started
  BY UnderWay DEF insertAccount
<1>2. /\ UNCHANGED <<agreed, lock, opened, bankBalance, holds, request, read>>
      /\ "ok" \in labelsOf(request[c].op) \cup (Ended \ {"idle"})
  BY DEF insertAccount, bank, Ended
<1>3. /\ Sound(NewAccount) /\ NewAccount \in Accounts /\ NewAccount # Absent
      /\ NewAccount.balance = 0 /\ NewAccount.frozen = 0
      /\ Absent.balance = 0 /\ Absent.frozen = 0
  BY DEF Sound, NewAccount, Accounts, EscrowAccountStatuses, Absent
<1>4. /\ answer' \in [Calls -> Calls \cup {Earlier, None}]
      /\ answer \in [Calls -> Calls \cup {Earlier, None}]
  BY StateFacts
<1>5. /\ TypeOK' /\ goesOn /\ started' = started
      /\ \A op : asked(op)' = asked(op)
      /\ pc'[c] = "ok" /\ \A d \in Calls \ {c} : pc'[d] = pc[d]
  BY <1>1, <1>2, <1>3, <1>4, StateFacts, MoveFacts
<1>6. \A d \in started : request[d].op = "create" /\ d \in Calls
  BY DEF IInv, rowSound, started
<1>7. \A d \in Calls : pc[d] \notin {"bank", "save"}
  <2>1. \A d \in started : pc[d] \notin {"bank", "save"}
    BY <1>6, StateFacts DEF labelsOf, Ended
  <2> QED BY <2>1, UnderWay
<1>8. readIsCurrent' /\ rowSound'
  BY <1>3, <1>5, <1>7 DEF readIsCurrent, rowSound
<1>9. UpdatesKept'
  <2>1. asked("credit") \cup asked("debit") = {}
    BY <1>6 DEF asked
  <2> QED BY <1>2, <1>3, <1>5, <2>1, UpdatesStay
<1>10. frozenIsBacked'
  <2>1. asked("freeze")' = {}
    BY <1>5, <1>6 DEF asked
  <2>2. SumOver(amounts', backing') \in Nat
    BY <1>5, BackingIsCounted
  <2> QED BY <1>3, <2>1, <2>2 DEF frozenIsBacked, total, SumOver, Units
<1>11. OneAccountAnswered'
  BY <1>4 DEF IInv, rowSound, OneAccountAnswered
<1> QED BY <1>5, <1>8, <1>9, <1>10, <1>11 DEF IInv

(* A save that reaches the row adds its call to those that are counted; if *)
(* the COMMIT was not acknowledged, to those that may have been booked.    *)
LEMMA SavedKeepsUpdates ==
  ASSUME IInv, goesOn, NEW c \in started, NEW label \in {"ok", "rollback"},
         pc[c] = "save", pc'[c] = label, \A d \in Calls \ {c} : pc'[d] = pc[d],
         \A o : asked(o)' = asked(o), UNCHANGED opened, account.balance \in Nat,
         account'.balance = CASE request[c].op = "credit" -> account.balance + request[c].amount
                              [] request[c].op = "debit"  -> account.balance - request[c].amount
                              [] OTHER                    -> account.balance
  PROVE  UpdatesKept'
<1>1. PICK C \in SUBSET answered("credit", {"error", "rollback"}),
           D \in SUBSET answered("debit", {"error", "rollback"}) :
        account.balance = opening
          + total(answered("credit", {"ok"}) \cup C)
          - total(answered("debit", {"ok"}) \cup D)
  BY DEF IInv, UpdatesKept
<1> DEFINE booked(op) == {d \in asked(op) : pc'[d] = "ok"}
           unsure(op) == {d \in asked(op) : pc'[d] \in {"error", "rollback"}}
           added(op) == IF request[c].op = op THEN request[c].amount ELSE 0
<1>2. ASSUME NEW op, NEW S, S \subseteq answered(op, {"error", "rollback"})
      PROVE  \E T \in SUBSET unsure(op) :
               SumOver(amounts', booked(op) \cup T)
                 = SumOver(amounts, answered(op, {"ok"}) \cup S) + added(op)
  <2> DEFINE K == answered(op, {"ok"}) \cup S
             new == IF request[c].op = op THEN {c} ELSE {}
             T == S \cup (IF pc'[c] = "rollback" THEN new ELSE {})
  <2>1. asked(op) \subseteq started /\ started \subseteq Calls
    BY DEF asked, started
  <2>2. K \subseteq started /\ c \notin K
    BY <1>2, <2>1 DEF answered
  <2>3. \A d \in Calls : d # c => pc'[d] = pc[d]
    OBVIOUS
  <2>4. c \in asked(op) <=> request[c].op = op
    BY DEF asked
  <2>5. /\ booked(op) = answered(op, {"ok"}) \cup (IF pc'[c] = "ok" THEN new ELSE {})
        /\ T \subseteq unsure(op)
    BY <1>2, <2>1, <2>3, <2>4 DEF answered
  <2>6. booked(op) \cup T = K \cup new
    BY <2>5
  <2>7. SumOver(amounts', K \cup new) = SumOver(amounts, K \cup new)
    <3>1. \A d \in K \cup new : amounts'[d] = amounts[d]
      BY <2>2, AmountsStay
    <3> HIDE DEF K, new
    <3> QED BY <3>1, SumAgrees
  <2>8. amounts[c] = request[c].amount /\ amounts[c] \in Nat
    <3>1. {c} \subseteq started
      OBVIOUS
    <3> QED BY <3>1, AmountFacts DEF amounts, amountOf, IInv
  <2>9. SumOver(amounts, K \cup new)
          = SumOver(amounts, K) + added(op)
    <3>1. IsFiniteSet(K) /\ (\A d \in K : amounts[d] \in Nat) /\ SumOver(amounts, K) \in Nat
      <4> HIDE DEF K
      <4> QED BY <2>2, AmountFacts DEF IInv
    <3>2. CASE request[c].op = op
      <4>1. SumOver(amounts, K \cup {c}) = SumOver(amounts, K) + amounts[c]
        <5> HIDE DEF K
        <5> QED BY <2>2, AmountsAdd DEF IInv
      <4> QED BY <2>8, <3>2, <4>1
    <3>3. CASE request[c].op # op
      <4>1. K \cup new = K
        BY <3>3
      <4> QED BY <3>1, <3>3, <4>1
    <3> QED BY <3>2, <3>3
  <2> HIDE DEF K, T, new, booked, unsure, added
  <2>10. SumOver(amounts', booked(op) \cup T)
           = SumOver(amounts, K) + added(op)
    BY <2>6, <2>7, <2>9
  <2> QED BY <2>5, <2>10 DEF K
<1> HIDE DEF booked, unsure, added
<1>3. PICK C2 \in SUBSET unsure("credit") :
        SumOver(amounts', booked("credit") \cup C2)
          = SumOver(amounts, answered("credit", {"ok"}) \cup C)
            + added("credit")
  <2>1. C \subseteq answered("credit", {"error", "rollback"})
    BY <1>1
  <2> QED BY <2>1, <1>2
<1>4. PICK D2 \in SUBSET unsure("debit") :
        SumOver(amounts', booked("debit") \cup D2)
          = SumOver(amounts, answered("debit", {"ok"}) \cup D)
            + added("debit")
  <2>1. D \subseteq answered("debit", {"error", "rollback"})
    BY <1>1
  <2> QED BY <2>1, <1>2
<1>5. opening' = opening /\ opening \in Nat /\ request[c].amount \in Nat
  BY AmountsAssumption, StateFacts DEF opening, Requests
<1>6. /\ SumOver(amounts, answered("credit", {"ok"}) \cup C) \in Nat
      /\ SumOver(amounts, answered("debit", {"ok"}) \cup D) \in Nat
  <2>1. /\ answered("credit", {"ok"}) \cup C \subseteq started
        /\ answered("debit", {"ok"}) \cup D \subseteq started
    BY <1>1 DEF answered, asked
  <2> QED BY <2>1, AmountFacts DEF IInv
<1>7. account'.balance = opening'
          + SumOver(amounts', booked("credit") \cup C2)
          - SumOver(amounts', booked("debit") \cup D2)
  BY <1>1, <1>3, <1>4, <1>5, <1>6 DEF total, added
<1>8. /\ answered("credit", {"ok"})' = booked("credit")
      /\ answered("debit", {"ok"})' = booked("debit")
      /\ answered("credit", {"error", "rollback"})' = unsure("credit")
      /\ answered("debit", {"error", "rollback"})' = unsure("debit")
  BY DEF answered, booked, unsure
<1>9. account'.balance = opening'
          + SumOver(amounts', answered("credit", {"ok"})' \cup C2)
          - SumOver(amounts', answered("debit", {"ok"})' \cup D2)
  BY <1>7, <1>8
<1> QED BY <1>3, <1>4, <1>8, <1>9 DEF UpdatesKept, total, SumOver, Units

(* A freeze that is booked joins the backing with its hold; an unfreeze    *)
(* that is booked takes no more out of it than out of the row.             *)
LEMMA SavedStaysBacked ==
  ASSUME IInv, TypeOK', goesOn, NEW c \in started, NEW label \in {"ok", "rollback"},
         pc[c] = "save", pc'[c] = label, \A d \in Calls \ {c} : pc'[d] = pc[d],
         \A o : asked(o)' = asked(o), UNCHANGED <<holds, request>>, account'.frozen \in Nat,
         account'.frozen <= CASE request[c].op = "freeze"   -> account.frozen + request[c].amount
                              [] request[c].op = "unfreeze" -> account.frozen - request[c].amount
                              [] OTHER                      -> account.frozen
  PROVE  account'.frozen <= SumOver(amounts', backing')
<1> DEFINE lost == IF request[c].op = "unfreeze" THEN {request[c].reference} ELSE {}
<1>1. /\ c \in Calls /\ \A o : asked(o) \subseteq Calls
      /\ amounts[c] = request[c].amount /\ request[c].amount \in Nat
  BY StateFacts DEF asked, started, amounts, amountOf, Requests
<1>2. backing \ lost \subseteq backing'
  <2> SUFFICES ASSUME NEW f \in backing, f \notin lost PROVE f \in backing'
    OBVIOUS
  <2>1. f \in asked("freeze") /\ pc[f] \notin {"lock", "bank", "save"}
    BY DEF backing, released, answered, asked, IInv, TypeOK
  <2>2. pc'[f] \notin {"lock", "bank", "save"}
    BY <1>1, <2>1
  <2>3. CASE f \in holds
    BY <2>2, <2>3 DEF backing
  <2>4. CASE f \in released
    <3>1. PICK u \in answered("unfreeze", {"save", "rollback", "error"}) :
            f = request[u].reference
      BY <2>4 DEF released
    <3>2. u \in asked("unfreeze") /\ u \in Calls /\ pc[u] \in {"save", "rollback", "error"}
      BY <1>1, <3>1 DEF answered
    <3>3. u # c
      BY <3>1, <3>2 DEF asked
    <3>4. u \in answered("unfreeze", {"save", "rollback", "error"})'
      BY <3>2, <3>3 DEF answered
    <3>5. f \in released'
      BY <3>1, <3>4 DEF released
    <3> QED BY <2>2, <3>5 DEF backing
  <2> QED BY <2>3, <2>4 DEF backing
<1>3. CASE request[c].op = "freeze"
  <2>1. c \in holds /\ c \notin backing
    <3>1. c \in asked("freeze")
      BY <1>3 DEF asked
    <3> QED BY <3>1 DEF IInv, frozenIsBacked, backing
  <2>2. backing \cup {c} \subseteq backing' /\ backing \cup {c} \subseteq started
    <3>1. c \in backing'
      BY <2>1 DEF backing
    <3> QED BY <1>2, <1>3, <3>1, BackingFacts
  <2>3. SumOver(amounts, backing \cup {c}) = SumOver(amounts, backing) + amounts[c]
    BY <2>1, BackingFacts, AmountsAdd DEF IInv
  <2>4. /\ SumOver(amounts, backing \cup {c}) <= SumOver(amounts', backing')
        /\ SumOver(amounts', backing') \in Nat
    BY <2>2, BackingCovers
  <2> QED BY <1>1, <1>3, <2>3, <2>4, BackingFacts
<1>4. CASE request[c].op = "unfreeze"
  <2> DEFINE f == request[c].reference
             X == backing \ {f}
  <2>1. f \in asked("freeze") /\ request[c].amount = request[f].amount
    BY <1>4 DEF IInv, TypeOK, amountOf
  <2>2. amounts[f] = request[c].amount
    BY <2>1 DEF amounts, amountOf, asked
  <2>3. /\ X \subseteq backing' /\ X \subseteq started /\ f \notin X
        /\ IsFiniteSet(X) /\ \A d \in X : amounts[d] \in Nat
    BY <1>2, <1>4, BackingFacts, FS_Subset
  <2>4. SumOver(amounts, backing) <= SumOver(amounts, X) + amounts[f]
    <3>1. SumOver(amounts, X) \in Nat
      <4> HIDE DEF X
      <4> QED BY <2>3, SumIsNatural
    <3>2. CASE f \in backing
      <4>1. backing = X \cup {f}
        BY <3>2
      <4>2. f \in started
        BY <2>1 DEF asked
      <4>3. SumOver(amounts, X \cup {f}) = SumOver(amounts, X) + amounts[f]
        <5> HIDE DEF X, f
        <5> QED BY <2>3, <4>2, AmountsAdd DEF IInv
      <4> HIDE DEF X, f
      <4> QED BY <1>1, <2>2, <3>1, <4>1, <4>3
    <3>3. CASE f \notin backing
      <4>1. X = backing
        BY <3>3
      <4>2. amounts[f] \in Nat
        BY <1>1, <2>2
      <4> HIDE DEF X, f
      <4> QED BY <3>1, <4>1, <4>2
    <3> QED BY <3>2, <3>3
  <2>5. /\ SumOver(amounts, X) <= SumOver(amounts', backing')
        /\ SumOver(amounts', backing') \in Nat
    <3> HIDE DEF X
    <3> QED BY <2>3, BackingCovers
  <2>6. SumOver(amounts, X) \in Nat
    <3> HIDE DEF X
    <3> QED BY <2>3, SumIsNatural
  <2> HIDE DEF X, f
  <2> QED BY <1>1, <1>4, <2>2, <2>4, <2>5, <2>6, BackingFacts
<1>5. CASE request[c].op \notin {"freeze", "unfreeze"}
  BY <1>2, <1>5, BackingStays
<1> QED BY <1>3, <1>4, <1>5

(* A save that reaches the row, acknowledged or not.                       *)
LEMMA SavedKeeps ==
  ASSUME IInv, NEW c \in Calls, NEW label \in {"ok", "rollback"},
         pc[c] = "save", goto(c, label), can(request[c], read[c]),
         account' = result(request[c], read[c]), lock' = unlocked(c),
         UNCHANGED <<agreed, accountNumber, bank, locals>>
  PROVE  IInv'
<1>1. c \in started
  BY UnderWay
<1>2. /\ request[c].op \in {"credit", "debit", "freeze", "unfreeze", "close"}
      /\ request[c] \in Requests
      /\ label \in labelsOf(request[c].op) \cup (Ended \ {"idle"})
  BY <1>1, StateFacts DEF labelsOf, Ended, Requests
<1>3. lock = c /\ read[c] = account
  BY DEF IInv, readIsCurrent
<1>4. account # Absent /\ Sound(account)
  BY <1>1, <1>2 DEF IInv, rowSound
<1>5. /\ Sound(account') /\ account' # Absent
      /\ account'.balance =
           CASE request[c].op = "credit" -> account.balance + request[c].amount
             [] request[c].op = "debit"  -> account.balance - request[c].amount
             [] OTHER                    -> account.balance
      /\ account'.frozen <=
           CASE request[c].op = "freeze"   -> account.frozen + request[c].amount
             [] request[c].op = "unfreeze" -> account.frozen - request[c].amount
             [] OTHER                      -> account.frozen
  BY <1>2, <1>3, <1>4, ResultFacts
<1>6. /\ account' \in Accounts \cup {Absent} /\ account'.frozen \in Nat
      /\ account.balance \in Nat /\ lock' = None
  BY <1>3, <1>4, <1>5 DEF Sound, Accounts, unlocked
<1>7. /\ TypeOK' /\ goesOn /\ started' = started
      /\ \A o : asked(o)' = asked(o)
      /\ pc'[c] = label /\ \A d \in Calls \ {c} : pc'[d] = pc[d]
  BY <1>1, <1>2, <1>6, StateFacts, MoveFacts DEF bank, locals
<1>8. \A d \in Calls : pc'[d] \notin {"bank", "save"}
  BY <1>3, <1>7 DEF IInv, readIsCurrent
<1>9. readIsCurrent' /\ rowSound'
  BY <1>5, <1>8 DEF readIsCurrent, rowSound
<1>10. UpdatesKept'
  BY <1>1, <1>5, <1>6, <1>7, SavedKeepsUpdates DEF bank
<1>11. frozenIsBacked'
  <2>1. account'.frozen <= SumOver(amounts', backing')
    BY <1>1, <1>5, <1>6, <1>7, SavedStaysBacked DEF bank, locals
  <2>2. \A d \in asked("freeze")' : pc'[d] # "save"
    BY <1>7, <1>8 DEF asked, started
  <2> QED BY <2>1, <2>2 DEF frozenIsBacked, total, SumOver, Units
<1>12. OneAccountAnswered'
  BY DEF IInv, OneAccountAnswered, locals
<1> QED BY <1>7, <1>9, <1>10, <1>11, <1>12 DEF IInv

(* A crash leaves row and bank as they are and lets go of the row lock.    *)
LEMMA CrashKeeps ==
  ASSUME IInv, Crash
  PROVE  IInv'
<1>1. /\ pc \in [Calls -> Labels]
      /\ pc' = [c \in Calls |-> IF pc[c] \in Ended THEN pc[c] ELSE "error"]
      /\ lock' = None
      /\ UNCHANGED <<agreed, account, accountNumber, opened, bankBalance, holds,
                     request, read, answer>>
  BY DEF Crash, row, bank, locals, IInv, TypeOK
<1>2. /\ \A c \in Calls : pc'[c] = IF pc[c] \in Ended THEN pc[c] ELSE "error"
      /\ pc' \in [Calls -> Labels]
  BY <1>1 DEF Labels, Ended
<1>3. started' = started
  BY <1>2 DEF started, Ended
<1>4. \A op : asked(op)' = asked(op)
  BY <1>1, <1>3 DEF asked
<1>5. goesOn
  BY <1>1, <1>2, <1>3 DEF goesOn, started, Ended
<1>6. ASSUME NEW d \in started'
      PROVE  /\ request'[d] \in Requests
             /\ pc'[d] \in labelsOf(request'[d].op) \cup (Ended \ {"idle"})
             /\ request'[d].op = "unfreeze" =>
                  /\ request'[d].reference \in asked("freeze")'
                  /\ amountOf(d)' = amountOf(request[d].reference)'
  <2>1. d \in started /\ d \in Calls
    BY <1>3 DEF started
  <2>2. /\ request[d] \in Requests
        /\ request[d].op = "unfreeze" =>
             /\ request[d].reference \in asked("freeze")
             /\ amountOf(d) = amountOf(request[d].reference)
    BY <2>1 DEF IInv, TypeOK
  <2>3. pc'[d] \in Ended \ {"idle"}
    BY <1>2, <2>1 DEF started, Ended
  <2> QED BY <1>1, <1>4, <2>2, <2>3 DEF amountOf
<1>7. TypeOK'
  BY <1>1, <1>2, <1>4, <1>6 DEF IInv, TypeOK, labelsOf
<1>8. readIsCurrent' /\ \A c \in Calls : pc'[c] \notin {"lock", "bank", "save"}
  BY <1>2 DEF readIsCurrent, Ended
<1>9. backing \subseteq backing'
  <2>1. \A op : asked(op) \subseteq Calls
    BY DEF asked, started
  <2>2. released \subseteq released'
    <3> SUFFICES ASSUME NEW u \in answered("unfreeze", {"save", "rollback", "error"})
                 PROVE  request[u].reference \in released'
      BY DEF released
    <3>1. u \in asked("unfreeze") /\ u \in Calls /\ pc[u] \in {"save", "rollback", "error"}
      BY <2>1 DEF answered
    <3>2. u \in asked("unfreeze")' /\ pc'[u] \in {"save", "rollback", "error"}
      BY <1>2, <1>4, <3>1 DEF Ended
    <3> QED BY <1>1, <3>2 DEF released, answered
  <2>3. holds \cup released \subseteq Calls
    BY <2>1 DEF released, answered, asked, IInv, TypeOK
  <2> QED BY <1>1, <1>8, <2>2, <2>3 DEF backing
<1>10. account = Absent => \A d \in started' : request'[d].op = "create"
  BY <1>1, <1>3 DEF IInv, rowSound
<1>11. \A d \in asked("credit") \cup asked("debit") : pc'[d] = "ok" <=> pc[d] = "ok"
  BY <1>2 DEF asked, started, Ended
<1>12. \A d \in asked("freeze")' : pc'[d] = "save" => d \in holds'
  BY <1>8 DEF asked, started
<1> QED
  BY <1>1, <1>5, <1>7, <1>8, <1>9, <1>10, <1>11, <1>12, RowStays

-----------------------------------------------------------------------------
(* The invariant.                                                          *)

LEMMA InitIInv == Init => IInv
<1> SUFFICES ASSUME Init PROVE IInv
  OBVIOUS
<1>1. started = {} /\ \A op : asked(op) = {}
  BY DEF Init, started, asked
<1>2. /\ Absent.balance = 0 /\ Absent.frozen = 0
      /\ \A x \in Accounts : x # Absent
  BY DEF Absent, Accounts, EscrowAccountStatuses
<1>3. /\ credit(NewAccount, Opening) \in Accounts /\ Sound(credit(NewAccount, Opening))
      /\ credit(NewAccount, Opening).balance = Opening
      /\ credit(NewAccount, Opening).frozen = 0
  BY AmountsAssumption DEF credit, NewAccount, Sound, Accounts, EscrowAccountStatuses
<1>4. TypeOK
  BY <1>1, <1>3, AmountsAssumption DEF Init, TypeOK, Labels, Ended
<1>5. readIsCurrent /\ OneAccountAnswered
  BY DEF Init, readIsCurrent, OneAccountAnswered
<1>6. rowSound
  BY <1>1, <1>2, <1>3 DEF Init, rowSound
<1>7. \A S : S \subseteq started => total(S) = 0
  BY <1>1, SumOfNone DEF total
<1>8. frozenIsBacked
  <2>1. backing \subseteq started
    BY <1>1 DEF Init, backing, released, answered
  <2> QED BY <1>1, <1>2, <1>3, <1>7, <2>1 DEF Init, frozenIsBacked
<1>9. UpdatesKept
  <2>1. \A op, how : answered(op, how) = {}
    BY <1>1 DEF answered
  <2>2. account.balance = opening /\ opening \in Nat
    BY <1>2, <1>3, AmountsAssumption DEF Init, opening
  <2>3. \A op, how : total(answered(op, how) \cup {}) = 0
    BY <1>7, <2>1
  <2>4. account.balance = opening
          + total(answered("credit", {"ok"}) \cup {})
          - total(answered("debit", {"ok"}) \cup {})
    BY <2>2, <2>3
  <2> QED BY <2>4 DEF UpdatesKept
<1> QED BY <1>4, <1>5, <1>6, <1>8, <1>9 DEF IInv

LEMMA StutterKeeps ==
  ASSUME IInv, UNCHANGED vars
  PROVE  IInv'
<1>1. UNCHANGED <<agreed, account, accountNumber, lock, opened, bankBalance, holds,
                  pc, request, read, answer>>
  BY DEF vars, row, bank, locals
<1>2. started' = started /\ \A op : asked(op)' = asked(op)
  BY <1>1 DEF started, asked
<1>3. goesOn
  BY <1>1, <1>2 DEF goesOn
<1>4. TypeOK'
  BY <1>1, <1>2 DEF IInv, TypeOK, amountOf
<1>5. backing \subseteq backing'
  BY <1>1, <1>2 DEF backing, released, answered
<1> QED
  BY <1>1, <1>2, <1>3, <1>4, <1>5, RowStays
     DEF IInv, readIsCurrent, rowSound, frozenIsBacked

LEMMA SaveStep ==
  ASSUME IInv, NEW c \in Calls, saveAccount(c)
  PROVE  IInv'
<1>1. CASE /\ can(request[c], read[c])
           /\ account' = result(request[c], read[c]) /\ lock' = unlocked(c)
           /\ \E label \in {"ok", "rollback"} : goto(c, label)
  BY <1>1, SavedKeeps DEF saveAccount
<1>2. CASE goto(c, "rollback") /\ UNCHANGED <<account, lock>>
  <2>1. pc[c] = "save" /\ UNCHANGED <<agreed, row, bank, locals>> /\ lock' = lock
    BY <1>2 DEF saveAccount, row
  <2>2. lock' \in {lock, unlocked(c)} /\ goto(c, "rollback")
    BY <1>2
  <2> QED BY <2>1, <2>2, UndoneKeeps
<1> QED BY <1>1, <1>2 DEF saveAccount

LEMMA NextKeeps == IInv /\ [Next]_vars => IInv'
<1> SUFFICES ASSUME IInv, [Next]_vars PROVE IInv'
  OBVIOUS
<1>1. ASSUME NEW c \in Calls, Begin(c) PROVE IInv'
  BY <1>1, CallBegins
<1>2. ASSUME NEW c \in Calls, findExisting(c) \/ openAtBank(c) \/ openFails(c)
      PROVE  IInv'
  BY <1>2, CreateSteps
<1>3. ASSUME NEW c \in Calls, insertAccount(c) PROVE IInv'
  BY <1>3, CreateSteps, InsertStep DEF insertAccount
<1>4. ASSUME NEW c \in Calls, lockRow(c) PROVE IInv'
  BY <1>4, LockStep
<1>5. ASSUME NEW c \in Calls,
             bankFreezes(c) \/ freezeFails(c) \/ bankUnfreezes(c) \/ unfreezeFails(c)
      PROVE  IInv'
  BY <1>5, BankSteps
<1>6. ASSUME NEW c \in Calls, saveAccount(c) PROVE IInv'
  BY <1>6, SaveStep
<1>7. ASSUME NEW c \in Calls, rollback(c) PROVE IInv'
  BY <1>7, UndoneKeeps DEF rollback
<1>8. ASSUME NEW c \in Calls, verifyRead(c) \/ verifyCompare(c) PROVE IInv'
  BY <1>8, VerifySteps
<1>9. CASE Crash
  BY <1>9, CrashKeeps
<1>10. CASE UNCHANGED vars
  BY <1>10, StutterKeeps
<1> QED
  BY <1>1, <1>2, <1>3, <1>4, <1>5, <1>6, <1>7, <1>8, <1>9, <1>10 DEF Next, Step

(* The row lock keeps what a call has read current, the row satisfies its  *)
(* constraints, and what it shows as frozen is backed: in every state.     *)
THEOREM InvariantHolds == Spec => []IInv
<1> QED BY InitIInv, NextKeeps, PTL DEF Spec

(* No credit or debit is lost or booked twice.                             *)
THEOREM NoUpdateIsLost == Spec => []UpdatesKept
<1>1. IInv => UpdatesKept
  BY DEF IInv
<1> QED BY InvariantHolds, <1>1, PTL

(* What the row shows as frozen is held by the bank, or was let go by an   *)
(* unfreeze that has not been booked.                                      *)
THEOREM FrozenMoneyIsHeld == Spec => []FrozenIsHeld
<1>1. IInv => FrozenIsHeld
  <2> SUFFICES ASSUME IInv PROVE account.frozen <= SumOver(amounts, holds \cup released)
    BY DEF FrozenIsHeld, total
  <2>1. backing \subseteq holds \cup released /\ holds \cup released \subseteq started
    BY DEF backing, released, answered, asked, IInv, TypeOK
  <2>2. /\ IsFiniteSet(holds \cup released)
        /\ \A c \in holds \cup released : amounts[c] \in Nat
        /\ SumOver(amounts, holds \cup released) \in Nat
    BY <2>1, AmountFacts DEF IInv
  <2>3. SumOver(amounts, backing) <= SumOver(amounts, holds \cup released)
    BY <2>1, <2>2, SumGrows
  <2> QED BY <2>2, <2>3, BackingFacts
<1> QED BY InvariantHolds, <1>1, PTL

(* Everybody who is answered an account is answered the account of the row. *)
THEOREM AnswersAgree == Spec => []OneAccountAnswered
<1>1. IInv => OneAccountAnswered
  BY DEF IInv
<1> QED BY InvariantHolds, <1>1, PTL
=============================================================================
