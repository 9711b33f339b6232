------------------------ MODULE LedgerContracts_proofs ------------------------
(***************************************************************************)
(* Theorems about LedgerContracts, for all finite sets of contracts and    *)
(* banks, all references and resolution types, all amounts and delays.     *)
(***************************************************************************)
EXTENDS LedgerContractsProperties, FiniteSetTheorems, SequenceTheorems,
        WellFoundedInduction, TLAPS

(* A nonempty set of naturals has a least element.                         *)
LEMMA LeastNatural ==
  ASSUME NEW T, T \subseteq Nat, T # {}
  PROVE  \E n \in T : \A m \in T : n <= m
<1> DEFINE R == {ss \in Nat \X Nat : ss[1] < ss[2]}
<1>1. IsWellFoundedOn(R, Nat)
  BY NatLessThanWellFounded DEF OpToRel
<1>2. PICK x \in T : \A y \in T : ~(<<y, x>> \in R)
  <2> HIDE DEF R
  <2> QED BY <1>1, WFMin
<1>3. ASSUME NEW m \in T PROVE x <= m
  <2>1. x \in Nat /\ m \in Nat
    OBVIOUS
  <2>2. <<m, x>> \notin R
    BY <1>2
  <2> QED BY <2>1, <2>2
<1> QED BY <1>3

(* getAvailableBank finds an added bank whenever one is available.         *)
LEMMA AddedBankIsFound ==
  ASSUME TypeOK, NEW b \in Banks, available(b)
  PROVE  getAvailableBank \in Banks /\ added(getAvailableBank)
<1> DEFINE T == {i \in DOMAIN registeredBanks : available(registeredBanks[i])}
<1>1. T \subseteq Nat /\ T # {}
  BY DEF TypeOK, available, added
<1>2. PICK n \in T : \A m \in T : n <= m
  <2> HIDE DEF T
  <2> QED BY <1>1, LeastNatural
<1>3. \A j \in 1 .. n - 1 : ~available(registeredBanks[j])
  <2> SUFFICES ASSUME NEW j \in 1 .. n - 1, available(registeredBanks[j])
               PROVE  FALSE
    OBVIOUS
  <2>1. registeredBanks \in Seq(Banks) /\ n \in 1 .. Len(registeredBanks)
    BY DEF TypeOK
  <2>2. j \in DOMAIN registeredBanks /\ ~(n <= j)
    BY <2>1
  <2> QED BY <2>2, <1>2
<1>4. firstAvailable \in DOMAIN registeredBanks
  BY <1>3 DEF firstAvailable
<1>5. registeredBanks[firstAvailable] \in Banks /\ added(registeredBanks[firstAvailable])
  BY <1>4 DEF TypeOK, added
<1> QED BY <1>5 DEF getAvailableBank, TypeOK, available

-----------------------------------------------------------------------------
(* Totals.                                                                 *)

(* The amounts of finitely many add up to a natural number.                *)
LEMMA SumIsNatural ==
  ASSUME NEW S, NEW f, IsFiniteSet(S), \A x \in S : f[x] \in Nat
  PROVE  IsFiniteSet(Units(f, S)) /\ SumOver(f, S) \in Nat
<1> DEFINE g == [x \in S |-> {x} \X (1 .. f[x])]
           T == {g[x] : x \in S}
<1>1. IsFiniteSet(T)
  <2>1. g \in Surjection(S, T)
    BY DEF Surjection
  <2> QED BY <2>1, FS_Surjection
<1>2. ASSUME NEW x \in S PROVE IsFiniteSet(g[x])
  <2>1. IsFiniteSet({x}) /\ IsFiniteSet(1 .. f[x])
    <3>1. f[x] \in Int
      OBVIOUS
    <3>2. IsFiniteSet(1 .. f[x])
      BY <3>1, FS_Interval
    <3> QED BY <3>2, FS_Singleton
  <2> QED BY <2>1, FS_Product
<1>3. Units(f, S) = UNION T
  BY DEF Units
<1>4. IsFiniteSet(Units(f, S))
  <2> HIDE DEF g
  <2> QED BY <1>1, <1>2, <1>3, FS_UNION
<1> QED BY <1>4, FS_CardinalityType DEF SumOver

(* One more member adds its amount to the total.                           *)
LEMMA SumAdds ==
  ASSUME NEW S, NEW f, NEW x, IsFiniteSet(S), x \notin S,
         \A y \in S \cup {x} : f[y] \in Nat
  PROVE  SumOver(f, S \cup {x}) = SumOver(f, S) + f[x]
<1> DEFINE U == Units(f, S)
           V == {x} \X (1 .. f[x])
<1>1. IsFiniteSet(U)
  BY SumIsNatural
<1>2. IsFiniteSet(V) /\ Cardinality(V) = f[x]
  <2>1. /\ IsFiniteSet({x}) /\ Cardinality({x}) = 1
        /\ IsFiniteSet(1 .. f[x])
        /\ Cardinality(1 .. f[x]) = f[x]
    <3>1. f[x] \in Nat
      OBVIOUS
    <3>2. IsFiniteSet(1 .. f[x]) /\ Cardinality(1 .. f[x]) = f[x]
      <4>1. /\ IsFiniteSet(1 .. f[x])
            /\ Cardinality(1 .. f[x]) = IF 1 > f[x] THEN 0 ELSE f[x] - 1 + 1
        BY <3>1, FS_Interval
      <4> QED BY <3>1, <4>1
    <3> QED BY <3>2, FS_Singleton
  <2>2. IsFiniteSet(V) /\ Cardinality(V) = 1 * Cardinality(1 .. f[x])
    BY <2>1, FS_Product
  <2> QED BY <2>1, <2>2
<1>3. Units(f, S \cup {x}) = U \cup V /\ U \cap V = {}
  BY DEF Units
<1>4. Cardinality(U \cup V) = Cardinality(U) + Cardinality(V) - Cardinality({})
  BY <1>1, <1>2, <1>3, FS_Union
<1>5. Cardinality({}) = 0 /\ Cardinality(U) \in Nat
  BY <1>1, FS_EmptySet, FS_CardinalityType
<1>6. SumOver(f, S) = Cardinality(U) /\ SumOver(f, S \cup {x}) = Cardinality(U \cup V)
  BY <1>3 DEF SumOver
<1>7. f[x] \in Nat
  OBVIOUS
<1> HIDE DEF U, V
<1> QED BY <1>2, <1>4, <1>5, <1>6, <1>7

(* A total depends on the amounts of the members only.                     *)
LEMMA SumAgrees ==
  ASSUME NEW S, NEW f, NEW g, \A x \in S : f[x] = g[x]
  PROVE  SumOver(f, S) = SumOver(g, S)
BY DEF SumOver, Units

(* Nothing adds up to nothing.                                             *)
LEMMA SumOfNone ==
  ASSUME NEW f
  PROVE  SumOver(f, {}) = 0
BY FS_EmptySet DEF SumOver, Units

(* A part adds up to no more than the whole.                               *)
LEMMA SumGrows ==
  ASSUME NEW S, NEW T, NEW f, IsFiniteSet(S), T \subseteq S,
         \A x \in S : f[x] \in Nat
  PROVE  SumOver(f, T) <= SumOver(f, S)
<1>1. Units(f, T) \subseteq Units(f, S) /\ IsFiniteSet(Units(f, S))
  BY SumIsNatural DEF Units
<1> QED BY <1>1, FS_Subset DEF SumOver

LEMMA InitIInv == Init => IInv
<1> SUFFICES ASSUME Init PROVE IInv
  OBVIOUS
<1>1. TypeOK
  <2>1. NoContract \in ContractRecords /\ newDispute(FALSE, 0) \in DisputeRecords
    BY DEF NoContract, newDispute, ContractRecords, DisputeRecords
  <2>2. << >> \in Seq(Banks)
    OBVIOUS
  <2>3. \A c \in Contracts : ~contractExists(c)
    BY DEF Init, contractExists, NoContract
  <2> QED BY <2>1, <2>2, <2>3 DEF Init, TypeOK
<1>2. /\ DisputeMatchesStatus /\ ResolutionTimelock /\ SomeBankAvailable
      /\ openDispute
  BY DEF Init, DisputeMatchesStatus, openDispute, ResolutionTimelock, SomeBankAvailable,
         NoContract, newDispute
<1> QED BY <1>1, <1>2 DEF IInv

(* What _transition and the reference check leave behind.                  *)
LEMMA TransitionFacts ==
  ASSUME TypeOK, NEW c \in Contracts, contractExists(c),
         NEW from, NEW to, _transition(c, from, to)
  PROVE  /\ contracts' \in [Contracts -> ContractRecords]
         /\ <<from, to>> \in AllowedTransitionsV3
         /\ contracts'[c].status = to
         /\ \A d \in Contracts :
              /\ contracts'[d].bankId = contracts[d].bankId
              /\ d # c => contracts'[d] = contracts[d]
         /\ \A d \in Contracts :
              contractExists(d)' => contracts'[d].bankId \in Banks
<1>1. <<from, to>> \in AllowedTransitionsV3
  BY DEF _transition, ledgerAllows
<1>2. to \in LedgerStatuses
  BY <1>1 DEF AllowedTransitionsV3, AllowedTransitionsV2, LedgerStatuses
<1>3. contracts[c] \in ContractRecords /\ contracts[c].version + 1 \in Nat
  BY DEF TypeOK, ContractRecords
<1>4. [contracts[c] EXCEPT !.status = to, !.version = @ + 1] \in ContractRecords
  BY <1>2, <1>3 DEF ContractRecords
<1>5. contracts' = [contracts EXCEPT
        ![c] = [contracts[c] EXCEPT !.status = to, !.version = @ + 1]]
  BY DEF _transition, TypeOK
<1>6. contracts' \in [Contracts -> ContractRecords]
  BY <1>4, <1>5 DEF TypeOK
<1>7. contracts'[c].status = to
  BY <1>3, <1>5 DEF TypeOK, ContractRecords
<1>8. \A d \in Contracts : /\ contracts'[d].bankId = contracts[d].bankId
                           /\ d # c => contracts'[d] = contracts[d]
  BY <1>3, <1>5 DEF TypeOK, ContractRecords
<1> QED
  BY <1>1, <1>6, <1>7, <1>8 DEF TypeOK, contractExists
-----------------------------------------------------------------------------
(* Steps that leave every contract and dispute alone.                      *)

LEMMA ElsewhereKeeps ==
  ASSUME IInv, UNCHANGED <<contracts, disputes>>, processed' \subseteq Refs,
         isFrozen' \in [Banks -> BOOLEAN], totalBalance' \in [Banks -> Nat],
         registeredBanks' \in Seq(Banks), primaryBankId' \in Banks \cup {NoBank},
         paused' \in BOOLEAN, now' \in Nat, now' >= now, SomeBankAvailable'
  PROVE  IInv' /\ terminalStays /\ waitsOutItsDelay
<1>1. TypeOK'
  BY DEF IInv, TypeOK, contractExists
<1>2. DisputeMatchesStatus' /\ ResolutionTimelock' /\ openDispute'
  <2>1. DisputeMatchesStatus' /\ ResolutionTimelock'
    BY DEF IInv, DisputeMatchesStatus, ResolutionTimelock
  <2>2. ASSUME NEW c \in Contracts, disputes'[c].active
        PROVE  /\ disputes'[c].raisedAt <= now'
               /\ disputes'[c].appealed => disputes'[c].resolutionQueued
    BY <2>2 DEF IInv, openDispute, TypeOK, DisputeRecords
  <2> QED BY <2>1, <2>2 DEF openDispute
<1>3. terminalStays /\ waitsOutItsDelay
  BY DEF terminalStays, waitsOutItsDelay, executesResolution
<1> QED BY <1>1, <1>2, <1>3 DEF IInv

LEMMA FreezeKeepsABank ==
  ASSUME IInv, NEW b \in Banks, freezeBankEscrow(b)
  PROVE  SomeBankAvailable'
<1> DEFINE S == {x \in Banks : available(x)}
<1>1. isFrozen' = [isFrozen EXCEPT ![b] = TRUE] /\ UNCHANGED registeredBanks
  BY DEF freezeBankEscrow
<1>2. CASE isFrozen[b]
  <2>1. UNCHANGED isFrozen
    BY <1>1, <1>2 DEF IInv, TypeOK
  <2> QED BY <1>1, <2>1 DEF IInv, SomeBankAvailable, available, added
<1>3. CASE Cardinality(S) > 1
  <2>1. PICK x \in S : x # b
    <3> SUFFICES ASSUME S \subseteq {b} PROVE FALSE
      OBVIOUS
    <3>1. IsFiniteSet({b}) /\ Cardinality({b}) = 1
      BY FS_Singleton
    <3>2. Cardinality(S) <= 1 /\ Cardinality(S) \in Nat
      <4> HIDE DEF S
      <4> QED BY <3>1, FS_Subset, FS_CardinalityType
    <3> QED BY <3>2, <1>3
  <2>2. available(x)'
    BY <1>1, <2>1 DEF available, added, IInv, TypeOK
  <2> QED BY <2>1, <2>2 DEF SomeBankAvailable
<1>4. isFrozen[b] \/ Cardinality(S) > 1
  BY DEF freezeBankEscrow
<1> QED BY <1>2, <1>3, <1>4

LEMMA BankStepKeeps ==
  ASSUME IInv, NEW b \in Banks,
         \/ \E isPrimary \in BOOLEAN : addBankEscrow(b, isPrimary)
         \/ freezeBankEscrow(b)
         \/ unfreezeBankEscrow(b)
  PROVE  IInv' /\ terminalStays /\ waitsOutItsDelay
<1>1. ASSUME NEW isPrimary \in BOOLEAN, addBankEscrow(b, isPrimary)
      PROVE  IInv' /\ terminalStays /\ waitsOutItsDelay
  <2>1. /\ registeredBanks' \in Seq(Banks)
        /\ Len(registeredBanks)+1 \in DOMAIN registeredBanks'
        /\ registeredBanks'[Len(registeredBanks)+1] = b
    BY <1>1 DEF addBankEscrow, IInv, TypeOK
  <2>2. /\ isFrozen' \in [Banks -> BOOLEAN] /\ ~isFrozen'[b]
        /\ totalBalance' \in [Banks -> Nat]
        /\ primaryBankId' \in Banks \cup {NoBank}
    BY <1>1 DEF addBankEscrow, IInv, TypeOK
  <2>3. SomeBankAvailable'
    BY <2>1, <2>2 DEF SomeBankAvailable, available, added
  <2> QED BY <1>1, <2>1, <2>2, <2>3, ElsewhereKeeps DEF addBankEscrow, IInv, TypeOK
<1>2. CASE freezeBankEscrow(b)
  <2>1. SomeBankAvailable'
    BY <1>2, FreezeKeepsABank
  <2>2. isFrozen' \in [Banks -> BOOLEAN]
    BY <1>2 DEF freezeBankEscrow, IInv, TypeOK
  <2> QED BY <1>2, <2>1, <2>2, ElsewhereKeeps DEF freezeBankEscrow, IInv, TypeOK
<1>3. CASE unfreezeBankEscrow(b)
  <2>1. isFrozen' = [isFrozen EXCEPT ![b] = FALSE] /\ UNCHANGED registeredBanks
    BY <1>3 DEF unfreezeBankEscrow
  <2>2. isFrozen' \in [Banks -> BOOLEAN]
    BY <2>1 DEF IInv, TypeOK
  <2>3. SomeBankAvailable'
    BY <2>1 DEF SomeBankAvailable, available, added, IInv, TypeOK
  <2> QED BY <1>3, <2>2, <2>3, ElsewhereKeeps DEF unfreezeBankEscrow, IInv, TypeOK
<1> QED BY <1>1, <1>2, <1>3

LEMMA RestKeeps ==
  ASSUME IInv, pause \/ unpause \/ Tick \/ UNCHANGED vars
  PROVE  IInv' /\ terminalStays /\ waitsOutItsDelay
<1>1. UNCHANGED <<contracts, disputes, processed, isFrozen, totalBalance,
                  registeredBanks, primaryBankId>>
  BY DEF pause, unpause, Tick, vars, bankVars
<1>2. paused' \in BOOLEAN
  BY DEF pause, unpause, Tick, vars, IInv, TypeOK
<1>3. now' = now \/ now' = now + 1
  BY DEF pause, unpause, Tick, vars
<1>4. now' \in Nat /\ now' >= now
  BY <1>3 DEF IInv, TypeOK
<1>5. SomeBankAvailable'
  BY <1>1 DEF IInv, SomeBankAvailable, available, added
<1> QED BY <1>1, <1>2, <1>4, <1>5, ElsewhereKeeps DEF IInv, TypeOK
-----------------------------------------------------------------------------
(* Steps of one contract.                                                  *)

LEMMA ContractStepKeeps ==
  ASSUME IInv, NEW c \in Contracts,
         contracts' \in [Contracts -> ContractRecords],
         disputes' \in [Contracts -> DisputeRecords],
         \A d \in Contracts : contractExists(d)' => contracts'[d].bankId \in Banks,
         \A d \in Contracts \ {c} : /\ contracts'[d] = contracts[d]
                                    /\ disputes'[d] = disputes[d],
         processed' \subseteq Refs, totalBalance' \in [Banks -> Nat],
         UNCHANGED <<isFrozen, registeredBanks, primaryBankId, paused, now>>,
         disputes'[c].active <=> contracts'[c].status = "DISPUTED",
         disputes'[c].active
           => /\ disputes'[c].raisedAt <= now
              /\ disputes'[c].appealed => disputes'[c].resolutionQueued,
         disputes'[c].active /\ disputes'[c].resolutionQueued
           => disputes'[c].resolutionExecutableAt >= timelockOf(disputes'[c]),
         contracts[c].status \in {"SETTLED", "CANCELLED"}
           => contracts'[c] = contracts[c],
         executesResolution(c) => now >= timelockOf(disputes[c])
  PROVE  IInv' /\ terminalStays /\ waitsOutItsDelay
<1>1. TypeOK'
  BY DEF IInv, TypeOK
<1>2. DisputeMatchesStatus'
  <2> SUFFICES ASSUME NEW d \in Contracts
               PROVE  disputes'[d].active <=> contracts'[d].status = "DISPUTED"
    BY DEF DisputeMatchesStatus
  <2> QED BY DEF IInv, DisputeMatchesStatus
<1>3. ResolutionTimelock'
  <2> SUFFICES ASSUME NEW d \in Contracts,
                      disputes'[d].active, disputes'[d].resolutionQueued
               PROVE  disputes'[d].resolutionExecutableAt
                        >= timelockOf(disputes'[d])
    BY DEF ResolutionTimelock, timelockOf
  <2>1. CASE d = c
    BY <2>1
  <2>2. CASE d # c
    BY <2>2 DEF IInv, ResolutionTimelock, timelockOf
  <2> QED BY <2>1, <2>2
<1>4. SomeBankAvailable'
  BY DEF IInv, SomeBankAvailable, available, added
<1>5. terminalStays
  BY DEF terminalStays
<1>6. waitsOutItsDelay
  <2> SUFFICES ASSUME NEW d \in Contracts, executesResolution(d)
               PROVE  now >= timelockOf(disputes[d])
    BY DEF waitsOutItsDelay, timelockOf
  <2> QED BY DEF executesResolution
<1>7. openDispute'
  <2> SUFFICES ASSUME NEW d \in Contracts, disputes'[d].active
               PROVE  /\ disputes'[d].raisedAt <= now
                      /\ disputes'[d].appealed => disputes'[d].resolutionQueued
    BY DEF openDispute
  <2>1. CASE d = c
    BY <2>1
  <2>2. CASE d # c
    BY <2>2 DEF IInv, openDispute
  <2> QED BY <2>1, <2>2
<1> QED BY <1>1, <1>2, <1>3, <1>4, <1>5, <1>6, <1>7 DEF IInv

LEMMA CreateKeeps ==
  ASSUME IInv, NEW c \in Contracts, createContract(c)
  PROVE  IInv' /\ terminalStays /\ waitsOutItsDelay
<1> DEFINE new ==
  [status |-> "CREATED", bankId |-> getAvailableBank, version |-> 1]
<1>1. getAvailableBank \in Banks
  BY AddedBankIsFound DEF IInv, createContract
<1>2. contracts' = [contracts EXCEPT ![c] = new] /\ UNCHANGED <<disputes, processed>>
  BY DEF createContract
<1>3. new \in ContractRecords
  BY <1>1 DEF ContractRecords, LedgerStatuses
<1>4. /\ contracts' \in [Contracts -> ContractRecords]
      /\ contracts'[c] = new
      /\ \A d \in Contracts \ {c} : contracts'[d] = contracts[d]
  BY <1>2, <1>3 DEF IInv, TypeOK
<1>5. contracts[c].status = "NONE"
  BY DEF createContract, contractExists
<1>6. ~disputes'[c].active /\ ~executesResolution(c)
  BY <1>2, <1>5 DEF IInv, DisputeMatchesStatus, executesResolution
<1>7. \A d \in Contracts : contractExists(d)' => contracts'[d].bankId \in Banks
  BY <1>1, <1>4 DEF IInv, TypeOK, contractExists
<1>8. new.status # "DISPUTED"
  OBVIOUS
<1>9. UNCHANGED <<totalBalance, isFrozen, registeredBanks, primaryBankId, paused, now>>
  BY DEF createContract, bankVars
<1> HIDE DEF new
<1> QED
  BY <1>2, <1>4, <1>5, <1>6, <1>7, <1>8, <1>9, ContractStepKeeps DEF IInv, TypeOK

(* A dispute record with some of its fields set is one.                    *)
LEMMA DisputeFacts ==
  ASSUME TypeOK, NEW c \in Contracts
  PROVE  /\ disputes[c] \in DisputeRecords
         /\ [disputes EXCEPT ![c].active = FALSE]
              \in [Contracts -> DisputeRecords]
         /\ [disputes EXCEPT ![c].active = FALSE, ![c].resolutionQueued = FALSE]
              \in [Contracts -> DisputeRecords]
  BY DEF TypeOK, DisputeRecords

(* Funding, verification, settlement and cancellation: the status moves to *)
(* one that is not DISPUTED and the dispute is closed if there was one.    *)
LEMMA MoveKeeps ==
  ASSUME IInv, NEW c \in Contracts, NEW ref \in Refs,
         NEW to, to # "DISPUTED",
         contractExists(c), idempotent(ref),
         _transition(c, contracts[c].status, to),
         \/ disputes' = [disputes EXCEPT ![c].active = FALSE]
         \/ disputes' = disputes /\ contracts[c].status # "DISPUTED",
         totalBalance' \in [Banks -> Nat],
         UNCHANGED <<isFrozen, registeredBanks, primaryBankId, paused, now>>
  PROVE  IInv' /\ terminalStays /\ waitsOutItsDelay
<1>1. /\ contracts' \in [Contracts -> ContractRecords]
      /\ <<contracts[c].status, to>> \in AllowedTransitionsV3
      /\ contracts'[c].status = to
      /\ \A d \in Contracts \ {c} : contracts'[d] = contracts[d]
      /\ \A d \in Contracts : contractExists(d)' => contracts'[d].bankId \in Banks
  BY TransitionFacts DEF IInv
<1>2. contracts[c].status \notin {"SETTLED", "CANCELLED"}
  BY <1>1 DEF AllowedTransitionsV3, AllowedTransitionsV2
<1>3. /\ disputes' \in [Contracts -> DisputeRecords]
      /\ ~disputes'[c].active
      /\ disputes'[c].resolutionQueued = disputes[c].resolutionQueued
      /\ \A d \in Contracts \ {c} : disputes'[d] = disputes[d]
  <2>1. CASE disputes' = [disputes EXCEPT ![c].active = FALSE]
    <3>1. disputes' \in [Contracts -> DisputeRecords]
      BY <2>1, DisputeFacts DEF IInv
    <3>2. disputes'[c] = [disputes[c] EXCEPT !.active = FALSE]
      BY <2>1 DEF IInv, TypeOK
    <3>3. \A d \in Contracts \ {c} : disputes'[d] = disputes[d]
      BY <2>1 DEF IInv, TypeOK
    <3>4. disputes[c] \in DisputeRecords
      BY DEF IInv, TypeOK
    <3>5. /\ ~disputes'[c].active
          /\ disputes'[c].resolutionQueued = disputes[c].resolutionQueued
      BY <3>2, <3>4 DEF DisputeRecords
    <3> QED BY <3>1, <3>3, <3>5
  <2>2. CASE disputes' = disputes /\ contracts[c].status # "DISPUTED"
    BY <2>2 DEF IInv, TypeOK, DisputeMatchesStatus
  <2> QED BY <2>1, <2>2
<1>4. processed' \subseteq Refs
  BY DEF idempotent, IInv, TypeOK
<1>5. ~executesResolution(c)
  BY <1>3 DEF executesResolution
<1> QED BY <1>1, <1>2, <1>3, <1>4, <1>5, ContractStepKeeps

LEMMA RaiseKeeps ==
  ASSUME IInv, NEW c \in Contracts, NEW ref \in Refs, raiseDispute(c, ref)
  PROVE  IInv' /\ terminalStays /\ waitsOutItsDelay
<1> DEFINE new == newDispute(TRUE, now)
<1>1. /\ contracts' \in [Contracts -> ContractRecords]
      /\ contracts'[c].status = "DISPUTED"
      /\ \A d \in Contracts \ {c} : contracts'[d] = contracts[d]
      /\ \A d \in Contracts : contractExists(d)' => contracts'[d].bankId \in Banks
  BY TransitionFacts DEF IInv, raiseDispute
<1>2. /\ new \in DisputeRecords /\ new.active /\ ~new.resolutionQueued
      /\ new.raisedAt = now /\ ~new.appealed
  <2>1. now \in Nat
    BY DEF IInv, TypeOK
  <2>3. new \in DisputeRecords
    BY <2>1 DEF DisputeRecords, newDispute
  <2>4. new.active /\ ~new.resolutionQueued /\ ~new.appealed
    BY DEF newDispute
  <2>5. new.raisedAt = now
    BY DEF newDispute
  <2> QED BY <2>3, <2>4, <2>5
<1>3. disputes' = [disputes EXCEPT ![c] = new]
  BY DEF raiseDispute
<1> HIDE DEF new
<1>4. /\ disputes' \in [Contracts -> DisputeRecords]
      /\ disputes'[c] = new
      /\ \A d \in Contracts \ {c} : disputes'[d] = disputes[d]
  BY <1>2, <1>3 DEF IInv, TypeOK
<1>5. contracts[c].status \in {"FUNDED", "VERIFIED"} /\ ~executesResolution(c)
  BY DEF raiseDispute, executesResolution
<1>6. processed' \subseteq Refs
  BY DEF raiseDispute, idempotent, IInv, TypeOK
<1>7. UNCHANGED <<totalBalance, isFrozen, registeredBanks, primaryBankId, paused, now>>
  BY DEF raiseDispute, bankVars
<1>8. new.raisedAt <= now
  BY <1>2 DEF IInv, TypeOK
<1> QED
  BY <1>1, <1>2, <1>4, <1>5, <1>6, <1>7, <1>8, ContractStepKeeps
     DEF IInv, TypeOK

(* Queueing and appealing change the dispute and nothing else.             *)
LEMMA QueueKeeps ==
  ASSUME IInv, NEW c \in Contracts, NEW type \in ResolutionTypes,
         queueResolution(c, type)
  PROVE  IInv' /\ terminalStays /\ waitsOutItsDelay
<1> DEFINE new == [disputes[c] EXCEPT
                     !.resolutionQueued = TRUE,
                     !.resolutionExecutableAt = now + resolutionDelay,
                     !.queuedResolutionType = type]
<1>1. disputes[c] \in DisputeRecords /\ now \in Nat
  BY DEF IInv, TypeOK
<1>2. /\ new \in DisputeRecords
      /\ new.active = disputes[c].active
      /\ new.resolutionExecutableAt = now + resolutionDelay
      /\ new.resolutionQueued
      /\ new.appealed = disputes[c].appealed
      /\ new.raisedAt = disputes[c].raisedAt
  <2>1. now + resolutionDelay \in Nat
    BY <1>1, DelayAssumption
  <2>2. new \in DisputeRecords
    BY <1>1, <2>1 DEF DisputeRecords
  <2>3. new.active = disputes[c].active /\ new.appealed = disputes[c].appealed
    BY <1>1 DEF DisputeRecords
  <2>4. /\ new.resolutionExecutableAt = now + resolutionDelay
        /\ new.resolutionQueued
        /\ new.raisedAt = disputes[c].raisedAt
    BY <1>1 DEF DisputeRecords
  <2> QED BY <2>2, <2>3, <2>4
<1>3. disputes' = [disputes EXCEPT ![c] = new]
  BY DEF queueResolution, IInv, TypeOK
<1> HIDE DEF new
<1>4. /\ disputes' \in [Contracts -> DisputeRecords]
      /\ disputes'[c] = new
      /\ \A d \in Contracts \ {c} : disputes'[d] = disputes[d]
  BY <1>2, <1>3 DEF IInv, TypeOK
<1>5. disputes[c].active =>
        /\ new.raisedAt <= now /\ ~new.appealed
        /\ new.resolutionExecutableAt >= timelockOf(new)
  <2>1. ~disputes[c].resolutionQueued
    BY DEF queueResolution
  <2> QED
    BY <1>1, <1>2, <2>1, DelayAssumption
       DEF IInv, openDispute, timelockOf, DisputeRecords
<1>6. UNCHANGED <<contracts, processed, totalBalance, isFrozen, registeredBanks,
                  primaryBankId, paused, now>>
  BY DEF queueResolution, bankVars
<1>7. (disputes'[c].active <=> contracts'[c].status = "DISPUTED")
      /\ ~executesResolution(c)
  BY <1>2, <1>4, <1>6 DEF IInv, DisputeMatchesStatus, executesResolution
<1> QED
  BY <1>2, <1>4, <1>5, <1>6, <1>7, ContractStepKeeps
     DEF IInv, TypeOK, contractExists

LEMMA AppealKeeps ==
  ASSUME IInv, NEW c \in Contracts, appealResolution(c)
  PROVE  IInv' /\ terminalStays /\ waitsOutItsDelay
<1> DEFINE new == [disputes[c] EXCEPT !.appealed = TRUE,
                                      !.resolutionExecutableAt = now + MaxDelay]
<1>1. disputes[c] \in DisputeRecords /\ now \in Nat
  BY DEF IInv, TypeOK
<1>2. /\ new \in DisputeRecords
      /\ new.active = disputes[c].active
      /\ new.resolutionExecutableAt = now + MaxDelay
      /\ new.appealed
      /\ new.resolutionQueued
      /\ new.raisedAt = disputes[c].raisedAt
  <2>1. now + MaxDelay \in Nat
    BY <1>1, DelayAssumption
  <2>2. new \in DisputeRecords
    BY <1>1, <2>1 DEF DisputeRecords
  <2>3. new.active = disputes[c].active /\ new.appealed
    BY <1>1 DEF DisputeRecords
  <2>4. /\ new.resolutionExecutableAt = now + MaxDelay
        /\ new.raisedAt = disputes[c].raisedAt
    BY <1>1 DEF DisputeRecords
  <2>5. new.resolutionQueued
    BY <1>1 DEF DisputeRecords, appealResolution
  <2> QED BY <2>2, <2>3, <2>4, <2>5
<1>3. disputes' = [disputes EXCEPT ![c] = new]
  BY DEF appealResolution, IInv, TypeOK
<1> HIDE DEF new
<1>4. /\ disputes' \in [Contracts -> DisputeRecords]
      /\ disputes'[c] = new
      /\ \A d \in Contracts \ {c} : disputes'[d] = disputes[d]
  BY <1>2, <1>3 DEF IInv, TypeOK
<1>5. disputes[c].active =>
        /\ new.raisedAt <= now
        /\ new.resolutionExecutableAt >= timelockOf(new)
  BY <1>1, <1>2, DelayAssumption DEF IInv, openDispute, timelockOf, DisputeRecords
<1>6. UNCHANGED <<contracts, processed, totalBalance, isFrozen, registeredBanks,
                  primaryBankId, paused, now>>
  BY DEF appealResolution, bankVars
<1>7. (disputes'[c].active <=> contracts'[c].status = "DISPUTED")
      /\ ~executesResolution(c)
  BY <1>2, <1>4, <1>6 DEF IInv, DisputeMatchesStatus, executesResolution
<1> QED
  BY <1>2, <1>4, <1>5, <1>6, <1>7, ContractStepKeeps
     DEF IInv, TypeOK, contractExists

(* The invariant says that the contract executeResolution moves is         *)
(* DISPUTED, which the code does not check.                                *)
LEMMA ExecuteKeeps ==
  ASSUME IInv, NEW c \in Contracts, NEW ref \in Refs, executeResolution(c, ref)
  PROVE  IInv' /\ terminalStays /\ waitsOutItsDelay
<1> DEFINE to == finalStatus(disputes[c].queuedResolutionType)
<1>1. /\ contracts' \in [Contracts -> ContractRecords]
      /\ contracts'[c].status = to
      /\ \A d \in Contracts \ {c} : contracts'[d] = contracts[d]
      /\ \A d \in Contracts : contractExists(d)' => contracts'[d].bankId \in Banks
  BY TransitionFacts DEF IInv, executeResolution
<1>2. to # "DISPUTED"
  BY DEF finalStatus
<1>3. contracts[c].status = "DISPUTED"
  BY DEF IInv, DisputeMatchesStatus, executeResolution
<1>4. disputes' = [disputes EXCEPT ![c].active = FALSE,
                                   ![c].resolutionQueued = FALSE]
  BY DEF executeResolution
<1>5. /\ disputes' \in [Contracts -> DisputeRecords]
      /\ \A d \in Contracts \ {c} : disputes'[d] = disputes[d]
  BY <1>4, DisputeFacts DEF IInv, TypeOK
<1>6. ~disputes'[c].active
  <2>1. disputes'[c] = [disputes[c] EXCEPT !.active = FALSE,
                                           !.resolutionQueued = FALSE]
    BY <1>4 DEF IInv, TypeOK
  <2> QED BY <2>1, DisputeFacts DEF IInv, DisputeRecords
<1>7. now >= timelockOf(disputes[c])
  <2>1. /\ disputes[c].active /\ disputes[c].resolutionQueued
        /\ now >= disputes[c].resolutionExecutableAt
    BY DEF executeResolution
  <2>2. disputes[c].resolutionExecutableAt >= timelockOf(disputes[c])
    BY <2>1 DEF IInv, ResolutionTimelock
  <2>3. /\ disputes[c].resolutionExecutableAt \in Nat
        /\ timelockOf(disputes[c]) \in Nat /\ now \in Nat
    <3>1. disputes[c] \in DisputeRecords /\ now \in Nat
      BY DEF IInv, TypeOK
    <3>2. disputes[c].resolutionExecutableAt \in Nat /\ disputes[c].raisedAt \in Nat
      BY <3>1 DEF DisputeRecords
    <3> HIDE DEF to
    <3> QED BY <3>1, <3>2, DelayAssumption DEF timelockOf
  <2> HIDE DEF to
  <2> QED BY <2>1, <2>2, <2>3
<1>8. processed' \subseteq Refs
  BY DEF executeResolution, idempotent, IInv, TypeOK
<1>9. UNCHANGED <<totalBalance, isFrozen, registeredBanks, primaryBankId, paused, now>>
  BY DEF executeResolution, bankVars
<1> HIDE DEF to
<1> QED
  BY <1>1, <1>2, <1>3, <1>5, <1>6, <1>7, <1>8, <1>9, ContractStepKeeps
     DEF IInv, TypeOK

LEMMA LifecycleKeeps ==
  ASSUME IInv, NEW c \in Contracts, NEW ref \in Refs,
         \/ markFunded(c, ref)
         \/ markVerified(c, ref)
         \/ markSettled(c, ref)
         \/ cancelContract(c, ref)
  PROVE  IInv' /\ terminalStays /\ waitsOutItsDelay
<1>1. ASSUME contractExists(c)
      PROVE  /\ contracts[c].bankId \in Banks
             /\ totalBalance[contracts[c].bankId] \in Nat
             /\ totalAmount[c] \in Nat
             /\ totalBalance \in [Banks -> Nat]
  BY <1>1, AmountAssumption DEF IInv, TypeOK
<1>2. CASE markFunded(c, ref)
  <2>1. totalBalance' \in [Banks -> Nat]
    BY <1>1, <1>2 DEF markFunded
  <2>2. disputes' = disputes /\ contracts[c].status # "DISPUTED"
    BY <1>2 DEF markFunded, _transition, ledgerAllows, AllowedTransitionsV2,
                AllowedTransitionsV3
  <2> QED BY <1>2, <2>1, <2>2, MoveKeeps DEF markFunded
<1>3. CASE markVerified(c, ref)
  BY <1>3, MoveKeeps DEF markVerified, bankVars, IInv, TypeOK
<1>4. CASE markSettled(c, ref)
  <2>1. totalBalance' \in [Banks -> Nat]
    BY <1>1, <1>4 DEF markSettled
  <2>2. disputes' = disputes /\ contracts[c].status # "DISPUTED"
    BY <1>4 DEF markSettled, _transition, ledgerAllows, AllowedTransitionsV2,
                AllowedTransitionsV3
  <2> QED BY <1>4, <2>1, <2>2, MoveKeeps DEF markSettled
<1>5. CASE cancelContract(c, ref)
  <2>1. contractExists(c)
    BY <1>5 DEF cancelContract, contractExists
  <2>2. \/ disputes' = [disputes EXCEPT ![c].active = FALSE]
        \/ disputes' = disputes /\ contracts[c].status # "DISPUTED"
    BY <1>5 DEF cancelContract
  <2> QED BY <1>5, <2>1, <2>2, MoveKeeps DEF cancelContract, bankVars, IInv, TypeOK
<1> QED BY <1>2, <1>3, <1>4, <1>5

LEMMA NextKeeps ==
  ASSUME IInv, [Next]_vars
  PROVE  IInv' /\ terminalStays /\ waitsOutItsDelay
<1>1. ASSUME NEW c \in Contracts, createContract(c)
      PROVE  IInv' /\ terminalStays /\ waitsOutItsDelay
  BY <1>1, CreateKeeps
<1>2. ASSUME NEW c \in Contracts, appealResolution(c)
      PROVE  IInv' /\ terminalStays /\ waitsOutItsDelay
  BY <1>2, AppealKeeps
<1>3. ASSUME NEW c \in Contracts, NEW type \in ResolutionTypes,
             queueResolution(c, type)
      PROVE  IInv' /\ terminalStays /\ waitsOutItsDelay
  BY <1>3, QueueKeeps
<1>4. ASSUME NEW c \in Contracts, NEW ref \in Refs,
             \/ markFunded(c, ref)
             \/ markVerified(c, ref)
             \/ markSettled(c, ref)
             \/ cancelContract(c, ref)
      PROVE  IInv' /\ terminalStays /\ waitsOutItsDelay
  BY <1>4, LifecycleKeeps
<1>5. ASSUME NEW c \in Contracts, NEW ref \in Refs, raiseDispute(c, ref)
      PROVE  IInv' /\ terminalStays /\ waitsOutItsDelay
  BY <1>5, RaiseKeeps
<1>6. ASSUME NEW c \in Contracts, NEW ref \in Refs, executeResolution(c, ref)
      PROVE  IInv' /\ terminalStays /\ waitsOutItsDelay
  BY <1>6, ExecuteKeeps
<1>7. ASSUME NEW b \in Banks,
             \/ \E isPrimary \in BOOLEAN : addBankEscrow(b, isPrimary)
             \/ freezeBankEscrow(b)
             \/ unfreezeBankEscrow(b)
      PROVE  IInv' /\ terminalStays /\ waitsOutItsDelay
  BY <1>7, BankStepKeeps
<1>8. CASE pause \/ unpause \/ Tick \/ UNCHANGED vars
  BY <1>8, RestKeeps
<1> QED BY <1>1, <1>2, <1>3, <1>4, <1>5, <1>6, <1>7, <1>8 DEF Next
-----------------------------------------------------------------------------
(* The books.                                                              *)

LEMMA InitBooks == Init => Books
<1> SUFFICES ASSUME Init PROVE Books
  OBVIOUS
<1>1. \A c \in Contracts : ~contractExists(c)
  BY DEF Init, NoContract, contractExists
<1>2. ASSUME NEW b \in Banks
      PROVE  totalBalance[b] >= SumOver(totalAmount, Held(b))
  <2>1. Held(b) = {}
    BY DEF Held, Init, NoContract
  <2> QED BY <2>1, SumOfNone DEF Init
<1>3. OneReferencePerTransition /\ IsFiniteSet(processed)
  <2>1. {c \in Contracts : contractExists(c)} = {}
    BY <1>1
  <2> QED BY <2>1, SumOfNone, FS_EmptySet DEF Init, OneReferencePerTransition
<1> QED BY <1>1, <1>2, <1>3 DEF Books, BankCoversContracts

(* The contracts whose money a bank holds are finitely many.               *)
LEMMA HeldFacts ==
  ASSUME TypeOK, NEW b
  PROVE  /\ IsFiniteSet(Held(b))
         /\ \A c \in Contracts : totalAmount[c] \in Nat
         /\ SumOver(totalAmount, Held(b)) \in Nat
<1>1. Held(b) \subseteq Contracts
  BY DEF Held
<1>2. IsFiniteSet(Held(b))
  BY <1>1, ContractsAssumption, FS_Subset
<1>3. \A c \in Contracts : totalAmount[c] \in Nat
  BY AmountAssumption
<1> QED BY <1>1, <1>2, <1>3, SumIsNatural

(* A transition counts one change of status and consumes one reference.    *)
LEMMA TransitionCounts ==
  ASSUME IInv, Books, NEW c \in Contracts, contractExists(c),
         NEW ref \in Refs, idempotent(ref),
         NEW from, NEW to, _transition(c, from, to),
         UNCHANGED registeredBanks
  PROVE  /\ OneReferencePerTransition' /\ IsFiniteSet(processed')
         /\ \A d \in Contracts : contractExists(d)' =>
              contracts'[d].version >= 1 /\ added(contracts[d].bankId)'
<1> DEFINE E == {d \in Contracts : contractExists(d)}
           new == transitions'
<1>1. /\ <<from, to>> \in AllowedTransitionsV3
      /\ contracts'[c].status = to
      /\ \A d \in Contracts : /\ contracts'[d].bankId = contracts[d].bankId
                              /\ d # c => contracts'[d] = contracts[d]
  BY TransitionFacts DEF IInv
<1>2. to # "NONE"
  BY <1>1 DEF AllowedTransitionsV3, AllowedTransitionsV2
<1>3. contracts'[c].version = contracts[c].version + 1
  BY DEF _transition, IInv, TypeOK, ContractRecords
<1>4. \A d \in Contracts : contractExists(d)' <=> contractExists(d)
  BY <1>1, <1>2 DEF contractExists
<1>5. \A d \in Contracts : contracts[d].version \in Nat
  BY DEF IInv, TypeOK, ContractRecords
<1>6. \A d \in E : contracts'[d].version >= 1 /\ added(contracts[d].bankId)'
  <2> SUFFICES ASSUME NEW d \in E
               PROVE  contracts'[d].version >= 1 /\ added(contracts[d].bankId)'
    OBVIOUS
  <2>1. contracts[d].version >= 1 /\ added(contracts[d].bankId)
    BY DEF Books
  <2>2. contracts'[d].version = contracts[d].version
        \/ contracts'[d].version = contracts[d].version + 1
    BY <1>1, <1>3
  <2>3. contracts'[d].version >= 1
    BY <1>5, <2>1, <2>2
  <2>4. contracts'[d].bankId = contracts[d].bankId
    BY <1>1
  <2> QED BY <2>1, <2>3, <2>4 DEF added
<1>7. IsFiniteSet(processed') /\ Cardinality(processed') = Cardinality(processed) + 1
  BY FS_AddElement DEF Books, idempotent
<1>8. SumOver(new, E) = SumOver(transitions, E) + 1
  <2> DEFINE R == E \ {c}
  <2>1. IsFiniteSet(R) /\ c \notin R /\ E = R \cup {c}
    BY ContractsAssumption, FS_Subset
  <2>2. \A d \in E : transitions[d] \in Nat
    <3>1. \A d \in E : contracts[d].version >= 1
      BY DEF Books
    <3> QED BY <1>5, <3>1 DEF transitions
  <2>3. \A d \in R : new[d] = transitions[d]
    BY <1>1 DEF transitions
  <2>4. new[c] = transitions[c] + 1
    BY <1>3, <1>5 DEF transitions
  <2>5. \A d \in E : new[d] \in Nat
    BY <2>2, <2>3, <2>4
  <2>6. /\ SumOver(new, E) = SumOver(new, R) + new[c]
        /\ SumOver(transitions, E) = SumOver(transitions, R) + transitions[c]
    <3> HIDE DEF E, R, new
    <3> QED BY <2>1, <2>2, <2>5, SumAdds
  <2>7. SumOver(new, R) = SumOver(transitions, R)
    <3> HIDE DEF E, R, new
    <3> QED BY <2>3, SumAgrees
  <2>8. SumOver(transitions, R) \in Nat /\ transitions[c] \in Nat
    <3>1. c \in E /\ R \subseteq E
      OBVIOUS
    <3> HIDE DEF E, R, new
    <3> QED BY <2>1, <2>2, <3>1, SumIsNatural
  <2> HIDE DEF E, R, new
  <2> QED BY <2>4, <2>6, <2>7, <2>8
<1>9. {d \in Contracts : contractExists(d)'} = E
  BY <1>4
<1>10. OneReferencePerTransition'
  <2>1. Cardinality(processed) = SumOver(transitions, E)
    BY DEF Books, OneReferencePerTransition
  <2>2. OneReferencePerTransition' <=>
          Cardinality(processed') = SumOver(new, {d \in Contracts : contractExists(d)'})
    BY DEF OneReferencePerTransition, SumOver, Units
  <2> HIDE DEF E, new
  <2> QED BY <1>7, <1>8, <1>9, <2>1, <2>2
<1> QED BY <1>4, <1>6, <1>7, <1>10

(* Which contracts a bank holds the money of after a transition.           *)
LEMMA HeldMoves ==
  ASSUME TypeOK, NEW c \in Contracts, contractExists(c),
         NEW from, NEW to, _transition(c, from, to), NEW b
  PROVE  Held(b)' = IF /\ contracts[c].bankId = b
                       /\ to \in {"FUNDED", "VERIFIED", "DISPUTED"}
                    THEN Held(b) \cup {c} ELSE Held(b) \ {c}
<1>1. /\ contracts'[c].status = to
      /\ \A d \in Contracts : /\ contracts'[d].bankId = contracts[d].bankId
                              /\ d # c => contracts'[d] = contracts[d]
  BY TransitionFacts
<1>2. \A d \in Contracts : d \in Held(b)' <=>
        IF d = c THEN /\ contracts[c].bankId = b
                      /\ to \in {"FUNDED", "VERIFIED", "DISPUTED"}
                 ELSE d \in Held(b)
  BY <1>1 DEF Held
<1>3. Held(b)' \subseteq Contracts /\ Held(b) \subseteq Contracts
  BY DEF Held
<1> QED BY <1>2, <1>3

(* A bank covers what it holds as long as it comes to hold nothing new and *)
(* its balance stays.                                                      *)
LEMMA CoverStays ==
  ASSUME IInv, Books, UNCHANGED totalBalance,
         \A b \in Banks : Held(b)' \subseteq Held(b)
  PROVE  BankCoversContracts'
<1> SUFFICES ASSUME NEW b \in Banks
             PROVE  totalBalance'[b] >= SumOver(totalAmount, Held(b)')
  BY DEF BankCoversContracts
<1>1. /\ IsFiniteSet(Held(b)) /\ SumOver(totalAmount, Held(b)) \in Nat
      /\ \A c \in Held(b) : totalAmount[c] \in Nat
  BY HeldFacts DEF IInv, Held
<1>2. SumOver(totalAmount, Held(b)') <= SumOver(totalAmount, Held(b))
  BY <1>1, SumGrows
<1>3. SumOver(totalAmount, Held(b)') \in Nat
  <2>1. IsFiniteSet(Held(b)')
    BY <1>1, FS_Subset
  <2> QED BY <1>1, <2>1, SumIsNatural
<1>4. totalBalance[b] >= SumOver(totalAmount, Held(b)) /\ totalBalance[b] \in Nat
  BY DEF Books, BankCoversContracts, IInv, TypeOK
<1> QED BY <1>1, <1>2, <1>3, <1>4

(* Verification, cancellation, a dispute and its resolution: no balance    *)
(* changes and no bank comes to hold a contract it did not hold.           *)
LEMMA MoveKeepsBooks ==
  ASSUME IInv, Books, NEW c \in Contracts, contractExists(c),
         NEW ref \in Refs, idempotent(ref),
         NEW from, NEW to, _transition(c, from, to), contracts[c].status = from,
         from # "CREATED" \/ to = "CANCELLED",
         UNCHANGED <<totalBalance, registeredBanks>>
  PROVE  Books'
<1>1. <<from, to>> \in AllowedTransitionsV3
  BY TransitionFacts DEF IInv
<1>2. to \notin {"FUNDED", "VERIFIED", "DISPUTED"}
        \/ from \in {"FUNDED", "VERIFIED", "DISPUTED"}
  BY <1>1 DEF AllowedTransitionsV3, AllowedTransitionsV2
<1>3. ASSUME NEW b \in Banks PROVE Held(b)' \subseteq Held(b)
  <2>1. contracts[c].bankId = b /\ from \in {"FUNDED", "VERIFIED", "DISPUTED"}
          => c \in Held(b)
    BY DEF Held
  <2> QED BY <1>2, <2>1, HeldMoves DEF IInv
<1>4. BankCoversContracts'
  BY <1>3, CoverStays
<1> QED BY <1>4, TransitionCounts DEF Books

(* Funding books the amount with the bank that comes to hold the contract. *)
LEMMA FundedKeepsBooks ==
  ASSUME IInv, Books, NEW c \in Contracts, NEW ref \in Refs, markFunded(c, ref)
  PROVE  Books'
<1> DEFINE bank == contracts[c].bankId
<1>1. /\ contractExists(c) /\ idempotent(ref)
      /\ _transition(c, contracts[c].status, "FUNDED")
      /\ totalBalance' = [totalBalance EXCEPT ![bank] = @ + totalAmount[c]]
      /\ UNCHANGED registeredBanks
  BY DEF markFunded
<1>2. contracts[c].status = "CREATED"
  BY <1>1 DEF _transition, ledgerAllows, AllowedTransitionsV2, AllowedTransitionsV3
<1>3. BankCoversContracts'
  <2> SUFFICES ASSUME NEW b \in Banks
               PROVE  totalBalance'[b] >= SumOver(totalAmount, Held(b)')
    BY DEF BankCoversContracts
  <2>1. /\ IsFiniteSet(Held(b)) /\ SumOver(totalAmount, Held(b)) \in Nat
        /\ \A d \in Contracts : totalAmount[d] \in Nat
    BY HeldFacts DEF IInv
  <2>2. totalBalance[b] >= SumOver(totalAmount, Held(b)) /\ totalBalance[b] \in Nat
    BY DEF Books, BankCoversContracts, IInv, TypeOK
  <2>3. c \notin Held(b) /\ Held(b) \subseteq Contracts
    BY <1>2 DEF Held
  <2>4. CASE bank = b
    <3>1. Held(b)' = Held(b) \cup {c}
      BY <1>1, <2>4, HeldMoves DEF IInv
    <3>2. SumOver(totalAmount, Held(b)') = SumOver(totalAmount, Held(b)) + totalAmount[c]
      <4>1. \A d \in Held(b) \cup {c} : totalAmount[d] \in Nat
        BY <2>1, <2>3
      <4>2. SumOver(totalAmount, Held(b) \cup {c})
              = SumOver(totalAmount, Held(b)) + totalAmount[c]
        BY <2>1, <2>3, <4>1, SumAdds
      <4> QED BY <3>1, <4>2
    <3>3. totalBalance'[b] = totalBalance[b] + totalAmount[c]
      BY <1>1, <2>4 DEF IInv, TypeOK
    <3> QED BY <2>1, <2>2, <3>2, <3>3
  <2>5. CASE bank # b
    <3>1. Held(b)' = Held(b)
      BY <1>1, <2>3, <2>5, HeldMoves DEF IInv
    <3>2. totalBalance'[b] = totalBalance[b]
      BY <1>1, <2>5 DEF IInv, TypeOK
    <3> QED BY <2>2, <3>1, <3>2
  <2> QED BY <2>4, <2>5
<1> QED BY <1>1, <1>3, TransitionCounts DEF Books

(* Settlement takes off the amount of a contract that is held no longer.   *)
LEMMA SettledKeepsBooks ==
  ASSUME IInv, Books, NEW c \in Contracts, NEW ref \in Refs, markSettled(c, ref)
  PROVE  Books'
<1> DEFINE bank == contracts[c].bankId
<1>1. /\ contractExists(c) /\ idempotent(ref)
      /\ _transition(c, contracts[c].status, "SETTLED")
      /\ totalBalance' = [totalBalance EXCEPT ![bank] = @ - totalAmount[c]]
      /\ UNCHANGED registeredBanks
  BY DEF markSettled
<1>2. contracts[c].status = "VERIFIED"
  BY <1>1 DEF _transition, ledgerAllows, AllowedTransitionsV2, AllowedTransitionsV3
<1>3. BankCoversContracts'
  <2> SUFFICES ASSUME NEW b \in Banks
               PROVE  totalBalance'[b] >= SumOver(totalAmount, Held(b)')
    BY DEF BankCoversContracts
  <2>1. /\ IsFiniteSet(Held(b)) /\ SumOver(totalAmount, Held(b)) \in Nat
        /\ \A d \in Contracts : totalAmount[d] \in Nat
    BY HeldFacts DEF IInv
  <2>2. totalBalance[b] >= SumOver(totalAmount, Held(b)) /\ totalBalance[b] \in Nat
    BY DEF Books, BankCoversContracts, IInv, TypeOK
  <2>3. Held(b)' = Held(b) \ {c} /\ Held(b) \subseteq Contracts
    BY <1>1, HeldMoves DEF IInv, Held
  <2>4. CASE bank = b
    <3>1. c \in Held(b) /\ Held(b) = Held(b)' \cup {c} /\ IsFiniteSet(Held(b)')
      <4>1. c \in Held(b)
        BY <1>2, <2>4 DEF Held
      <4> QED BY <2>1, <2>3, <4>1, FS_Subset
    <3>2. SumOver(totalAmount, Held(b)) = SumOver(totalAmount, Held(b)') + totalAmount[c]
      <4>1. c \notin Held(b)' /\ \A d \in Held(b)' \cup {c} : totalAmount[d] \in Nat
        BY <2>1, <2>3
      <4>2. SumOver(totalAmount, Held(b)' \cup {c})
              = SumOver(totalAmount, Held(b)') + totalAmount[c]
        BY <3>1, <4>1, SumAdds
      <4> QED BY <3>1, <4>2
    <3>3. totalBalance'[b] = totalBalance[b] - totalAmount[c]
      BY <1>1, <2>4 DEF IInv, TypeOK
    <3>4. SumOver(totalAmount, Held(b)') \in Nat
      BY <2>1, <2>3, <3>1, SumIsNatural
    <3> QED BY <2>1, <2>2, <3>2, <3>3, <3>4
  <2>5. CASE bank # b
    <3>1. Held(b)' = Held(b)
      BY <2>3, <2>5 DEF Held
    <3>2. totalBalance'[b] = totalBalance[b]
      BY <1>1, <2>5 DEF IInv, TypeOK
    <3> QED BY <2>2, <3>1, <3>2
  <2> QED BY <2>4, <2>5
<1> QED BY <1>1, <1>3, TransitionCounts DEF Books

(* A contract that is created is held by no bank yet and has seen no       *)
(* change of status; its bank is one that is added.                        *)
LEMMA CreateKeepsBooks ==
  ASSUME IInv, Books, NEW c \in Contracts, createContract(c)
  PROVE  Books'
<1> DEFINE new == [status |-> "CREATED", bankId |-> getAvailableBank, version |-> 1]
           E == {d \in Contracts : contractExists(d)}
<1>1. /\ contracts[c].status = "NONE"
      /\ contracts' = [contracts EXCEPT ![c] = new]
      /\ UNCHANGED <<processed, totalBalance, registeredBanks>>
  BY DEF createContract, contractExists, bankVars
<1>2. /\ contracts'[c] = new
      /\ \A d \in Contracts \ {c} : contracts'[d] = contracts[d]
  BY <1>1 DEF IInv, TypeOK
<1>3. added(getAvailableBank)
  BY AddedBankIsFound DEF IInv, createContract
<1>4. \A d \in Contracts : contractExists(d)' =>
        contracts'[d].version >= 1 /\ added(contracts[d].bankId)'
  <2>1. contracts'[c].version >= 1 /\ added(contracts[c].bankId)'
    BY <1>1, <1>2, <1>3 DEF added
  <2>2. ASSUME NEW d \in Contracts \ {c}, contractExists(d)'
        PROVE  contracts'[d].version >= 1 /\ added(contracts[d].bankId)'
    BY <1>1, <1>2, <2>2 DEF Books, contractExists, added
  <2> QED BY <2>1, <2>2
<1>5. BankCoversContracts'
  <2>1. ASSUME NEW b \in Banks PROVE Held(b)' \subseteq Held(b)
    BY <1>2 DEF Held
  <2> QED BY <1>1, <2>1, CoverStays
<1>6. OneReferencePerTransition'
  <2>1. {d \in Contracts : contractExists(d)'} = E \cup {c} /\ c \notin E
    BY <1>1, <1>2 DEF contractExists
  <2>2. /\ \A d \in E : transitions'[d] = transitions[d] /\ transitions[d] \in Nat
        /\ transitions'[c] = 0
    <3>1. \A d \in E : contracts[d].version \in Nat /\ contracts[d].version >= 1
      BY DEF IInv, TypeOK, ContractRecords, Books
    <3>2. \A d \in E : contracts'[d] = contracts[d]
      BY <1>2, <2>1
    <3>3. \A d \in E : transitions'[d] = transitions[d] /\ transitions[d] \in Nat
      BY <3>1, <3>2 DEF transitions
    <3> QED BY <1>2, <3>3 DEF transitions
  <2>3. IsFiniteSet(E)
    BY ContractsAssumption, FS_Subset
  <2>4. SumOver(transitions', E \cup {c}) = SumOver(transitions', E) + 0
    <3>1. \A d \in E \cup {c} : transitions'[d] \in Nat
      BY <2>2
    <3> DEFINE t == transitions'
    <3>2. SumOver(t, E \cup {c}) = SumOver(t, E) + t[c]
      <4> HIDE DEF E, t
      <4> QED BY <2>1, <2>3, <3>1, SumAdds DEF t
    <3> HIDE DEF E
    <3> QED BY <2>2, <3>2
  <2>5. SumOver(transitions', E) = SumOver(transitions, E)
    <3> HIDE DEF E
    <3> QED BY <2>2, SumAgrees
  <2>6. SumOver(transitions, E) \in Nat
    <3> HIDE DEF E
    <3> QED BY <2>2, <2>3, SumIsNatural
  <2>7. Cardinality(processed') = SumOver(transitions, E)
    BY <1>1 DEF Books, OneReferencePerTransition
  <2>8. OneReferencePerTransition' <=>
          Cardinality(processed')
            = SumOver(transitions', {d \in Contracts : contractExists(d)'})
    BY DEF OneReferencePerTransition, SumOver, Units
  <2> HIDE DEF E, new
  <2> QED BY <2>1, <2>4, <2>5, <2>6, <2>7, <2>8
<1> QED BY <1>1, <1>4, <1>5, <1>6 DEF Books

(* A bank that is added holds no contract yet; every other step leaves     *)
(* contracts, references and balances alone.                               *)
LEMMA ElsewhereKeepsBooks ==
  ASSUME IInv, Books, UNCHANGED <<contracts, processed>>,
         \A b \in Banks : added(b) => added(b)' /\ totalBalance'[b] = totalBalance[b],
         \A b \in Banks : totalBalance'[b] \in {0, totalBalance[b]}
  PROVE  Books'
<1>1. BankCoversContracts'
  <2> SUFFICES ASSUME NEW b \in Banks
               PROVE  totalBalance'[b] >= SumOver(totalAmount, Held(b)')
    BY DEF BankCoversContracts
  <2>1. Held(b)' = Held(b)
    BY DEF Held
  <2>2. totalBalance[b] >= SumOver(totalAmount, Held(b))
    BY DEF Books, BankCoversContracts
  <2>3. CASE added(b)
    BY <2>1, <2>2, <2>3
  <2>4. CASE ~added(b)
    <3>1. Held(b) = {}
      BY <2>4 DEF Held, Books, contractExists
    <3>2. SumOver(totalAmount, Held(b)) = 0
      BY <3>1, SumOfNone
    <3> QED BY <2>1, <2>2, <3>2
  <2> QED BY <2>3, <2>4
<1>2. OneReferencePerTransition'
  BY DEF Books, OneReferencePerTransition, SumOver, Units, transitions, contractExists
<1>3. \A c \in Contracts : contractExists(c)' =>
        contracts'[c].version >= 1 /\ added(contracts[c].bankId)'
  <2> SUFFICES ASSUME NEW c \in Contracts, contractExists(c)'
               PROVE  contracts'[c].version >= 1 /\ added(contracts[c].bankId)'
    OBVIOUS
  <2>1. contractExists(c)
    BY DEF contractExists
  <2>2. contracts[c].bankId \in Banks /\ added(contracts[c].bankId)
    BY <2>1 DEF IInv, TypeOK, Books
  <2>3. added(contracts[c].bankId)'
    BY <2>2 DEF added
  <2> QED BY <2>1, <2>3 DEF Books
<1> QED BY <1>1, <1>2, <1>3 DEF Books

LEMMA NextKeepsBooks ==
  ASSUME IInv, Books, [Next]_vars
  PROVE  Books'
<1>1. ASSUME NEW c \in Contracts, createContract(c) PROVE Books'
  BY <1>1, CreateKeepsBooks
<1>2. ASSUME NEW c \in Contracts,
             \/ appealResolution(c)
             \/ \E type \in ResolutionTypes : queueResolution(c, type)
      PROVE  Books'
  BY <1>2, ElsewhereKeepsBooks DEF appealResolution, queueResolution, bankVars, added
<1>3. ASSUME NEW c \in Contracts, NEW ref \in Refs,
             \/ markVerified(c, ref) \/ cancelContract(c, ref)
             \/ raiseDispute(c, ref) \/ executeResolution(c, ref)
      PROVE  Books'
  <2>1. contractExists(c) /\ idempotent(ref) /\ UNCHANGED <<totalBalance, registeredBanks>>
    BY <1>3 DEF markVerified, cancelContract, raiseDispute, executeResolution,
                bankVars, contractExists
  <2>2. CASE markVerified(c, ref)
    <3>1. contracts[c].status # "CREATED"
      BY <2>2 DEF markVerified, _transition, ledgerAllows, AllowedTransitionsV2,
                  AllowedTransitionsV3
    <3> QED BY <2>1, <2>2, <3>1, MoveKeepsBooks DEF markVerified
  <2>3. CASE cancelContract(c, ref)
    BY <2>1, <2>3, MoveKeepsBooks DEF cancelContract
  <2>4. CASE raiseDispute(c, ref)
    <3>1. contracts[c].status # "CREATED"
      BY <2>4 DEF raiseDispute
    <3> QED BY <2>1, <2>4, <3>1, MoveKeepsBooks DEF raiseDispute
  <2>5. CASE executeResolution(c, ref)
    <3>1. contracts[c].status = "DISPUTED"
      BY <2>5 DEF IInv, DisputeMatchesStatus, executeResolution
    <3> QED BY <2>1, <2>5, <3>1, MoveKeepsBooks DEF executeResolution
  <2> QED BY <1>3, <2>2, <2>3, <2>4, <2>5
<1>4. ASSUME NEW c \in Contracts, NEW ref \in Refs, markFunded(c, ref) PROVE Books'
  BY <1>4, FundedKeepsBooks
<1>5. ASSUME NEW c \in Contracts, NEW ref \in Refs, markSettled(c, ref) PROVE Books'
  BY <1>5, SettledKeepsBooks
<1>6. ASSUME NEW b \in Banks, NEW isPrimary \in BOOLEAN, addBankEscrow(b, isPrimary)
      PROVE  Books'
  <2>1. registeredBanks \in Seq(Banks) /\ totalBalance \in [Banks -> Nat]
    BY DEF IInv, TypeOK
  <2>2. /\ ~added(b) /\ totalBalance' = [totalBalance EXCEPT ![b] = 0]
        /\ registeredBanks' = Append(registeredBanks, b)
        /\ UNCHANGED <<contracts, processed>>
    BY <1>6 DEF addBankEscrow
  <2>3. \A x \in Banks : added(x) => added(x)' /\ totalBalance'[x] = totalBalance[x]
    <3>1. ASSUME NEW x \in Banks, added(x)
          PROVE  added(x)' /\ totalBalance'[x] = totalBalance[x]
      <4>1. PICK i \in DOMAIN registeredBanks : registeredBanks[i] = x
        BY <3>1 DEF added
      <4>2. i \in DOMAIN registeredBanks' /\ registeredBanks'[i] = x
        BY <2>1, <2>2, <4>1
      <4>3. totalBalance'[x] = totalBalance[x]
        BY <2>1, <2>2, <3>1
      <4> QED BY <4>2, <4>3 DEF added
    <3> QED BY <3>1
  <2>4. \A x \in Banks : totalBalance'[x] \in {0, totalBalance[x]}
    BY <2>1, <2>2
  <2> QED BY <2>2, <2>3, <2>4, ElsewhereKeepsBooks
<1>7. CASE \/ \E b \in Banks : freezeBankEscrow(b) \/ unfreezeBankEscrow(b)
           \/ pause \/ unpause \/ Tick \/ UNCHANGED vars
  BY <1>7, ElsewhereKeepsBooks
     DEF freezeBankEscrow, unfreezeBankEscrow, pause, unpause, Tick, vars, bankVars, added
<1> QED BY <1>1, <1>2, <1>3, <1>4, <1>5, <1>6, <1>7 DEF Next
-----------------------------------------------------------------------------
(* Types, the dispute record and the status of its contract, the time lock *)
(* of a queued resolution and the bank left unfrozen: in every state.      *)
THEOREM InvariantHolds == Spec => []IInv
<1>1. IInv /\ [Next]_vars => IInv'
  BY NextKeeps
<1> QED BY InitIInv, <1>1, PTL DEF Spec

(* A dispute is active exactly while its contract is DISPUTED.             *)
THEOREM DisputesMatch == Spec => []DisputeMatchesStatus
<1>1. IInv => DisputeMatchesStatus
  BY DEF IInv
<1> QED BY InvariantHolds, <1>1, PTL

(* A queued resolution belongs to the dispute that is open.                *)
THEOREM ResolutionsAreLocked == Spec => []ResolutionTimelock
<1>1. IInv => ResolutionTimelock
  BY DEF IInv
<1> QED BY InvariantHolds, <1>1, PTL

(* Freezing never takes the last bank away.                                *)
THEOREM BanksStayAvailable == Spec => []SomeBankAvailable
<1>1. IInv => SomeBankAvailable
  BY DEF IInv
<1> QED BY InvariantHolds, <1>1, PTL

(* Settled and cancelled contracts stay so.                                *)
THEOREM TerminalStatesLast == Spec => TerminalIsFinal
<1>1. IInv /\ [Next]_vars => [terminalStays]_vars
  BY NextKeeps
<1> QED BY InvariantHolds, <1>1, PTL DEF Spec, TerminalIsFinal

(* No resolution is executed before its time.                              *)
THEOREM ResolutionsWait == Spec => ResolutionTakesItsTime
<1>1. IInv /\ [Next]_vars => [waitsOutItsDelay]_vars
  BY NextKeeps
<1> QED BY InvariantHolds, <1>1, PTL DEF Spec, ResolutionTakesItsTime

(* Balances and references: with IInv, in every state.                     *)
THEOREM BooksAreKept == Spec => [](IInv /\ Books)
<1>1. Init => IInv /\ Books
  BY InitIInv, InitBooks
<1>2. IInv /\ Books /\ [Next]_vars => IInv' /\ Books'
  BY NextKeeps, NextKeepsBooks
<1> QED BY <1>1, <1>2, PTL DEF Spec

(* A bank's balance covers all the contracts it holds the money of.        *)
THEOREM BanksCover == Spec => []BankCoversContracts
<1>1. IInv /\ Books => BankCoversContracts
  BY DEF Books
<1> QED BY BooksAreKept, <1>1, PTL

(* There are as many consumed references as changes of status.             *)
THEOREM ReferencesCount == Spec => []OneReferencePerTransition
<1>1. IInv /\ Books => OneReferencePerTransition
  BY DEF Books
<1> QED BY BooksAreKept, <1>1, PTL

(* The checked subtraction of markSettled never reverts: the balance of    *)
(* its bank is at least the amount of any contract that can be settled.    *)
THEOREM SubtractionNeverReverts ==
  Spec => [](\A c \in Contracts :
               contracts[c].status = "VERIFIED"
                 => totalBalance[contracts[c].bankId] >= totalAmount[c])
<1>1. ASSUME IInv, Books, NEW c \in Contracts, contracts[c].status = "VERIFIED"
      PROVE  totalBalance[contracts[c].bankId] >= totalAmount[c]
  <2> DEFINE b == contracts[c].bankId
             H == Held(b)
  <2>1. b \in Banks /\ c \in H
    BY <1>1 DEF IInv, TypeOK, contractExists, Held
  <2>2. /\ IsFiniteSet(H) /\ SumOver(totalAmount, H) \in Nat
        /\ \A d \in H : totalAmount[d] \in Nat
    BY <1>1, HeldFacts DEF IInv, Held
  <2>3. totalBalance[b] >= SumOver(totalAmount, H) /\ totalBalance[b] \in Nat
    BY <1>1, <2>1 DEF Books, BankCoversContracts, IInv, TypeOK
  <2>4. SumOver(totalAmount, {c}) = totalAmount[c]
    <3>1. SumOver(totalAmount, {} \cup {c}) = SumOver(totalAmount, {}) + totalAmount[c]
      BY <2>1, <2>2, FS_EmptySet, SumAdds
    <3>2. {} \cup {c} = {c} /\ totalAmount[c] \in Nat
      BY <2>1, <2>2
    <3> QED BY <3>1, <3>2, SumOfNone
  <2>5. SumOver(totalAmount, {c}) <= SumOver(totalAmount, H)
    <3> HIDE DEF H
    <3>1. {c} \subseteq H
      BY <2>1
    <3> QED BY <2>2, <3>1, SumGrows
  <2>6. totalAmount[c] \in Nat
    BY <2>1, <2>2
  <2> HIDE DEF b, H
  <2> QED BY <2>2, <2>3, <2>4, <2>5, <2>6 DEF b
<1>2. IInv /\ Books =>
        \A c \in Contracts :
          contracts[c].status = "VERIFIED"
            => totalBalance[contracts[c].bankId] >= totalAmount[c]
  BY <1>1
<1> QED BY BooksAreKept, <1>2, PTL
-----------------------------------------------------------------------------
(* The ledger as the backend relies on it.                                 *)

(* A transition with a fresh reference is a move of ContractLife.          *)
LEMMA TransitionMoves ==
  ASSUME TypeOK, NEW c \in Contracts, contractExists(c), NEW ref \in Refs, idempotent(ref),
         NEW to, _transition(c, contracts[c].status, to)
  PROVE  Life!Move(c, ref)
<1>1. /\ <<contracts[c].status, to>> \in AllowedTransitionsV3
      /\ contracts'[c].status = to
      /\ \A d \in Contracts : d # c => contracts'[d] = contracts[d]
  BY TransitionFacts
<1>2. to \in LedgerStatuses /\ ledgerAllows("V3", contracts[c].status, to)
  BY <1>1 DEF AllowedTransitionsV3, AllowedTransitionsV2, LedgerStatuses, ledgerAllows
<1>3. [d \in Contracts |-> contracts[d].status]'
        = [[d \in Contracts |-> contracts[d].status] EXCEPT ![c] = to]
  BY <1>1
<1>4. [d \in Contracts |-> contracts[d].status][c] = contracts[c].status
  OBVIOUS
<1>5. ref \notin processed /\ processed' = processed \cup {ref}
  BY DEF idempotent
<1>6. to \in Life!LedgerStatuses /\ Life!ledgerAllows("V3", contracts[c].status, to)
  BY <1>2 DEF ledgerAllows, LedgerStatuses, AllowedTransitionsV2, AllowedTransitionsV3,
              Life!ledgerAllows, Life!LedgerStatuses, Life!AllowedTransitionsV2,
              Life!AllowedTransitionsV3
<1>7. Life!ledgerAllows("V3", [d \in Contracts |-> contracts[d].status][c], to)
  BY <1>4, <1>6
<1> QED BY <1>3, <1>5, <1>6, <1>7, Zenon DEF Life!Move

LEMMA NextLives ==
  ASSUME IInv, [Next]_vars
  PROVE  [Life!Next]_(Life!vars)
<1>1. TypeOK
  BY DEF IInv
<1>2. ASSUME NEW c \in Contracts, createContract(c) PROVE Life!Next
  <2>1. Life!Register(c)
    BY <1>1, <1>2 DEF createContract, contractExists, Life!Register, TypeOK
  <2> QED BY <2>1 DEF Life!Next
<1>3. ASSUME NEW c \in Contracts, NEW ref \in Refs,
             \/ markFunded(c, ref) \/ markVerified(c, ref) \/ markSettled(c, ref)
             \/ cancelContract(c, ref) \/ raiseDispute(c, ref) \/ executeResolution(c, ref)
      PROVE  Life!Next
  <2>1. contractExists(c) /\ idempotent(ref)
    BY <1>3 DEF markFunded, markVerified, markSettled, cancelContract, raiseDispute,
                executeResolution, contractExists
  <2>2. \E to : _transition(c, contracts[c].status, to)
    <3>1. CASE executeResolution(c, ref)
      <4>1. contracts[c].status = "DISPUTED"
        BY <3>1 DEF IInv, DisputeMatchesStatus, executeResolution
      <4> QED BY <3>1, <4>1 DEF executeResolution
    <3>2. CASE ~executeResolution(c, ref)
      BY <1>3, <3>2 DEF markFunded, markVerified, markSettled, cancelContract, raiseDispute
    <3> QED BY <3>1, <3>2
  <2>3. Life!Move(c, ref)
    BY <1>1, <2>1, <2>2, TransitionMoves
  <2> QED BY <2>3 DEF Life!Next
<1>4. ASSUME UNCHANGED <<contracts, processed>> PROVE UNCHANGED Life!vars
  BY <1>4 DEF Life!vars
<1>5. CASE UNCHANGED <<contracts, processed>>
  BY <1>4, <1>5
<1> QED
  BY <1>2, <1>3, <1>5
  DEF Next, vars, bankVars, appealResolution, queueResolution, addBankEscrow,
      freezeBankEscrow, unfreezeBankEscrow, pause, unpause, Tick

(* AmantraLedgerV5 implements the ledger SettlementFlow is written for.    *)
THEOREM ImplementsContractLife == Spec => KeepsToMatrix
<1>1. Init => Life!Init
  BY DEF Init, NoContract, Life!Init
<1>2. IInv /\ [Next]_vars => [Life!Next]_(Life!vars)
  BY NextLives
<1> QED BY <1>1, <1>2, InvariantHolds, PTL DEF Spec, KeepsToMatrix, Life!Spec
=============================================================================
