--------------------------- MODULE Governance_proofs ---------------------------
(***************************************************************************)
(* Theorems about LedgerGovernance, for all roles, addresses, time locks   *)
(* and bounds; then about the continuity service over it: its calls are    *)
(* transactions the ledger allows, and its heartbeat is often enough, for  *)
(* every threshold and interval that leave it the margin.                  *)
(***************************************************************************)
EXTENDS ContinuityProperties, SequenceTheorems, TLAPS

LEMMA BackupIsAnAddress == backup \in Addresses
BY RoleAssumption, HolderAssumption DEF backup

LEMMA InitIInv == Init => IInv
<1> SUFFICES ASSUME Init PROVE IInv
  OBVIOUS
<1>1. TypeOK
  <2>1. multisigAddress \in [Roles -> Addresses]
    BY HolderAssumption DEF Init
  <2>2. addressRoles \in [Addresses -> [Roles -> Nat]]
    BY DEF Init
  <2>3. << >> \in Seq(Successions) /\ << >> \in Seq(Upgrades)
    OBVIOUS
  <2>4. lastActivityAt \in [Roles -> Nat] /\ now \in Nat
    BY DEF Init
  <2> QED BY <2>1, <2>2, <2>3, <2>4 DEF Init, TypeOK
<1>2. HoldersListed
  <2> SUFFICES ASSUME NEW r \in Roles
               PROVE  addressRoles[multisigAddress[r]][r] > 0
    BY DEF HoldersListed
  <2>1. initialHolder[r] \in Addresses
    BY HolderAssumption
  <2>2. addressRoles[initialHolder[r]][r] = 1
    BY <2>1 DEF Init
  <2> QED BY <2>2 DEF Init
<1>3. SuccessionsDecided /\ UpgradesNoticed /\ proposedInThePast
  <2>1. DOMAIN << >> = {}
    OBVIOUS
  <2>2. DOMAIN successionProposals = {} /\ DOMAIN upgradeProposals = {}
    BY <2>1 DEF Init
  <2> QED BY <2>2 DEF SuccessionsDecided, UpgradesNoticed, proposedInThePast
<1> QED BY <1>1, <1>2, <1>3 DEF IInv
-----------------------------------------------------------------------------
(* What a step keeps by leaving one part of the state alone.               *)

LEMMA RegistryKept ==
  ASSUME HoldersListed, UNCHANGED registry
  PROVE  HoldersListed' /\ changesHands
BY DEF HoldersListed, changesHands, registry, backup

LEMMA SuccessionsKept ==
  ASSUME SuccessionsDecided, UNCHANGED successionProposals
  PROVE  SuccessionsDecided'
BY DEF SuccessionsDecided

LEMMA UpgradesKept ==
  ASSUME TypeOK, UpgradesNoticed, proposedInThePast, UNCHANGED upgradeProposals,
         now' \in Nat, now' >= now
  PROVE  UpgradesNoticed' /\ proposedInThePast' /\ upgradesInTime
<1>1. UpgradesNoticed' /\ upgradesInTime
  BY DEF UpgradesNoticed, upgradesInTime
<1>2. proposedInThePast'
  <2>1. \A p \in DOMAIN upgradeProposals : upgradeProposals[p].proposedAt \in Nat
    <3>1. \A p \in DOMAIN upgradeProposals : upgradeProposals[p] \in Upgrades
      BY DEF TypeOK
    <3> QED BY <3>1 DEF Upgrades
  <2> QED BY <2>1 DEF proposedInThePast, TypeOK
<1> QED BY <1>1, <1>2

LEMMA UpgradesStill ==
  ASSUME IInv, UNCHANGED <<upgradeProposals, now>>
  PROVE  UpgradesNoticed' /\ proposedInThePast' /\ upgradesInTime
<1>1. now' \in Nat /\ now' >= now
  BY DEF IInv, TypeOK
<1> QED BY <1>1, UpgradesKept DEF IInv

LEMMA ActivityTyped ==
  ASSUME TypeOK, NEW role \in Roles, _recordActivity(role)
  PROVE  lastActivityAt' \in [Roles -> Nat]
BY DEF TypeOK, _recordActivity

GoodStep == IInv' /\ changesHands /\ upgradesInTime

LEMMA QuietStep ==
  ASSUME IInv, UNCHANGED <<registry, successionProposals, upgradeProposals>>,
         lastActivityAt' \in [Roles -> Nat], systemMode' \in {"NORMAL", "RECOVERY"},
         now' \in Nat, now' >= now
  PROVE  GoodStep
<1>1. TypeOK'
  BY DEF IInv, TypeOK, registry
<1> QED
  BY <1>1, RegistryKept, SuccessionsKept, UpgradesKept DEF IInv, GoodStep

LEMMA DeadManSwitchStep ==
  ASSUME IInv, NEW role \in Roles, triggerDeadManSwitch(role)
  PROVE  GoodStep
<1> USE DEF triggerDeadManSwitch
<1>1. _getBackupFor(role) \in Addresses
  BY BackupIsAnAddress, RoleAssumption DEF IInv, TypeOK, _getBackupFor
<1>2. TypeOK'
  <2>1. multisigAddress' \in [Roles -> Addresses]
    BY <1>1 DEF IInv, TypeOK
  <2> QED BY <2>1, ActivityTyped DEF IInv, TypeOK
<1>3. \A r \in Roles : multisigAddress'[r] =
        IF r = role THEN _getBackupFor(role) ELSE multisigAddress[r]
  BY DEF IInv, TypeOK
<1>4. HoldersListed'
  <2> SUFFICES ASSUME NEW r \in Roles \ {"EMERGENCY"}
               PROVE  (multisigAddress[r] = backup
                         \/ addressRoles[multisigAddress[r]][r] > 0)'
    BY DEF HoldersListed
  <2>1. CASE r = role /\ role # "BACKUP"
    BY <2>1, <1>3, RoleAssumption DEF _getBackupFor, MultisigRole, backup
  <2>2. CASE r # role \/ role = "BACKUP"
    <3>1. multisigAddress'[r] = multisigAddress[r]
      BY <2>2, <1>3 DEF _getBackupFor
    <3> QED BY <3>1 DEF IInv, HoldersListed, backup
  <2> QED BY <2>1, <2>2
<1>5. changesHands
  <2>1. silent(role)
    BY TimeAssumption DEF silent, IInv, TypeOK
  <2> QED BY <2>1, <1>3 DEF changesHands
<1> QED
  BY <1>2, <1>4, <1>5, SuccessionsKept, UpgradesStill DEF IInv, GoodStep
-----------------------------------------------------------------------------
(* Succession.                                                             *)

LEMMA ProposeRoleSuccessionStep ==
  ASSUME IInv, NEW role \in Roles, NEW a \in Addresses, proposeRoleSuccession(role, a)
  PROVE  GoodStep
<1> DEFINE new == [role |-> role, proposedSuccessor |-> a,
             executeAfter |-> now + SUCCESSION_TIMELOCK, hisbahApproved |-> FALSE,
             executed |-> FALSE, cancelled |-> FALSE]
<1>1. new \in Successions /\ ~new.executed
  BY TimeAssumption DEF IInv, TypeOK, Successions
<1>2. successionProposals' = Append(successionProposals, new)
  BY DEF proposeRoleSuccession
<1> HIDE DEF new
<1>3. successionProposals' \in Seq(Successions)
  BY <1>1, <1>2 DEF IInv, TypeOK
<1>4. TypeOK'
  BY <1>3 DEF IInv, TypeOK, proposeRoleSuccession, registry
<1>5. SuccessionsDecided'
  <2> SUFFICES ASSUME NEW p \in DOMAIN successionProposals',
                      successionProposals'[p].executed
               PROVE  successionProposals'[p].hisbahApproved
                        /\ ~successionProposals'[p].cancelled
    BY DEF SuccessionsDecided
  <2>1. \/ p \in DOMAIN successionProposals
             /\ successionProposals'[p] = successionProposals[p]
        \/ successionProposals'[p] = new
    BY <1>1, <1>2 DEF IInv, TypeOK
  <2> QED BY <2>1, <1>1 DEF IInv, SuccessionsDecided
<1> QED
  BY <1>4, <1>5, RegistryKept, UpgradesStill
     DEF IInv, GoodStep, proposeRoleSuccession

(* A step that rewrites one proposal.                                      *)
LEMMA SuccessionRewritten ==
  ASSUME IInv, NEW p \in DOMAIN successionProposals, NEW q \in Successions,
         successionProposals' = [successionProposals EXCEPT ![p] = q],
         q.executed => q.hisbahApproved /\ ~q.cancelled
  PROVE  successionProposals' \in Seq(Successions) /\ SuccessionsDecided'
<1>1. successionProposals \in Seq(Successions)
  BY DEF IInv, TypeOK
<1>2. successionProposals' \in Seq(Successions)
  BY <1>1
<1>3. \A i \in DOMAIN successionProposals' :
        /\ i \in DOMAIN successionProposals
        /\ successionProposals'[i] = IF i = p THEN q ELSE successionProposals[i]
  BY <1>1
<1>4. SuccessionsDecided'
  BY <1>3 DEF IInv, SuccessionsDecided
<1> QED BY <1>2, <1>4

LEMMA ApproveSuccessionStep ==
  ASSUME IInv, NEW p \in DOMAIN successionProposals, approveSuccession(p)
  PROVE  GoodStep
<1> DEFINE q == [successionProposals[p] EXCEPT !.hisbahApproved = TRUE]
<1>1. successionProposals[p] \in Successions
  BY DEF IInv, TypeOK
<1>2. q \in Successions /\ ~q.executed
  BY <1>1 DEF Successions, approveSuccession
<1>3. successionProposals' = [successionProposals EXCEPT ![p] = q]
  BY DEF approveSuccession
<1> HIDE DEF q
<1>4. successionProposals' \in Seq(Successions) /\ SuccessionsDecided'
  BY <1>2, <1>3, SuccessionRewritten
<1>5. TypeOK'
  BY <1>4, ActivityTyped, RoleAssumption DEF IInv, TypeOK, approveSuccession, registry
<1> QED
  BY <1>4, <1>5, RegistryKept, UpgradesStill DEF IInv, GoodStep, approveSuccession

LEMMA CancelSuccessionStep ==
  ASSUME IInv, NEW p \in DOMAIN successionProposals, cancelSuccession(p)
  PROVE  GoodStep
<1> DEFINE q == [successionProposals[p] EXCEPT !.cancelled = TRUE]
<1>1. successionProposals[p] \in Successions
  BY DEF IInv, TypeOK
<1>2. q \in Successions /\ ~q.executed
  BY <1>1 DEF Successions, cancelSuccession
<1>3. successionProposals' = [successionProposals EXCEPT ![p] = q]
  BY DEF cancelSuccession
<1> HIDE DEF q
<1>4. successionProposals' \in Seq(Successions) /\ SuccessionsDecided'
  BY <1>2, <1>3, SuccessionRewritten
<1>5. TypeOK'
  BY <1>4, ActivityTyped, RoleAssumption DEF IInv, TypeOK, cancelSuccession, registry
<1> QED
  BY <1>4, <1>5, RegistryKept, UpgradesStill DEF IInv, GoodStep, cancelSuccession

(* The role moves and no listing of another role changes.                  *)
LEMMA MoveRoleFacts ==
  ASSUME TypeOK, NEW role \in Roles, NEW old \in Addresses, NEW new \in Addresses
  PROVE  /\ moveRole(role, old, new) \in [Addresses -> [Roles -> Nat]]
         /\ moveRole(role, old, new)[new][role] > 0
         /\ \A a \in Addresses, r \in Roles \ {role} :
              moveRole(role, old, new)[a][r] = addressRoles[a][r]
<1> DEFINE removed == [addressRoles EXCEPT
             ![old][role] = IF @ > 0 THEN @ - 1 ELSE 0]
<1>1. addressRoles \in [Addresses -> [Roles -> Nat]]
  BY DEF TypeOK
<1>2. addressRoles[old] \in [Roles -> Nat] /\ addressRoles[old][role] \in Nat
  BY <1>1
<1>3. removed \in [Addresses -> [Roles -> Nat]]
  BY <1>1, <1>2
<1>4. \A a \in Addresses, r \in Roles \ {role} : removed[a][r] = addressRoles[a][r]
  BY <1>1
<1>5. moveRole(role, old, new) = [removed EXCEPT ![new][role] = @ + 1]
  BY DEF moveRole
<1> HIDE DEF removed
<1>6. removed[new] \in [Roles -> Nat] /\ removed[new][role] \in Nat
  BY <1>3
<1>7. [removed EXCEPT ![new][role] = @ + 1] \in [Addresses -> [Roles -> Nat]]
  BY <1>3, <1>6
<1>8. [removed EXCEPT ![new][role] = @ + 1][new][role] > 0
  BY <1>3, <1>6
<1>9. \A a \in Addresses, r \in Roles \ {role} :
        [removed EXCEPT ![new][role] = @ + 1][a][r] = removed[a][r]
  BY <1>3
<1> QED BY <1>4, <1>5, <1>7, <1>8, <1>9

LEMMA ExecuteRoleSuccessionStep ==
  ASSUME IInv, NEW p \in DOMAIN successionProposals, executeRoleSuccession(p)
  PROVE  GoodStep
<1> DEFINE role == successionProposals[p].role
           new == successionProposals[p].proposedSuccessor
           q == [successionProposals[p] EXCEPT !.executed = TRUE]
<1>1. successionProposals[p] \in Successions
  BY DEF IInv, TypeOK
<1>2. role \in Roles /\ new \in Addresses /\ multisigAddress[role] \in Addresses
  BY <1>1 DEF Successions, IInv, TypeOK
<1>3. q \in Successions /\ q.hisbahApproved /\ ~q.cancelled
  BY <1>1 DEF Successions, executeRoleSuccession
<1>4. /\ successionProposals' = [successionProposals EXCEPT ![p] = q]
      /\ multisigAddress' = [multisigAddress EXCEPT ![role] = new]
      /\ addressRoles' = moveRole(role, multisigAddress[role], new)
      /\ _recordActivity(role)
  BY DEF executeRoleSuccession
<1>5. /\ successionProposals[p].hisbahApproved
      /\ ~successionProposals[p].cancelled
      /\ ~successionProposals[p].executed
  BY DEF executeRoleSuccession
<1>6. now >= successionProposals[p].executeAfter
  BY DEF executeRoleSuccession, afterTimelock
<1>7. changesHands
  <2> SUFFICES ASSUME NEW r \in Roles, multisigAddress'[r] # multisigAddress[r]
               PROVE  succeeded(r)
    BY DEF changesHands
  <2>1. r = role /\ multisigAddress'[r] = new
    BY <1>2, <1>4 DEF IInv, TypeOK
  <2> QED BY <2>1, <1>5, <1>6 DEF succeeded
<1> HIDE DEF q
<1>8. successionProposals' \in Seq(Successions) /\ SuccessionsDecided'
  BY <1>3, <1>4, SuccessionRewritten
<1>9. lastActivityAt' \in [Roles -> Nat]
  BY <1>2, <1>4, ActivityTyped DEF IInv
<1> HIDE DEF role, new
<1>10. /\ addressRoles' \in [Addresses -> [Roles -> Nat]]
       /\ addressRoles'[new][role] > 0
       /\ \A a \in Addresses, r \in Roles \ {role} :
            addressRoles'[a][r] = addressRoles[a][r]
  BY <1>2, <1>4, MoveRoleFacts DEF IInv
<1>11. multisigAddress' \in [Roles -> Addresses]
  BY <1>2, <1>4 DEF IInv, TypeOK
<1>12. TypeOK'
  BY <1>8, <1>9, <1>10, <1>11 DEF IInv, TypeOK, executeRoleSuccession
<1>13. HoldersListed'
  <2> SUFFICES ASSUME NEW r \in Roles \ {"EMERGENCY"}
               PROVE  (multisigAddress[r] = backup
                         \/ addressRoles[multisigAddress[r]][r] > 0)'
    BY DEF HoldersListed
  <2>1. CASE r = role
    BY <2>1, <1>2, <1>4, <1>10 DEF IInv, TypeOK
  <2>2. CASE r # role
    <3>1. multisigAddress'[r] = multisigAddress[r] /\ multisigAddress[r] \in Addresses
      BY <2>2, <1>2, <1>4 DEF IInv, TypeOK
    <3>2. addressRoles'[multisigAddress[r]][r] = addressRoles[multisigAddress[r]][r]
      BY <3>1, <2>2, <1>10
    <3> QED BY <3>1, <3>2 DEF IInv, HoldersListed, backup
  <2> QED BY <2>1, <2>2
<1> QED
  BY <1>7, <1>8, <1>12, <1>13, UpgradesStill DEF IInv, GoodStep, executeRoleSuccession
-----------------------------------------------------------------------------
(* Upgrades.                                                               *)

noticed(q) ==
  /\ q.announcedPublicly => q.hisbahApproved
  /\ q.executeAfter >= q.proposedAt + UPGRADE_TIMELOCK
  /\ q.proposedAt <= now

LEMMA ProposeUpgradeStep ==
  ASSUME IInv, proposeUpgrade
  PROVE  GoodStep
<1> DEFINE new == [proposedAt |-> now, executeAfter |-> now + UPGRADE_TIMELOCK,
             hisbahApproved |-> FALSE, announcedPublicly |-> FALSE,
             executed |-> FALSE, cancelled |-> FALSE]
<1>1. new \in Upgrades
  BY TimeAssumption DEF IInv, TypeOK, Upgrades
<1>2. noticed(new)
  BY TimeAssumption DEF IInv, TypeOK, noticed
<1>3. upgradeProposals' = Append(upgradeProposals, new)
  BY DEF proposeUpgrade
<1> HIDE DEF new
<1>4. upgradeProposals' \in Seq(Upgrades)
  BY <1>1, <1>3 DEF IInv, TypeOK
<1>5. TypeOK'
  BY <1>4, ActivityTyped, RoleAssumption DEF IInv, TypeOK, proposeUpgrade, registry
<1>6. \A p \in DOMAIN upgradeProposals' :
        \/ p \in DOMAIN upgradeProposals /\ upgradeProposals'[p] = upgradeProposals[p]
        \/ upgradeProposals'[p] = new
  BY <1>1, <1>3 DEF IInv, TypeOK
<1>7. UpgradesNoticed' /\ proposedInThePast'
  <2>1. now' = now
    BY DEF proposeUpgrade
  <2> QED
    BY <1>2, <1>6, <2>1 DEF IInv, UpgradesNoticed, proposedInThePast, noticed
<1>8. upgradesInTime
  <2>1. \A p \in DOMAIN upgradeProposals : upgradeProposals'[p] = upgradeProposals[p]
    BY <1>1, <1>3 DEF IInv, TypeOK
  <2> QED BY <2>1 DEF upgradesInTime
<1> QED
  BY <1>5, <1>7, <1>8, RegistryKept, SuccessionsKept DEF IInv, GoodStep, proposeUpgrade

(* A step that rewrites one proposal and executes it only in time.         *)
LEMMA UpgradeRewritten ==
  ASSUME IInv, NEW p \in DOMAIN upgradeProposals, NEW q \in Upgrades,
         upgradeProposals' = [upgradeProposals EXCEPT ![p] = q], noticed(q),
         ~upgradeProposals[p].executed /\ q.executed =>
           /\ upgradeProposals[p].hisbahApproved
           /\ now >= upgradeProposals[p].proposedAt + UPGRADE_TIMELOCK,
         UNCHANGED <<registry, successionProposals, systemMode, now>>,
         lastActivityAt' \in [Roles -> Nat]
  PROVE  GoodStep
<1>1. upgradeProposals \in Seq(Upgrades)
  BY DEF IInv, TypeOK
<1>2. upgradeProposals' \in Seq(Upgrades)
  BY <1>1
<1>3. \A i \in DOMAIN upgradeProposals' :
        /\ i \in DOMAIN upgradeProposals
        /\ upgradeProposals'[i] = IF i = p THEN q ELSE upgradeProposals[i]
  BY <1>1
<1>4. DOMAIN upgradeProposals' = DOMAIN upgradeProposals
  BY <1>1
<1>5. UpgradesNoticed' /\ proposedInThePast'
  BY <1>3 DEF IInv, UpgradesNoticed, proposedInThePast, noticed
<1>6. upgradesInTime
  BY <1>3, <1>4 DEF upgradesInTime
<1>7. TypeOK'
  BY <1>2 DEF IInv, TypeOK, registry
<1> QED BY <1>5, <1>6, <1>7, RegistryKept, SuccessionsKept DEF IInv, GoodStep

LEMMA ProposalNoticed ==
  ASSUME IInv, NEW p \in DOMAIN upgradeProposals
  PROVE  upgradeProposals[p] \in Upgrades /\ noticed(upgradeProposals[p])
BY DEF IInv, TypeOK, UpgradesNoticed, proposedInThePast, noticed

LEMMA ApproveUpgradeStep ==
  ASSUME IInv, NEW p \in DOMAIN upgradeProposals, approveUpgrade(p)
  PROVE  GoodStep
<1> DEFINE q == [upgradeProposals[p] EXCEPT !.hisbahApproved = TRUE]
<1>1. upgradeProposals[p] \in Upgrades /\ noticed(upgradeProposals[p])
  BY ProposalNoticed
<1>2. q \in Upgrades /\ ~q.executed
  BY <1>1 DEF Upgrades, approveUpgrade
<1>3. noticed(q)
  BY <1>1 DEF Upgrades, noticed
<1>4. upgradeProposals' = [upgradeProposals EXCEPT ![p] = q]
  BY DEF approveUpgrade
<1>5. lastActivityAt' \in [Roles -> Nat]
  BY ActivityTyped, RoleAssumption DEF IInv, approveUpgrade
<1> HIDE DEF q
<1> QED BY <1>2, <1>3, <1>4, <1>5, UpgradeRewritten DEF approveUpgrade

LEMMA AnnounceUpgradeStep ==
  ASSUME IInv, NEW p \in DOMAIN upgradeProposals, announceUpgradePublicly(p)
  PROVE  GoodStep
<1> DEFINE q == [upgradeProposals[p] EXCEPT
             !.announcedPublicly = TRUE, !.executeAfter = now + UPGRADE_TIMELOCK]
<1>1. /\ upgradeProposals[p] \in Upgrades /\ upgradeProposals[p].hisbahApproved
      /\ noticed(upgradeProposals[p])
  BY ProposalNoticed DEF announceUpgradePublicly
<1>2. /\ q.executed = upgradeProposals[p].executed
      /\ q.hisbahApproved = upgradeProposals[p].hisbahApproved
      /\ q.proposedAt = upgradeProposals[p].proposedAt
      /\ q.executeAfter = now + UPGRADE_TIMELOCK
  BY <1>1 DEF Upgrades
<1>3. q \in Upgrades
  <2>1. now + UPGRADE_TIMELOCK \in Nat
    BY TimeAssumption DEF IInv, TypeOK
  <2> QED BY <1>1, <2>1 DEF Upgrades
<1>4. noticed(q)
  <2>1. upgradeProposals[p].proposedAt \in Nat /\ now \in Nat
    BY <1>1 DEF Upgrades, IInv, TypeOK
  <2>2. upgradeProposals[p].proposedAt <= now
    BY <1>1 DEF noticed
  <2>3. now + UPGRADE_TIMELOCK >= upgradeProposals[p].proposedAt + UPGRADE_TIMELOCK
    BY <2>1, <2>2, TimeAssumption
  <2> HIDE DEF q
  <2> QED BY <1>1, <1>2, <2>2, <2>3 DEF noticed
<1>5. upgradeProposals' = [upgradeProposals EXCEPT ![p] = q]
  BY DEF announceUpgradePublicly
<1>6. lastActivityAt' \in [Roles -> Nat]
  BY ActivityTyped, RoleAssumption DEF IInv, announceUpgradePublicly
<1> HIDE DEF q
<1> QED BY <1>2, <1>3, <1>4, <1>5, <1>6, UpgradeRewritten DEF announceUpgradePublicly

LEMMA ExecuteUpgradeStep ==
  ASSUME IInv, NEW p \in DOMAIN upgradeProposals, executeUpgrade(p)
  PROVE  GoodStep
<1> DEFINE q == [upgradeProposals[p] EXCEPT !.executed = TRUE]
<1>1. upgradeProposals[p] \in Upgrades /\ noticed(upgradeProposals[p])
  BY ProposalNoticed
<1>2. q \in Upgrades
  BY <1>1 DEF Upgrades
<1>3. noticed(q)
  BY <1>1 DEF Upgrades, noticed
<1>4. upgradeProposals' = [upgradeProposals EXCEPT ![p] = q]
  BY DEF executeUpgrade
<1>5. lastActivityAt' \in [Roles -> Nat]
  BY ActivityTyped, RoleAssumption DEF IInv, executeUpgrade
<1>6. upgradeProposals[p].hisbahApproved
  BY DEF executeUpgrade
<1>7. now >= upgradeProposals[p].proposedAt + UPGRADE_TIMELOCK
  <2>1. now >= upgradeProposals[p].executeAfter
    BY DEF executeUpgrade, afterTimelock
  <2>2. upgradeProposals[p].executeAfter
          >= upgradeProposals[p].proposedAt + UPGRADE_TIMELOCK
    BY <1>1 DEF noticed
  <2> QED BY <2>1, <2>2, <1>1, TimeAssumption DEF Upgrades, IInv, TypeOK
<1> HIDE DEF q
<1> QED BY <1>2, <1>3, <1>4, <1>5, <1>6, <1>7, UpgradeRewritten DEF executeUpgrade

LEMMA CancelUpgradeStep ==
  ASSUME IInv, NEW p \in DOMAIN upgradeProposals, cancelUpgrade(p)
  PROVE  GoodStep
<1> DEFINE q == [upgradeProposals[p] EXCEPT !.cancelled = TRUE]
<1>1. upgradeProposals[p] \in Upgrades /\ noticed(upgradeProposals[p])
  BY ProposalNoticed
<1>2. q \in Upgrades /\ ~q.executed
  BY <1>1 DEF Upgrades, cancelUpgrade
<1>3. noticed(q)
  BY <1>1 DEF Upgrades, noticed
<1>4. upgradeProposals' = [upgradeProposals EXCEPT ![p] = q]
  BY DEF cancelUpgrade
<1>5. lastActivityAt' \in [Roles -> Nat]
  BY ActivityTyped, RoleAssumption DEF IInv, cancelUpgrade
<1> HIDE DEF q
<1> QED BY <1>2, <1>3, <1>4, <1>5, UpgradeRewritten DEF cancelUpgrade
-----------------------------------------------------------------------------
(* Every step, and the theorems.                                           *)

LEMMA EveryStep ==
  ASSUME IInv, [Next]_vars
  PROVE  GoodStep
<1>1. ASSUME NEW role \in Roles, sendHeartbeat(role)
      PROVE  GoodStep
  <2>1. lastActivityAt' \in [Roles -> Nat]
    BY <1>1, ActivityTyped DEF IInv, sendHeartbeat
  <2> QED BY <1>1, <2>1, QuietStep DEF IInv, TypeOK, sendHeartbeat
<1>2. ASSUME activateRecoveryMode
      PROVE  GoodStep
  <2>1. lastActivityAt' \in [Roles -> Nat]
    BY <1>2, ActivityTyped, RoleAssumption DEF IInv, activateRecoveryMode
  <2>2. systemMode' \in {"NORMAL", "RECOVERY"} /\ now' \in Nat /\ now' >= now
    BY <1>2 DEF IInv, TypeOK, activateRecoveryMode
  <2> QED BY <1>2, <2>1, <2>2, QuietStep DEF activateRecoveryMode
<1>3. ASSUME deactivateRecoveryMode
      PROVE  GoodStep
  <2>1. lastActivityAt' \in [Roles -> Nat]
    BY <1>3, ActivityTyped, RoleAssumption DEF IInv, deactivateRecoveryMode
  <2>2. systemMode' \in {"NORMAL", "RECOVERY"} /\ now' \in Nat /\ now' >= now
    BY <1>3 DEF IInv, TypeOK, deactivateRecoveryMode
  <2> QED BY <1>3, <2>1, <2>2, QuietStep DEF deactivateRecoveryMode
<1>4. ASSUME Tick
      PROVE  GoodStep
  <2>1. /\ lastActivityAt' \in [Roles -> Nat]
        /\ now' \in Nat /\ now' >= now
        /\ systemMode' \in {"NORMAL", "RECOVERY"}
    BY <1>4 DEF IInv, TypeOK, Tick
  <2> QED BY <1>4, <2>1, QuietStep DEF Tick
<1>5. ASSUME UNCHANGED vars
      PROVE  GoodStep
  <2>1. /\ lastActivityAt' \in [Roles -> Nat]
        /\ now' \in Nat /\ now' >= now
        /\ systemMode' \in {"NORMAL", "RECOVERY"}
    BY <1>5 DEF IInv, TypeOK, vars
  <2> QED BY <1>5, <2>1, QuietStep DEF vars
<1>6. ASSUME Succession
      PROVE  GoodStep
  BY <1>6, ProposeRoleSuccessionStep, ApproveSuccessionStep, CancelSuccessionStep,
     ExecuteRoleSuccessionStep DEF Succession
<1>7. ASSUME Upgrade
      PROVE  GoodStep
  BY <1>7, ProposeUpgradeStep, ApproveUpgradeStep, AnnounceUpgradeStep,
     ExecuteUpgradeStep, CancelUpgradeStep DEF Upgrade
<1> QED
  BY <1>1, <1>2, <1>3, <1>4, <1>5, <1>6, <1>7, DeadManSwitchStep DEF Next

(* The inductive invariant holds in every behavior.                        *)
THEOREM InvariantHolds == Spec => []IInv
<1>1. IInv /\ [Next]_vars => IInv'
  BY EveryStep DEF GoodStep
<1> QED BY InitIInv, <1>1, PTL DEF Spec

(* Every variable keeps its type; EMERGENCY and DISSOLUTION, declared in   *)
(* SystemMode, are never entered.                                          *)
THEOREM TypesHold == Spec => []TypeOK
<1>1. IInv => TypeOK
  BY DEF IInv
<1> QED BY InvariantHolds, <1>1, PTL

(* Carried out successions had Hisbah's approval and stay uncancelled.     *)
THEOREM SuccessionsAreDecided == Spec => []SuccessionsDecided
<1>1. IInv => SuccessionsDecided
  BY DEF IInv
<1> QED BY InvariantHolds, <1>1, PTL

(* Announced upgrades are approved and wait at least their time lock.      *)
THEOREM UpgradesAreNoticed == Spec => []UpgradesNoticed
<1>1. IInv => UpgradesNoticed
  BY DEF IInv
<1> QED BY InvariantHolds, <1>1, PTL

(* The listing that proposeRoleSuccession consults covers every holder but *)
(* the stored backup.                                                      *)
THEOREM HoldersAreListed == Spec => []HoldersListed
<1>1. IInv => HoldersListed
  BY DEF IInv
<1> QED BY InvariantHolds, <1>1, PTL

(* Roles change hands by succession or by the dead man's switch only.      *)
THEOREM RolesChangeByProcess == Spec => RoleChangesByProcess
<1>1. IInv /\ [Next]_vars => [changesHands]_vars
  BY EveryStep DEF GoodStep
<1> QED BY InvariantHolds, <1>1, PTL DEF Spec, RoleChangesByProcess

(* No proposal is executed unapproved or before its time lock is over.     *)
THEOREM UpgradesTakeTheirTime == Spec => UpgradeTakesItsTime
<1>1. IInv /\ [Next]_vars => [upgradesInTime]_vars
  BY EveryStep DEF GoodStep
<1> QED BY InvariantHolds, <1>1, PTL DEF Spec, UpgradeTakesItsTime
-----------------------------------------------------------------------------
(* The continuity service.                                                *)

LEMMA InitServiceIInv == InitService => ServiceIInv
<1> SUFFICES ASSUME InitService PROVE ServiceIInv
  OBVIOUS
<1> USE DEF InitService, Init
<1>1. callRemembers
  BY AutomationAssumption DEF callRemembers, NoCall
<1>2. runsAreWeekly
  BY DaysAssumption DEF runsAreWeekly
<1>3. runLeavesActivity
  <2>1. lastActivityAt[automatedRole] = 0
    BY AutomationAssumption
  <2> QED BY <2>1, DaysAssumption DEF runLeavesActivity
<1> QED BY <1>1, <1>2, <1>3 DEF ServiceIInv
-----------------------------------------------------------------------------
(* What the ledger's transactions mean to the service.                     *)

(* No transaction takes a proposal out of the list.                        *)
LEMMA ProposalsStay ==
  ASSUME TypeOK, [Next]_vars
  PROVE  DOMAIN successionProposals \subseteq DOMAIN successionProposals'
<1> USE DEF TypeOK
<1>1. ASSUME NEW role \in Roles, NEW a \in Addresses, proposeRoleSuccession(role, a)
      PROVE  DOMAIN successionProposals \subseteq DOMAIN successionProposals'
  BY <1>1 DEF proposeRoleSuccession
<1>2. ASSUME NEW p \in DOMAIN successionProposals,
             approveSuccession(p) \/ cancelSuccession(p) \/ executeRoleSuccession(p)
      PROVE  DOMAIN successionProposals \subseteq DOMAIN successionProposals'
  BY <1>2 DEF approveSuccession, cancelSuccession, executeRoleSuccession
<1>3. Succession => DOMAIN successionProposals \subseteq DOMAIN successionProposals'
  BY <1>1, <1>2 DEF Succession
<1>4. Upgrade => UNCHANGED successionProposals
  BY DEF Upgrade, proposeUpgrade, approveUpgrade, announceUpgradePublicly,
         executeUpgrade, cancelUpgrade
<1>5. ASSUME NEW role \in Roles, sendHeartbeat(role) \/ triggerDeadManSwitch(role)
      PROVE  UNCHANGED successionProposals
  BY <1>5 DEF sendHeartbeat, triggerDeadManSwitch
<1>6. activateRecoveryMode \/ deactivateRecoveryMode \/ Tick \/ UNCHANGED vars
        => UNCHANGED successionProposals
  BY DEF activateRecoveryMode, deactivateRecoveryMode, Tick, vars
<1> QED BY <1>3, <1>4, <1>5, <1>6 DEF Next

(* A role changes hands, by succession or by the switch, only with its     *)
(* activity recorded, and nothing else writes the activity.                *)
LEMMA NewHolderIsFresh ==
  ASSUME TypeOK, [Next]_vars, NEW role \in Roles
  PROVE  \/ lastActivityAt'[role] = now
         \/ /\ lastActivityAt'[role] = lastActivityAt[role]
            /\ multisigAddress'[role] = multisigAddress[role]
<1> DEFINE Goal == \/ lastActivityAt'[role] = now
                   \/ /\ lastActivityAt'[role] = lastActivityAt[role]
                      /\ multisigAddress'[role] = multisigAddress[role]
<1> USE RoleAssumption DEF TypeOK, _recordActivity, registry
<1>1. ASSUME NEW r \in Roles, sendHeartbeat(r) \/ triggerDeadManSwitch(r)
      PROVE  Goal
  <2>1. CASE r = role
    BY <1>1, <2>1 DEF sendHeartbeat, triggerDeadManSwitch
  <2>2. CASE r # role
    BY <1>1, <2>2 DEF sendHeartbeat, triggerDeadManSwitch
  <2> QED BY <2>1, <2>2
<1>2. activateRecoveryMode \/ deactivateRecoveryMode => Goal
  BY DEF activateRecoveryMode, deactivateRecoveryMode
<1>3. ASSUME NEW p \in DOMAIN successionProposals, executeRoleSuccession(p)
      PROVE  Goal
  <2>1. CASE successionProposals[p].role = role
    BY <1>3, <2>1 DEF executeRoleSuccession
  <2>2. CASE successionProposals[p].role # role
    BY <1>3, <2>2 DEF executeRoleSuccession
  <2> QED BY <2>1, <2>2
<1>4. ASSUME NEW p \in DOMAIN successionProposals,
             approveSuccession(p) \/ cancelSuccession(p)
      PROVE  Goal
  BY <1>4 DEF approveSuccession, cancelSuccession
<1>5. ASSUME NEW r \in Roles, NEW a \in Addresses, proposeRoleSuccession(r, a)
      PROVE  Goal
  BY <1>5 DEF proposeRoleSuccession
<1>6. ASSUME NEW p \in DOMAIN upgradeProposals,
             \/ approveUpgrade(p) \/ announceUpgradePublicly(p)
             \/ executeUpgrade(p) \/ cancelUpgrade(p)
      PROVE  Goal
  BY <1>6 DEF approveUpgrade, announceUpgradePublicly, executeUpgrade, cancelUpgrade
<1>7. proposeUpgrade \/ Tick \/ UNCHANGED vars => Goal
  BY DEF proposeUpgrade, Tick, vars
<1> HIDE DEF Goal
<1>8. Succession => Goal
  BY <1>3, <1>4, <1>5 DEF Succession
<1>9. Upgrade => Goal
  BY <1>6, <1>7 DEF Upgrade
<1>10. Goal
  BY <1>1, <1>2, <1>7, <1>8, <1>9 DEF Next
<1> QED BY <1>10 DEF Goal

(* What the service sends is a transaction of the ledger; everything else  *)
(* it does leaves the ledger alone.                                        *)
LEMMA ServiceSendsTransactions ==
  ASSUME ServiceIInv, [NextService]_allVars
  PROVE  [Next]_vars
<1> USE DEF ServiceIInv, callRemembers
<1>1. RunSend => [Next]_vars
  BY AutomationAssumption DEF RunSend, Next
<1>2. TriggerSend => [Next]_vars
  BY DEF TriggerSend, Next
<1>3. ExecuteSend => [Next]_vars
  BY DEF ExecuteSend, Next, Succession
<1>4. Others => [Next]_vars
  BY DEF Others, Next
<1>5. RunStart \/ RunRead \/ ReportStart \/ ReportHeartbeat \/ ReportSwitch
        \/ ReportEnd \/ UNCHANGED allVars => UNCHANGED vars
  BY DEF RunStart, RunRead, ReportStart, ReportHeartbeat, ReportSwitch, ReportEnd,
         allVars
<1>6. ASSUME NEW role \in Roles, TriggerCheck(role)
      PROVE  UNCHANGED vars
  BY <1>6 DEF TriggerCheck
<1>7. ASSUME NEW p, ExecuteCheck(p) \/ ReadinessCheck(p)
      PROVE  UNCHANGED vars
  BY <1>7 DEF ExecuteCheck, ReadinessCheck
<1> QED BY <1>1, <1>2, <1>3, <1>4, <1>5, <1>6, <1>7 DEF NextService, Service
-----------------------------------------------------------------------------
LEMMA CallRemembersStep ==
  ASSUME IInv, ServiceIInv, [NextService]_allVars
  PROVE  callRemembers'
<1> USE DEF ServiceIInv, callRemembers
<1>1. TypeOK /\ now \in Nat
  BY DEF IInv, TypeOK
<1>2. DOMAIN successionProposals \subseteq DOMAIN successionProposals'
  BY <1>1, ServiceSendsTransactions, ProposalsStay
<1>3. UNCHANGED <<run, call>> => callRemembers'
  BY <1>2
<1>4. RunStart \/ RunRead \/ RunSend => callRemembers'
  BY <1>1, <1>2 DEF RunStart, RunRead, RunSend, RunEnds
<1>5. Others \/ ReportStart \/ ReportHeartbeat \/ ReportSwitch \/ ReportEnd
        \/ UNCHANGED allVars => UNCHANGED <<run, call>>
  BY DEF Others, ReportStart, ReportHeartbeat, ReportSwitch, ReportEnd, allVars,
         serviceVars
<1>6. TriggerSend \/ ExecuteSend => callRemembers'
  BY <1>2 DEF TriggerSend, ExecuteSend, Answers
<1>7. ASSUME NEW role \in Roles, TriggerCheck(role)
      PROVE  callRemembers'
  BY <1>2, <1>7 DEF TriggerCheck
<1>8. ASSUME NEW p \in DOMAIN successionProposals, ExecuteCheck(p)
      PROVE  callRemembers'
  <2>1. p \in Nat
    BY <1>1 DEF TypeOK
  <2> QED BY <1>2, <1>8, <2>1 DEF ExecuteCheck
<1>9. ASSUME NEW p \in DOMAIN upgradeProposals, ReadinessCheck(p)
      PROVE  callRemembers'
  <2>1. p \in Nat
    BY <1>1 DEF TypeOK
  <2> QED BY <1>2, <1>9, <2>1 DEF ReadinessCheck
<1> HIDE DEF callRemembers
<1> QED BY <1>3, <1>4, <1>5, <1>6, <1>7, <1>8, <1>9 DEF NextService, Service

(* Where the end of the last run is left alone, the ledger's own steps     *)
(* keep both parts that speak of it.                                       *)
LEMMA RunUntouched ==
  ASSUME IInv, ServiceIInv, [Next]_vars, UNCHANGED client,
         run'.endedAt = run.endedAt, run'.failures = run.failures,
         UNCHANGED now \/ Others
  PROVE  runsAreWeekly' /\ runLeavesActivity'
<1> DEFINE slack == run.failures * RunEvery
<1>1. now \in Nat /\ run.endedAt \in Nat /\ slack \in Nat /\ TypeOK
  BY DaysAssumption DEF IInv, TypeOK, ServiceIInv, callRemembers
<1>2. runsAreWeekly'
  <2>1. CASE UNCHANGED now
    BY <2>1 DEF ServiceIInv, runsAreWeekly
  <2>2. CASE runInTime /\ Tick
    BY <1>1, <2>2, DaysAssumption DEF ServiceIInv, runsAreWeekly, runInTime, Tick
  <2>3. Others => UNCHANGED now \/ (runInTime /\ Tick)
    BY DEF Others, Succession, Upgrade, sendHeartbeat, triggerDeadManSwitch,
       activateRecoveryMode, deactivateRecoveryMode, proposeRoleSuccession,
       approveSuccession, cancelSuccession, executeRoleSuccession, proposeUpgrade,
       approveUpgrade, announceUpgradePublicly, executeUpgrade, cancelUpgrade
  <2> QED BY <2>1, <2>2, <2>3
<1>3. runLeavesActivity'
  <2> SUFFICES ASSUME client = "heartbeat", automationHolds'
               PROVE  run.endedAt < lastActivityAt'[automatedRole] + HeartbeatDue + slack
    BY DEF runLeavesActivity
  <2>1. CASE lastActivityAt'[automatedRole] = now
    BY <1>1, <2>1, DaysAssumption DEF ServiceIInv, runsAreWeekly
  <2>2. CASE /\ lastActivityAt'[automatedRole] = lastActivityAt[automatedRole]
             /\ multisigAddress'[automatedRole] = multisigAddress[automatedRole]
    BY <2>2 DEF ServiceIInv, runLeavesActivity, automationHolds
  <2> QED BY <1>1, <2>1, <2>2, AutomationAssumption, NewHolderIsFresh
<1> QED BY <1>2, <1>3

(* One failure more is one interval more that the last activity may lie    *)
(* behind.                                                                 *)
LEMMA OneIntervalMore ==
  ASSUME NEW failures \in Nat
  PROVE  /\ failures * RunEvery \in Nat
         /\ (failures + 1) * RunEvery = failures * RunEvery + RunEvery
BY DaysAssumption

(* A run ends with the role heard of in the last HeartbeatDue days, with a *)
(* heartbeat of its own, or with one failure more, unless another holder   *)
(* has taken over.                                                         *)
LEMMA RunsEnd ==
  ASSUME IInv, ServiceIInv, RunRead \/ RunSend
  PROVE  runsAreWeekly' /\ runLeavesActivity'
<1> DEFINE la == lastActivityAt[automatedRole]
<1> DEFINE slack == run.failures * RunEvery
<1> DEFINE slackAfter == run'.failures * RunEvery
<1>1. /\ now \in Nat /\ la \in Nat /\ run.endedAt \in Nat
      /\ HeartbeatDue \in Nat \ {0} /\ RunEvery \in Nat /\ run.failures \in Nat
  BY AutomationAssumption, DaysAssumption
     DEF IInv, TypeOK, ServiceIInv, callRemembers
<1>2. slack \in Nat /\ (run.failures + 1) * RunEvery = slack + RunEvery
  BY <1>1, OneIntervalMore
<1> DEFINE inReach == run'.endedAt < lastActivityAt'[automatedRole] + HeartbeatDue + slackAfter
<1>3. inReach \/ ~(client' = "heartbeat" /\ automationHolds') => runLeavesActivity'
  BY DEF runLeavesActivity
<1>4. runLeavesActivity /\ client = "heartbeat" /\ automationHolds =>
         run.endedAt < la + HeartbeatDue + slack
  BY DEF runLeavesActivity
<1> HIDE DEF slack, slackAfter
<1>5. /\ \/ UNCHANGED <<run.endedAt, run.failures>>
         \/ RunEnds(0)
         \/ RunEnds(run.failures + 1)
      /\ UNCHANGED <<now, client>>
  BY DEF RunRead, RunSend, ServiceIInv, callRemembers, sendHeartbeat, vars
<1>6. run'.endedAt \in {run.endedAt, now}
  BY <1>5 DEF RunEnds
<1>7. runsAreWeekly'
  BY <1>1, <1>5, <1>6, DaysAssumption DEF ServiceIInv, runsAreWeekly
<1>8. ASSUME client = "heartbeat", automationHolds
      PROVE  run.endedAt < la + HeartbeatDue + slack /\ now <= run.endedAt + RunEvery
  BY <1>8, <1>4 DEF ServiceIInv, runsAreWeekly
<1>9. \/ lastActivityAt'[automatedRole] = now
      \/ UNCHANGED lastActivityAt
  BY AutomationAssumption DEF RunRead, RunSend, sendHeartbeat, _recordActivity,
     vars, registry, IInv, TypeOK
<1>10. UNCHANGED automationHolds
  BY DEF RunRead, RunSend, sendHeartbeat, automationHolds, vars, registry
<1>11. CASE RunEnds(run.failures + 1)
  <2>1. run'.endedAt = now /\ slackAfter = slack + RunEvery
    BY <1>2, <1>11 DEF RunEnds, slackAfter
  <2>2. CASE UNCHANGED lastActivityAt
    BY <1>1, <1>2, <1>5, <1>7, <1>8, <1>10, <1>3, <2>1, <2>2
  <2>3. CASE lastActivityAt'[automatedRole] = now
    BY <1>1, <1>2, <1>7, <1>3, <2>1, <2>3
  <2> QED BY <1>9, <2>2, <2>3
<1>12. CASE RunEnds(0)
  <2>1. run'.endedAt = now /\ slackAfter = 0
    BY <1>1, <1>12 DEF RunEnds, slackAfter
  <2>2. now < lastActivityAt'[automatedRole] + HeartbeatDue
    <3>1. CASE RunSend
      <4>1. ~RunEnds(run.failures + 1)
        BY <1>1, <1>12 DEF RunEnds
      <4>2. lastActivityAt'[automatedRole] = now
        BY <3>1, <4>1, AutomationAssumption
           DEF RunSend, sendHeartbeat, _recordActivity, IInv, TypeOK
      <4> QED BY <1>1, <4>2
    <3>2. CASE RunRead
      <4>1. UNCHANGED lastActivityAt /\ run.pc = "reading"
        BY <3>2 DEF RunRead, vars, registry
      <4>2. ~heartbeatNeeded(daysSince(now, automatedRole))
        BY <1>1, <1>12, <3>2 DEF RunRead, RunEnds, ServiceIInv, callRemembers
      <4> QED BY <1>1, <4>1, <4>2 DEF heartbeatNeeded, daysSince
    <3> QED BY <3>1, <3>2
  <2>3. inReach
    BY <1>1, <1>9, <2>1, <2>2
  <2> QED BY <1>7, <1>3, <2>3
<1>13. CASE UNCHANGED <<run.endedAt, run.failures>>
  <2>3. slackAfter = slack /\ run'.endedAt = run.endedAt
    BY <1>13 DEF slack, slackAfter
  <2>1. CASE UNCHANGED lastActivityAt
    BY <1>5, <1>7, <1>8, <1>10, <1>3, <2>1, <2>3
  <2>2. CASE lastActivityAt'[automatedRole] = now
    <3>1. run.endedAt <= now \/ client # "heartbeat"
      BY DEF ServiceIInv, runsAreWeekly
    <3> QED BY <1>1, <1>2, <1>5, <1>7, <1>3, <2>2, <2>3, <3>1
  <2> QED BY <1>9, <2>1, <2>2
<1> QED BY <1>5, <1>11, <1>12, <1>13

LEMMA NextKeepsServiceIInv ==
  ASSUME IInv, ServiceIInv, [NextService]_allVars
  PROVE  ServiceIInv'
<1>1. [Next]_vars
  BY ServiceSendsTransactions
<1>2. CASE RunRead \/ RunSend
  BY <1>2, RunsEnd, CallRemembersStep DEF ServiceIInv
<1> DEFINE Left == UNCHANGED client /\ run'.endedAt = run.endedAt
                   /\ run'.failures = run.failures /\ (UNCHANGED now \/ Others)
<1>3. RunStart => Left
  BY DEF RunStart, vars, ServiceIInv, callRemembers
<1>4. Others => Left
  BY DEF Others, serviceVars
<1>5. ReportStart \/ ReportHeartbeat \/ ReportSwitch \/ ReportEnd
        \/ UNCHANGED allVars => Left
  BY DEF ReportStart, ReportHeartbeat, ReportSwitch, ReportEnd, allVars, vars,
         serviceVars
<1>6. TriggerSend \/ ExecuteSend => Left
  BY DEF TriggerSend, ExecuteSend, triggerDeadManSwitch, executeRoleSuccession, vars
<1>7. ASSUME NEW role \in Roles, TriggerCheck(role)
      PROVE  Left
  BY <1>7 DEF TriggerCheck, vars
<1>8. ASSUME NEW p, ExecuteCheck(p) \/ ReadinessCheck(p)
      PROVE  Left
  BY <1>8 DEF ExecuteCheck, ReadinessCheck, vars
<1>9. CASE Left
  BY <1>1, <1>9, RunUntouched, CallRemembersStep DEF ServiceIInv
<1> HIDE DEF Left
<1> QED BY <1>2, <1>3, <1>4, <1>5, <1>6, <1>7, <1>8, <1>9 DEF NextService, Service
-----------------------------------------------------------------------------
(* The ledger's invariant also holds with the service at work, and so does *)
(* the service's own.                                                      *)
LEMMA BothHold == ServiceSpec => [](IInv /\ ServiceIInv)
<1>1. InitService => IInv /\ ServiceIInv
  BY InitIInv, InitServiceIInv DEF InitService
<1>2. IInv /\ ServiceIInv /\ [NextService]_allVars => (IInv /\ ServiceIInv)'
  BY ServiceSendsTransactions, EveryStep, NextKeepsServiceIInv DEF GoodStep
<1> QED BY <1>1, <1>2, PTL DEF ServiceSpec

(* Checking before it sends, the service asks nothing of the ledger that   *)
(* the ledger's own specification does not have: each of its behaviours is *)
(* one of LedgerGovernance.                                                *)
THEOREM ServiceUsesTheLedger == ServiceSpec => Spec
<1>1. InitService => Init
  BY DEF InitService
<1>2. ServiceIInv /\ [NextService]_allVars => [Next]_vars
  BY ServiceSendsTransactions
<1> QED BY <1>1, <1>2, BothHold, PTL DEF ServiceSpec, Spec

(* The automatic heartbeat keeps the dead man's switch of its role from    *)
(* becoming triggerable for as many failed runs in a row as the threshold  *)
(* has intervals left after the days a role may have been silent, whatever *)
(* the threshold, the days and the interval are.                           *)
THEOREM AutomationKeepsTheRole == ServiceSpec => []AutomationKeepsRole
<1>1. IInv /\ ServiceIInv => AutomationKeepsRole
  <2> DEFINE slack == run.failures * RunEvery
  <2> SUFFICES ASSUME IInv, ServiceIInv, client = "heartbeat", automationHolds,
                      HeartbeatDue + (run.failures + 1) * RunEvery
                        <= DEAD_MAN_SWITCH_THRESHOLD,
                      canTriggerDeadManSwitch(automatedRole)
               PROVE  FALSE
    BY DEF AutomationKeepsRole
  <2>1. /\ now \in Nat /\ lastActivityAt[automatedRole] \in Nat
        /\ run.endedAt \in Nat /\ run.failures \in Nat
    BY AutomationAssumption DEF IInv, TypeOK, ServiceIInv, callRemembers
  <2>2. now <= run.endedAt + RunEvery
    BY DEF ServiceIInv, runsAreWeekly
  <2>3. run.endedAt < lastActivityAt[automatedRole] + HeartbeatDue + slack
    BY DEF ServiceIInv, runLeavesActivity
  <2>4. now >= lastActivityAt[automatedRole] + DEAD_MAN_SWITCH_THRESHOLD
    BY DEF canTriggerDeadManSwitch
  <2>5. slack \in Nat /\ HeartbeatDue + slack + RunEvery <= DEAD_MAN_SWITCH_THRESHOLD
    BY <2>1, OneIntervalMore, DaysAssumption
  <2> HIDE DEF slack
  <2> QED BY <2>1, <2>2, <2>3, <2>4, <2>5, DaysAssumption, TimeAssumption
<1> QED BY <1>1, BothHold, PTL
-----------------------------------------------------------------------------
(* The health report.                                                      *)

LEMMA LevelsCombine ==
  ASSUME NEW level \in Levels, NEW found \in Levels
  PROVE  /\ worse(level, found) \in Levels
         /\ severity(worse(level, found)) < severity("CRITICAL") =>
              /\ severity(level) < severity("CRITICAL")
              /\ severity(found) < severity("CRITICAL")
<1>1. /\ severity("HEALTHY") = 0 /\ severity("WARNING") = 1
      /\ severity("CRITICAL") = 2 /\ severity("EMERGENCY") = 3
  BY DEF severity
<1>2. severity(level) \in Nat /\ severity(found) \in Nat
  BY <1>1 DEF Levels
<1>3. CASE severity(found) > severity(level)
  BY <1>1, <1>2, <1>3 DEF worse
<1>4. CASE ~(severity(found) > severity(level))
  BY <1>1, <1>2, <1>4 DEF worse
<1> QED BY <1>3, <1>4

LEMMA InitReport == InitService => reportSound
<1> SUFFICES ASSUME InitService PROVE reportSound
  OBVIOUS
<1>1. report = NoReport /\ now = 0
  BY DEF InitService, Init
<1> QED BY <1>1 DEF NoReport, Levels, reportSound

\* Whatever the ledger is used for meanwhile, a role is not heard of less.
LEMMA LedgerKeepsReport ==
  ASSUME IInv, reportSound, [Next]_vars, UNCHANGED report
  PROVE  reportSound'
<1>1. now \in Nat /\ \A role \in Roles : lastActivityAt[role] \in Nat
  BY DEF IInv, TypeOK
<1>2. now' \in Nat /\ now <= now'
  <2>1. UNCHANGED now \/ Tick
    BY DEF Next, Succession, Upgrade, sendHeartbeat, triggerDeadManSwitch,
       activateRecoveryMode, deactivateRecoveryMode, proposeRoleSuccession,
       approveSuccession, cancelSuccession, executeRoleSuccession, proposeUpgrade,
       approveUpgrade, announceUpgradePublicly, executeUpgrade, cancelUpgrade, vars
  <2> QED BY <1>1, <2>1 DEF Tick
<1>3. report.startedAt \in Nat /\ report.startedAt <= now
  BY DEF reportSound
<1>4. DEAD_MAN_SWITCH_THRESHOLD \in Nat \ {0}
  BY DaysAssumption, TimeAssumption
<1>5. ASSUME NEW role \in Roles,
             lastActivityAt[role] + DEAD_MAN_SWITCH_THRESHOLD > report.startedAt
      PROVE  lastActivityAt'[role] + DEAD_MAN_SWITCH_THRESHOLD > report.startedAt
  <2>1. lastActivityAt'[role] \in {now, lastActivityAt[role]}
    BY NewHolderIsFresh DEF IInv
  <2> QED BY <1>1, <1>3, <1>4, <1>5, <2>1
<1> QED BY <1>1, <1>2, <1>3, <1>5 DEF reportSound

\* The reads of the report, none of which takes a block.
LEMMA ReadsKeepReport ==
  ASSUME IInv, reportSound, UNCHANGED vars,
         ReportStart \/ ReportHeartbeat \/ ReportSwitch \/ ReportEnd
  PROVE  reportSound'
<1>1. UNCHANGED <<now, lastActivityAt>>
  BY DEF vars, registry
<1>2. now \in Nat /\ \A role \in Roles : lastActivityAt[role] \in Nat
  BY DEF IInv, TypeOK
<1> USE <1>1
<1>3. CASE ReportStart
  <2>1. report' = [pc |-> "reading", startedAt |-> now, heartbeats |-> Roles,
                   switches |-> Roles, worst |-> "HEALTHY"]
    BY <1>3 DEF ReportStart, NoReport
  <2>2. "HEALTHY" \in Levels
    BY DEF Levels
  <2>3. report' \in [pc : {"idle", "reading", "reported"}, startedAt : Nat,
                     heartbeats : SUBSET Roles, switches : SUBSET Roles, worst : Levels]
    BY <1>2, <2>1, <2>2
  <2>4. report'.startedAt = now' /\ report'.heartbeats = Roles /\ report'.pc = "reading"
    BY <2>1
  <2> QED BY <1>2, <2>3, <2>4 DEF reportSound
<1>4. CASE ReportHeartbeat
  <2> DEFINE role == nextOf(report.heartbeats)
             found == heartbeatHealth(daysSince(report.startedAt, role))
  <2>1. /\ report.pc = "reading"
        /\ report' = [report EXCEPT !.heartbeats = @ \ {role},
                                    !.worst = worse(report.worst, found)]
    BY <1>4 DEF ReportHeartbeat
  <2>2. found \in Levels
    BY DEF heartbeatHealth, Levels
  <2>3. severity(found) < severity("CRITICAL") /\ role \in Roles =>
          lastActivityAt[role] + DEAD_MAN_SWITCH_THRESHOLD > report.startedAt
    <3> SUFFICES ASSUME severity(found) < severity("CRITICAL"), role \in Roles
                 PROVE  lastActivityAt[role] + DEAD_MAN_SWITCH_THRESHOLD > report.startedAt
      OBVIOUS
    <3>1. found # "CRITICAL"
      BY DEF severity
    <3>2. daysSince(report.startedAt, role) < HEARTBEAT_CRITICAL_DAYS
      BY <1>2, <3>1, DaysAssumption DEF heartbeatHealth, daysSince, reportSound
    <3> QED BY <1>2, <3>2, DaysAssumption, TimeAssumption DEF daysSince, reportSound
  <2> HIDE DEF role, found
  <2>4. /\ worse(report.worst, found) \in Levels
        /\ severity(worse(report.worst, found)) < severity("CRITICAL") =>
             /\ severity(report.worst) < severity("CRITICAL")
             /\ severity(found) < severity("CRITICAL")
    BY <2>2, LevelsCombine DEF reportSound
  <2> QED BY <2>1, <2>3, <2>4 DEF reportSound
<1>5. CASE ReportSwitch
  <2> DEFINE role == nextOf(report.switches)
             found == switchHealth(role)
  <2>1. /\ report.pc = "reading"
        /\ report' = [report EXCEPT !.switches = @ \ {role},
                                    !.worst = worse(report.worst, found)]
    BY <1>5 DEF ReportSwitch
  <2>2. found \in Levels
    BY DEF switchHealth, Levels
  <2> HIDE DEF role, found
  <2>3. /\ worse(report.worst, found) \in Levels
        /\ severity(worse(report.worst, found)) < severity("CRITICAL") =>
             severity(report.worst) < severity("CRITICAL")
    BY <2>2, LevelsCombine DEF reportSound
  <2> QED BY <2>1, <2>3 DEF reportSound
<1>6. CASE ReportEnd
  <2>1. PICK active \in getRegisteredBanks :
          report' = [report EXCEPT
            !.pc = "reported",
            !.worst = worse(worse(report.worst, modeHealth), banksHealth(active))]
    BY <1>6 DEF ReportEnd
  <2>2. modeHealth \in Levels /\ banksHealth(active) \in Levels
    BY DEF modeHealth, banksHealth, Levels
  <2> DEFINE withMode == worse(report.worst, modeHealth)
  <2>3. /\ withMode \in Levels
        /\ severity(withMode) < severity("CRITICAL") =>
             severity(report.worst) < severity("CRITICAL")
    BY <2>2, LevelsCombine DEF reportSound
  <2> HIDE DEF withMode
  <2>4. /\ worse(withMode, banksHealth(active)) \in Levels
        /\ severity(worse(withMode, banksHealth(active))) < severity("CRITICAL") =>
             severity(withMode) < severity("CRITICAL")
    BY <2>2, <2>3, LevelsCombine
  <2>5. report.heartbeats = {}
    BY <1>6 DEF ReportEnd
  <2> QED BY <2>1, <2>3, <2>4, <2>5 DEF reportSound, withMode
<1> QED BY <1>3, <1>4, <1>5, <1>6

LEMMA EveryStepKeepsReport ==
  ASSUME IInv, ServiceIInv, reportSound, [NextService]_allVars
  PROVE  reportSound'
<1>1. [Next]_vars
  BY ServiceSendsTransactions
<1>2. CASE ReportStart \/ ReportHeartbeat \/ ReportSwitch \/ ReportEnd
  <2>1. UNCHANGED vars
    BY <1>2 DEF ReportStart, ReportHeartbeat, ReportSwitch, ReportEnd
  <2> QED BY <1>2, <2>1, ReadsKeepReport
<1>3. RunStart \/ RunRead \/ RunSend \/ TriggerSend \/ ExecuteSend \/ Others
        \/ UNCHANGED allVars => UNCHANGED report
  BY DEF RunStart, RunRead, RunSend, TriggerSend, ExecuteSend, Others, serviceVars,
         allVars
<1>4. ASSUME NEW role \in Roles, TriggerCheck(role)
      PROVE  UNCHANGED report
  BY <1>4 DEF TriggerCheck
<1>5. ASSUME NEW p, ExecuteCheck(p) \/ ReadinessCheck(p)
      PROVE  UNCHANGED report
  BY <1>5 DEF ExecuteCheck, ReadinessCheck
<1> QED BY <1>1, <1>2, <1>3, <1>4, <1>5, LedgerKeepsReport DEF NextService, Service

(* A report that ends below CRITICAL has missed no role: each had been     *)
(* heard of when it began, or is by now, whatever the ledger was used for  *)
(* between its reads and in whatever order its readers took them.          *)
THEOREM ReportsMissNothing == ServiceSpec => []ReportMissesNothing
<1>1. InitService => reportSound
  BY InitReport
<1>2. IInv /\ ServiceIInv /\ reportSound /\ [NextService]_allVars => reportSound'
  BY EveryStepKeepsReport
<1>3. reportSound => ReportMissesNothing
  BY DEF reportSound, ReportMissesNothing
<1> QED BY <1>1, <1>2, <1>3, BothHold, PTL DEF ServiceSpec
=============================================================================
