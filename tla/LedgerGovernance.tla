--------------------------- MODULE LedgerGovernance ---------------------------
(***************************************************************************)
(* Roles, succession, dead man's switch, upgrades and system mode of       *)
(* AmantraLedgerV5.  One action is one transaction.  A transaction that    *)
(* only the holder of a role may send is possible whenever there is a      *)
(* holder, so the sender appears only where the code records its activity. *)
(* What other contracts answer (is the Safe valid, has the code of an      *)
(* implementation changed) may stop a transaction, which is then not taken. *)
(***************************************************************************)
EXTENDS Integers, Sequences

CONSTANTS
  Roles,                \* MultisigRole, or the roles under study
  Addresses,            \* multisig addresses
  initialHolder,        \* the arguments of initialize
  SUCCESSION_TIMELOCK, UPGRADE_TIMELOCK, DEAD_MAN_SWITCH_THRESHOLD,
  MaxProposals,         \* bound on successionProposalCount + upgradeProposalCount
  MaxTime               \* bound on block.timestamp

MultisigRole ==
  {"OPERATOR", "ORACLE", "EMERGENCY", "ARBITRATION_COUNCIL", "HISBAH", "BACKUP"}

ASSUME RoleAssumption ==
  /\ Roles \subseteq MultisigRole
  /\ {"ORACLE", "HISBAH", "BACKUP"} \subseteq Roles
ASSUME HolderAssumption ==
  /\ initialHolder \in [Roles -> Addresses]
  /\ \A r, s \in Roles : initialHolder[r] = initialHolder[s] => r = s
ASSUME TimeAssumption ==
  /\ SUCCESSION_TIMELOCK \in Nat
  /\ UPGRADE_TIMELOCK \in Nat
  /\ DEAD_MAN_SWITCH_THRESHOLD \in Nat
  /\ MaxTime \in Nat
ASSUME ProposalAssumption == MaxProposals \in Nat

VARIABLES
  multisigAddress,      \* multisigs[role].multisigAddress
  lastActivityAt,       \* multisigs[role].lastActivityAt
  addressRoles,         \* how often addressRoles[a] lists each role
  successionProposals,  \* by id; its length is successionProposalCount
  upgradeProposals,
  systemMode,
  now

registry == <<multisigAddress, addressRoles>>
vars == <<registry, lastActivityAt, successionProposals, upgradeProposals,
          systemMode, now>>

SystemModes == {"NORMAL", "EMERGENCY", "RECOVERY", "DISSOLUTION"}

Successions ==
  [role : Roles, proposedSuccessor : Addresses, executeAfter : Nat,
   hisbahApproved : BOOLEAN, executed : BOOLEAN, cancelled : BOOLEAN]

Upgrades ==
  [proposedAt : Nat, executeAfter : Nat, hisbahApproved : BOOLEAN,
   announcedPublicly : BOOLEAN, executed : BOOLEAN, cancelled : BOOLEAN]

\* continuity.backup*: the BACKUP address initialize was given, never changed.
backup == initialHolder["BACKUP"]

Init ==
  /\ multisigAddress = initialHolder
  /\ lastActivityAt = [r \in Roles |-> 0]
  /\ addressRoles = [a \in Addresses |->
                      [r \in Roles |-> IF initialHolder[r] = a THEN 1 ELSE 0]]
  /\ successionProposals = << >>
  /\ upgradeProposals = << >>
  /\ systemMode = "NORMAL"
  /\ now = 0

mayPropose == Len(successionProposals) + Len(upgradeProposals) < MaxProposals

_recordActivity(role) ==
  lastActivityAt' = [lastActivityAt EXCEPT ![role] = now]

\* _getBackupFor: the stored backup, but for EMERGENCY and BACKUP the holder.
_getBackupFor(role) ==
  IF role \in {"ORACLE", "ARBITRATION_COUNCIL", "OPERATOR", "HISBAH"}
  THEN backup ELSE multisigAddress["BACKUP"]
-----------------------------------------------------------------------------
(* Every transaction under onlyMultisig that changes nothing here but the  *)
(* activity of the role: sendHeartbeat and those of LedgerContracts.       *)

sendHeartbeat(role) ==
  /\ _recordActivity(role)
  /\ UNCHANGED <<registry, successionProposals, upgradeProposals, systemMode, now>>

\* Anyone may call it.  The listing of roles by address is not touched.
triggerDeadManSwitch(role) ==
  /\ now >= lastActivityAt[role] + DEAD_MAN_SWITCH_THRESHOLD
  /\ multisigAddress' = [multisigAddress EXCEPT ![role] = _getBackupFor(role)]
  /\ _recordActivity(role)
  /\ systemMode' = "RECOVERY"
  /\ UNCHANGED <<addressRoles, successionProposals, upgradeProposals, now>>

activateRecoveryMode ==
  /\ systemMode' = "RECOVERY"
  /\ _recordActivity("BACKUP")
  /\ UNCHANGED <<registry, successionProposals, upgradeProposals, now>>

deactivateRecoveryMode ==
  /\ systemMode = "RECOVERY"
  /\ systemMode' = "NORMAL"
  /\ _recordActivity("HISBAH")
  /\ UNCHANGED <<registry, successionProposals, upgradeProposals, now>>
-----------------------------------------------------------------------------
(* Succession.                                                             *)

holdsNoRole(a) == \A r \in Roles : addressRoles[a][r] = 0

proposeRoleSuccession(role, a) ==
  /\ mayPropose
  /\ holdsNoRole(a)
  /\ successionProposals' = Append(successionProposals,
       [role |-> role, proposedSuccessor |-> a,
        executeAfter |-> now + SUCCESSION_TIMELOCK, hisbahApproved |-> FALSE,
        executed |-> FALSE, cancelled |-> FALSE])
  /\ UNCHANGED <<registry, lastActivityAt, upgradeProposals, systemMode, now>>

approveSuccession(p) ==
  /\ ~successionProposals[p].executed
  /\ ~successionProposals[p].cancelled
  /\ successionProposals' = [successionProposals EXCEPT ![p].hisbahApproved = TRUE]
  /\ _recordActivity("HISBAH")
  /\ UNCHANGED <<registry, upgradeProposals, systemMode, now>>

(* Mutant of cancelSuccession: a cancellation does not ask for execution.  *)
cancelSuccessionLate(p) ==
  /\ successionProposals' = [successionProposals EXCEPT ![p].cancelled = TRUE]
  /\ _recordActivity("HISBAH")
  /\ UNCHANGED <<registry, upgradeProposals, systemMode, now>>

cancelSuccession(p) ==
  /\ ~successionProposals[p].executed
  /\ successionProposals' = [successionProposals EXCEPT ![p].cancelled = TRUE]
  /\ _recordActivity("HISBAH")
  /\ UNCHANGED <<registry, upgradeProposals, systemMode, now>>

(* Mutant of moveRole: the new holder is not listed.                      *)
moveRoleUnlisted(role, oldHolder, newHolder) ==
  [addressRoles EXCEPT ![oldHolder][role] = IF @ > 0 THEN @ - 1 ELSE 0]

\* _removeAddressRole takes one entry out, if there is one.
moveRole(role, oldHolder, newHolder) ==
  LET removed == [addressRoles EXCEPT
        ![oldHolder][role] = IF @ > 0 THEN @ - 1 ELSE 0]
  IN [removed EXCEPT ![newHolder][role] = @ + 1]

(* Mutant of afterTimelock: the time lock is forgotten.                   *)
afterTimelockForgotten(proposal) == proposal.executeAfter >= 0

afterTimelock(proposal) == now >= proposal.executeAfter

\* Anyone may call it.  Whether the successor holds a role now is not asked.
executeRoleSuccession(p) ==
  LET proposal == successionProposals[p] IN
  /\ ~proposal.executed
  /\ ~proposal.cancelled
  /\ afterTimelock(proposal)
  /\ proposal.hisbahApproved
  /\ multisigAddress' =
       [multisigAddress EXCEPT ![proposal.role] = proposal.proposedSuccessor]
  /\ addressRoles' = moveRole(proposal.role, multisigAddress[proposal.role],
                              proposal.proposedSuccessor)
  /\ _recordActivity(proposal.role)
  /\ successionProposals' = [successionProposals EXCEPT ![p].executed = TRUE]
  /\ UNCHANGED <<upgradeProposals, systemMode, now>>
-----------------------------------------------------------------------------
(* Upgrades.                                                               *)

proposeUpgrade ==
  /\ mayPropose
  /\ upgradeProposals' = Append(upgradeProposals,
       [proposedAt |-> now, executeAfter |-> now + UPGRADE_TIMELOCK,
        hisbahApproved |-> FALSE, announcedPublicly |-> FALSE,
        executed |-> FALSE, cancelled |-> FALSE])
  /\ _recordActivity("ORACLE")
  /\ UNCHANGED <<registry, successionProposals, systemMode, now>>

approveUpgrade(p) ==
  /\ ~upgradeProposals[p].executed
  /\ upgradeProposals' = [upgradeProposals EXCEPT ![p].hisbahApproved = TRUE]
  /\ _recordActivity("HISBAH")
  /\ UNCHANGED <<registry, successionProposals, systemMode, now>>

(* Mutant of announceUpgradePublicly: ends the time lock it should start.  *)
announceUpgradePubliclyAtOnce(p) ==
  /\ upgradeProposals[p].hisbahApproved
  /\ upgradeProposals' = [upgradeProposals EXCEPT
       ![p].announcedPublicly = TRUE, ![p].executeAfter = now]
  /\ _recordActivity("ORACLE")
  /\ UNCHANGED <<registry, successionProposals, systemMode, now>>

\* Neither execution nor cancellation of the proposal is asked.
announceUpgradePublicly(p) ==
  /\ upgradeProposals[p].hisbahApproved
  /\ upgradeProposals' = [upgradeProposals EXCEPT
       ![p].announcedPublicly = TRUE, ![p].executeAfter = now + UPGRADE_TIMELOCK]
  /\ _recordActivity("ORACLE")
  /\ UNCHANGED <<registry, successionProposals, systemMode, now>>

executeUpgrade(p) ==
  /\ ~upgradeProposals[p].executed
  /\ upgradeProposals[p].hisbahApproved
  /\ upgradeProposals[p].announcedPublicly
  /\ afterTimelock(upgradeProposals[p])
  /\ upgradeProposals' = [upgradeProposals EXCEPT ![p].executed = TRUE]
  /\ _recordActivity("ORACLE")
  /\ UNCHANGED <<registry, successionProposals, systemMode, now>>

cancelUpgrade(p) ==
  /\ ~upgradeProposals[p].executed
  /\ upgradeProposals' = [upgradeProposals EXCEPT ![p].cancelled = TRUE]
  /\ _recordActivity("HISBAH")
  /\ UNCHANGED <<registry, successionProposals, systemMode, now>>
-----------------------------------------------------------------------------
Tick ==
  /\ now < MaxTime
  /\ now' = now + 1
  /\ UNCHANGED <<registry, lastActivityAt, successionProposals, upgradeProposals,
                 systemMode>>

Succession ==
  \/ \E role \in Roles, a \in Addresses : proposeRoleSuccession(role, a)
  \/ \E p \in DOMAIN successionProposals :
       \/ approveSuccession(p)
       \/ cancelSuccession(p)
       \/ executeRoleSuccession(p)

Upgrade ==
  \/ proposeUpgrade
  \/ \E p \in DOMAIN upgradeProposals :
       \/ approveUpgrade(p)
       \/ announceUpgradePublicly(p)
       \/ executeUpgrade(p)
       \/ cancelUpgrade(p)

Next ==
  \/ \E role \in Roles : sendHeartbeat(role) \/ triggerDeadManSwitch(role)
  \/ activateRecoveryMode
  \/ deactivateRecoveryMode
  \/ Succession
  \/ Upgrade
  \/ Tick

Spec == Init /\ [][Next]_vars
=============================================================================
