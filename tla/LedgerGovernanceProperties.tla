---------------------- MODULE LedgerGovernanceProperties ----------------------
(***************************************************************************)
(* What AmantraLedgerV5 promises about roles and upgrades.                 *)
(***************************************************************************)
EXTENDS LedgerGovernance

(* Every variable has its type; the modes EMERGENCY and DISSOLUTION are    *)
(* declared but no transaction enters them.                                *)
TypeOK ==
  /\ multisigAddress \in [Roles -> Addresses]
  /\ lastActivityAt \in [Roles -> Nat]
  /\ addressRoles \in [Addresses -> [Roles -> Nat]]
  /\ successionProposals \in Seq(Successions)
  /\ upgradeProposals \in Seq(Upgrades)
  /\ systemMode \in {"NORMAL", "RECOVERY"}
  /\ now \in Nat

(* A succession that was carried out had Hisbah's approval and was not     *)
(* cancelled, before or after, in whatever order Hisbah's decisions and    *)
(* the execution, which anyone may send, arrive.                           *)
SuccessionsDecided ==
  \A p \in DOMAIN successionProposals :
    successionProposals[p].executed =>
      /\ successionProposals[p].hisbahApproved
      /\ ~successionProposals[p].cancelled

(* An announced upgrade has Hisbah's approval, and the time it waits for   *)
(* is never earlier than the time lock from its proposal, however often it *)
(* is announced.                                                           *)
UpgradesNoticed ==
  \A p \in DOMAIN upgradeProposals :
    /\ upgradeProposals[p].announcedPublicly => upgradeProposals[p].hisbahApproved
    /\ upgradeProposals[p].executeAfter
         >= upgradeProposals[p].proposedAt + UPGRADE_TIMELOCK

(* Who holds a role is listed under it, so that the check in               *)
(* proposeRoleSuccession sees it: all but the stored backup, to which the  *)
(* switch gives roles without listing them, and EMERGENCY, which the       *)
(* switch gives to the holder of BACKUP.                                   *)
HoldersListed ==
  \A r \in Roles \ {"EMERGENCY"} :
    \/ multisigAddress[r] = backup
    \/ addressRoles[multisigAddress[r]][r] > 0

succeeded(r) ==
  \E p \in DOMAIN successionProposals :
    /\ successionProposals[p].role = r
    /\ successionProposals[p].hisbahApproved
    /\ ~successionProposals[p].cancelled
    /\ ~successionProposals[p].executed
    /\ now >= successionProposals[p].executeAfter
    /\ multisigAddress'[r] = successionProposals[p].proposedSuccessor

silent(r) == now - lastActivityAt[r] >= DEAD_MAN_SWITCH_THRESHOLD

changesHands ==
  \A r \in Roles :
    multisigAddress'[r] # multisigAddress[r]
      => succeeded(r) \/ (silent(r) /\ systemMode' = "RECOVERY")

(* A role changes hands by an approved succession after its time lock or,  *)
(* with the system in recovery, after its holder was silent for the whole  *)
(* threshold; nothing else moves it.                                       *)
RoleChangesByProcess == [][changesHands]_vars

upgradesInTime ==
  \A p \in DOMAIN upgradeProposals :
    ~upgradeProposals[p].executed /\ upgradeProposals'[p].executed =>
      /\ upgradeProposals[p].hisbahApproved
      /\ now >= upgradeProposals[p].proposedAt + UPGRADE_TIMELOCK

(* A proposed upgrade is executed with Hisbah's approval and no earlier    *)
(* than its time lock after it was proposed.                               *)
UpgradeTakesItsTime == [][upgradesInTime]_vars
-----------------------------------------------------------------------------
(* The inductive invariant.  A new announcement sets the time lock from    *)
(* now on, which is no earlier only because the proposal is not from the   *)
(* future.                                                                 *)

proposedInThePast ==
  \A p \in DOMAIN upgradeProposals : upgradeProposals[p].proposedAt <= now

IInv ==
  /\ TypeOK
  /\ SuccessionsDecided
  /\ UpgradesNoticed
  /\ proposedInThePast
  /\ HoldersListed
=============================================================================
