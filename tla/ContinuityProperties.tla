------------------------- MODULE ContinuityProperties -------------------------
(***************************************************************************)
(* What the continuity service adds to the promises of the ledger.         *)
(***************************************************************************)
EXTENDS GovernanceContinuity, LedgerGovernanceProperties

(* Run every week and sending after HeartbeatDue days, the automation does *)
(* not let the dead man's switch of its role become triggerable while the  *)
(* service's signer holds the role, whatever else the ledger is used for   *)
(* between the read of the last activity and the heartbeat.  A run whose   *)
(* read or transaction fails is not repeated before the next week: each    *)
(* failure in a row uses up one interval of the threshold.                 *)
AutomationKeepsRole ==
  /\ client = "heartbeat" /\ automationHolds
  /\ HeartbeatDue + (run.failures + 1) * RunEvery <= DEAD_MAN_SWITCH_THRESHOLD
  => ~canTriggerDeadManSwitch(automatedRole)

(* A report below CRITICAL means what it says although its reads are from  *)
(* different blocks: no role was triggerable when the report began and     *)
(* still had not been heard of when it ended.                              *)
ReportMissesNothing ==
  report.pc = "reported" /\ severity(report.worst) < severity("CRITICAL") =>
    \A role \in Roles :
      lastActivityAt[role] + DEAD_MAN_SWITCH_THRESHOLD > report.startedAt
-----------------------------------------------------------------------------
(* The inductive invariant of the service, for every threshold and         *)
(* interval.  What matters of an ended run is that it left the role's last *)
(* activity less than HeartbeatDue behind its end, and one interval more   *)
(* for each failure since.                                                 *)

callRemembers ==
  /\ run \in [pc : {"idle", "reading", "sending"}, endedAt : Nat, failures : Nat]
  /\ call \in [pc : {"idle", "sending", "refused", "ready", "done", "reverted"},
               op : {"none", "trigger", "execute", "readiness"},
               role : Roles, proposal : Nat]
  /\ call.op = "execute" => call.proposal \in DOMAIN successionProposals

runsAreWeekly ==
  client = "heartbeat" => run.endedAt <= now /\ now <= run.endedAt + RunEvery

runLeavesActivity ==
  client = "heartbeat" /\ automationHolds =>
    run.endedAt < lastActivityAt[automatedRole] + HeartbeatDue + run.failures * RunEvery

\* A role that the report has passed had been heard of, unless the report already
\* has a finding as bad as CRITICAL.
reportSound ==
  /\ report \in [pc : {"idle", "reading", "reported"}, startedAt : Nat,
                 heartbeats : SUBSET Roles, switches : SUBSET Roles, worst : Levels]
  /\ report.startedAt <= now
  /\ report.pc = "reported" => report.heartbeats = {}
  /\ severity(report.worst) < severity("CRITICAL") =>
       \A role \in Roles \ report.heartbeats :
         lastActivityAt[role] + DEAD_MAN_SWITCH_THRESHOLD > report.startedAt

ServiceIInv == callRemembers /\ runsAreWeekly /\ runLeavesActivity
=============================================================================
