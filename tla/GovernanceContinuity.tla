------------------------- MODULE GovernanceContinuity -------------------------
(***************************************************************************)
(* The continuity service of the backend over LedgerGovernance: its weekly *)
(* heartbeat run, its health report, and its calls that look at the ledger *)
(* first and send a transaction afterwards.  Every read and every          *)
(* transaction is a step of its own, between which others use the ledger.  *)
(* A behaviour has one client of the service; the local clock of that      *)
(* client is taken to agree with block.timestamp.                          *)
(***************************************************************************)
EXTENDS LedgerGovernance

CONSTANTS
  Clients,                  \* the kinds of client under study
  automatedRole,            \* the role runHeartbeatCheck is run for
  HeartbeatDue,             \* warningThresholdDays
  HEARTBEAT_WARNING_DAYS,
  HEARTBEAT_CRITICAL_DAYS,
  RunEvery,                 \* the cron interval of the heartbeat run
  MaxFailures,              \* bound: heartbeat runs that fail in a row
  BigintModes               \* does systemMode() answer a bigint, as ethers does

ClientKinds == {"heartbeat", "report", "call"}

ASSUME ClientAssumption == Clients \subseteq ClientKinds /\ Clients # {}
ASSUME AutomationAssumption == automatedRole \in Roles
ASSUME DaysAssumption ==
  /\ HeartbeatDue \in Nat \ {0} /\ RunEvery \in Nat \ {0} /\ MaxFailures \in Nat
  /\ HEARTBEAT_WARNING_DAYS \in Nat /\ HEARTBEAT_CRITICAL_DAYS \in Nat \ {0}
  /\ HEARTBEAT_WARNING_DAYS <= HEARTBEAT_CRITICAL_DAYS
  /\ HEARTBEAT_CRITICAL_DAYS <= DEAD_MAN_SWITCH_THRESHOLD

VARIABLES
  client,     \* which client this behaviour has
  run,        \* the heartbeat run: where it is, when the last one ended, and how
              \* many of the last ones in a row failed
  report,     \* generateHealthReport: how far its reads are, the worst found
  call        \* triggerDeadManSwitch or executeSuccession of the service

serviceVars == <<client, run, report, call>>
allVars == <<vars, serviceVars>>

Levels == {"HEALTHY", "WARNING", "CRITICAL", "EMERGENCY"}

MultisigRoleOrder ==
  <<"OPERATOR", "ORACLE", "EMERGENCY", "ARBITRATION_COUNCIL", "HISBAH", "BACKUP">>

\* The loops go over the roles 0 .. 5: which of those left comes next.
nextOf(left) ==
  LET number(r) == CHOOSE i \in DOMAIN MultisigRoleOrder : MultisigRoleOrder[i] = r
  IN CHOOSE r \in left : \A q \in left : number(r) <= number(q)

\* heartbeats and switches: the roles whose heartbeat, whose switch is not read.
NoReport == [pc |-> "idle", startedAt |-> 0, heartbeats |-> Roles,
             switches |-> Roles, worst |-> "HEALTHY"]
NoCall == [pc |-> "idle", op |-> "none", role |-> automatedRole, proposal |-> 0]

InitService ==
  /\ Init
  /\ client \in Clients
  /\ run = [pc |-> "idle", endedAt |-> 0, failures |-> 0]
  /\ report = NoReport
  /\ call = NoCall

Answers(result) == call' = [call EXCEPT !.pc = result]
-----------------------------------------------------------------------------
(* The heartbeat run.  An error of the transaction is caught, one of the   *)
(* read is not; nothing is tried again, and the next run is a week later   *)
(* either way.  failures counts what the code does not.                    *)

daysSince(clock, role) == clock - lastActivityAt[role]

(* Mutant of heartbeatNeeded: strictly more than the days.                 *)
heartbeatNeededLate(days) == days > HeartbeatDue

heartbeatNeeded(days) == days >= HeartbeatDue

RunStart ==
  /\ client = "heartbeat" /\ run.pc = "idle"
  /\ run.failures < MaxFailures
  /\ run' = [run EXCEPT !.pc = "reading"]
  /\ UNCHANGED <<vars, client, report, call>>

RunEnds(failures) ==
  run' = [pc |-> "idle", endedAt |-> now, failures |-> failures]

RunRead ==
  /\ run.pc = "reading"
  /\ \/ IF heartbeatNeeded(daysSince(now, automatedRole))
        THEN run' = [run EXCEPT !.pc = "sending"]
        ELSE RunEnds(0)
     \/ RunEnds(run.failures + 1)                   \* getHeartbeatStatuses throws
  /\ UNCHANGED <<vars, client, report, call>>

\* The signer is the holder the service was set up with; for another holder
\* onlyMultisig reverts and nothing is sent.
automationHolds == multisigAddress[automatedRole] = initialHolder[automatedRole]

\* The transaction may fail before the ledger has it, or be mined and its receipt
\* be lost: the service takes both for a failure.
RunSend ==
  /\ run.pc = "sending"
  /\ \/ automationHolds /\ sendHeartbeat(automatedRole) /\ RunEnds(0)
     \/ automationHolds /\ sendHeartbeat(automatedRole) /\ RunEnds(run.failures + 1)
     \/ UNCHANGED vars /\ RunEnds(run.failures + 1)
  /\ UNCHANGED <<client, report, call>>
-----------------------------------------------------------------------------
(* The health report.  Its six readers run at the same time, each its own  *)
(* reads in order; only the worst finding is kept, which is what the       *)
(* levels are combined to after the reads.                                 *)

severity(level) ==
  CASE level = "HEALTHY" -> 0 [] level = "WARNING" -> 1
    [] level = "CRITICAL" -> 2 [] level = "EMERGENCY" -> 3

(* Mutant of worse: the last finding wins.                                 *)
worseLast(level, found) == found

worse(level, found) == IF severity(found) > severity(level) THEN found ELSE level

heartbeatHealth(days) ==
  IF days >= HEARTBEAT_CRITICAL_DAYS THEN "CRITICAL"
  ELSE IF days >= HEARTBEAT_WARNING_DAYS THEN "WARNING" ELSE "HEALTHY"

canTriggerDeadManSwitch(role) ==
  now >= lastActivityAt[role] + DEAD_MAN_SWITCH_THRESHOLD

switchHealth(role) ==
  IF canTriggerDeadManSwitch(role) THEN "CRITICAL"
  ELSE IF 4 * daysSince(now, role) > 3 * DEAD_MAN_SWITCH_THRESHOLD
       THEN "WARNING" ELSE "HEALTHY"

\* A bigint is never === a member of the enum SystemMode.
modeHealth ==
  IF systemMode \in {"EMERGENCY", "RECOVERY"} /\ ~BigintModes
  THEN "EMERGENCY" ELSE "HEALTHY"

ReportStart ==
  /\ client = "report" /\ report.pc = "idle"
  /\ report' = [NoReport EXCEPT !.pc = "reading", !.startedAt = now]
  /\ UNCHANGED <<vars, client, run, call>>

\* getHeartbeatStatuses reads the clock once, before its loop.
ReportHeartbeat ==
  LET role == nextOf(report.heartbeats)
      found == heartbeatHealth(daysSince(report.startedAt, role)) IN
  /\ report.pc = "reading" /\ report.heartbeats # {}
  /\ report' = [report EXCEPT !.heartbeats = @ \ {role},
                              !.worst = worse(report.worst, found)]
  /\ UNCHANGED <<vars, client, run, call>>

ReportSwitch ==
  LET role == nextOf(report.switches)
      found == switchHealth(role) IN
  /\ report.pc = "reading" /\ report.switches # {}
  /\ report' = [report EXCEPT !.switches = @ \ {role},
                              !.worst = worse(report.worst, found)]
  /\ UNCHANGED <<vars, client, run, call>>

\* How many active banks a report may find.  The banks are those of
\* LedgerContracts, and any error of a read is taken for the end of their list:
\* whatever is registered, a report may find none, one or several.
getRegisteredBanks == {0, 1, 2}

banksHealth(active) ==
  IF active = 0 THEN "CRITICAL" ELSE IF active = 1 THEN "WARNING" ELSE "HEALTHY"

\* The mode and the banks are read on the way; they are placed at the end, since
\* no action here changes the banks and the mode is never recognised.  The lists
\* of pending proposals do not change the level.
ReportEnd ==
  /\ report.pc = "reading"
  /\ report.heartbeats = {} /\ report.switches = {}
  /\ \E active \in getRegisteredBanks :
       report' = [report EXCEPT
         !.pc = "reported",
         !.worst = worse(worse(report.worst, modeHealth), banksHealth(active))]
  /\ UNCHANGED <<vars, client, run, call>>
-----------------------------------------------------------------------------
(* Calls that check before they send.  A transaction that reverts is the   *)
(* call's error.                                                           *)

TriggerCheck(role) ==
  /\ client = "call" /\ call.pc = "idle"
  /\ call' = [call EXCEPT !.op = "trigger", !.role = role,
       !.pc = IF canTriggerDeadManSwitch(role) THEN "sending" ELSE "refused"]
  /\ UNCHANGED <<vars, client, run, report>>

TriggerSend ==
  /\ call.op = "trigger" /\ call.pc = "sending"
  /\ IF canTriggerDeadManSwitch(call.role)
     THEN triggerDeadManSwitch(call.role) /\ Answers("done")
     ELSE UNCHANGED vars /\ Answers("reverted")
  /\ UNCHANGED <<client, run, report>>

\* Neither execution nor cancellation of the proposal is looked at.
ExecuteCheck(p) ==
  /\ client = "call" /\ call.pc = "idle"
  /\ call' = [call EXCEPT !.op = "execute", !.proposal = p,
       !.pc = IF /\ now >= successionProposals[p].executeAfter
                 /\ successionProposals[p].hisbahApproved
              THEN "sending" ELSE "refused"]
  /\ UNCHANGED <<vars, client, run, report>>

ExecuteSend ==
  LET proposal == successionProposals[call.proposal] IN
  /\ call.op = "execute" /\ call.pc = "sending"
  /\ IF ~proposal.executed /\ ~proposal.cancelled
     THEN executeRoleSuccession(call.proposal) /\ Answers("done")
     ELSE UNCHANGED vars /\ Answers("reverted")
  /\ UNCHANGED <<client, run, report>>
\* checkUpgradeReadiness only answers.  It does not ask whether the proposal was
\* executed or cancelled; oracleApproved is set by proposeUpgrade.
readyToUpgrade(p) ==
  /\ upgradeProposals[p].hisbahApproved
  /\ upgradeProposals[p].announcedPublicly
  /\ now >= upgradeProposals[p].executeAfter

ReadinessCheck(p) ==
  /\ client = "call" /\ call.pc = "idle"
  /\ call' = [call EXCEPT !.op = "readiness", !.proposal = p,
       !.pc = IF readyToUpgrade(p) THEN "ready" ELSE "refused"]
  /\ UNCHANGED <<vars, client, run, report>>
-----------------------------------------------------------------------------
(* The cron of the heartbeat run: a run is over before the day is, and the *)
(* next one is no later than RunEvery after it.                            *)
runInTime ==
  client = "heartbeat" => run.pc = "idle" /\ now < run.endedAt + RunEvery

Others ==
  /\ \/ \E role \in Roles : sendHeartbeat(role) \/ triggerDeadManSwitch(role)
     \/ activateRecoveryMode
     \/ deactivateRecoveryMode
     \/ Succession
     \/ Upgrade
     \/ runInTime /\ Tick
  /\ UNCHANGED serviceVars

Service ==
  \/ RunStart \/ RunRead \/ RunSend
  \/ ReportStart \/ ReportHeartbeat \/ ReportSwitch \/ ReportEnd
  \/ \E role \in Roles : TriggerCheck(role)
  \/ \E p \in DOMAIN successionProposals : ExecuteCheck(p)
  \/ TriggerSend
  \/ ExecuteSend
  \/ \E p \in DOMAIN upgradeProposals : ReadinessCheck(p)

NextService == Others \/ Service

ServiceSpec == InitService /\ [][NextService]_allVars
=============================================================================
