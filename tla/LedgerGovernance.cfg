\* Three roles, one successor, one proposal of either kind, and one client of
\* the continuity service.  One failed heartbeat run leaves the switch out of
\* reach of three days, two do not.
SPECIFICATION ServiceSpec
CONSTANTS
  oracle = oracle
  hisbah = hisbah
  backupSafe = backupSafe
  Roles = {"ORACLE", "HISBAH", "BACKUP"}
  Addresses = {oracle, hisbah, backupSafe, s1}
  initialHolder <- MCInitialHolder
  SUCCESSION_TIMELOCK = 1
  UPGRADE_TIMELOCK = 1
  DEAD_MAN_SWITCH_THRESHOLD = 3
  MaxProposals = 1
  MaxTime = 3
  Clients = {"heartbeat", "report", "call"}
  automatedRole = "ORACLE"
  HeartbeatDue = 1
  HEARTBEAT_WARNING_DAYS = 1
  HEARTBEAT_CRITICAL_DAYS = 2
  RunEvery = 1
  MaxFailures = 2
  BigintModes = TRUE
INVARIANTS
  SuccessionsDecided
  HoldersListed
  AutomationKeepsRole
  ReportMissesNothing
PROPERTIES
  RoleChangesByProcess
  UpgradeTakesItsTime
CHECK_DEADLOCK FALSE
