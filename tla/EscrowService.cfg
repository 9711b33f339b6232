\* Three calls on one account, which exists or is created by one of them.
SPECIFICATION Spec
CONSTANTS
  Calls = {c1, c2, c3}
  MaxAmount = 2
  Opening = 2
  Agreements <- MCAgreements
  Faults = {"bank_error", "db_error", "crash"}
  Earlier = Earlier
  None = None
SYMMETRY MCSymmetry
INVARIANTS
  UpdatesKept
  FrozenIsHeld
  OneAccountAnswered
CHECK_DEADLOCK FALSE
