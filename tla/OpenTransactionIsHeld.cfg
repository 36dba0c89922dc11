\* One instance, two read slots, two transactions per Ndb object.
CONSTANTS
  MaxReadOps = 2
  MaxRetryMs = 25
  ForceRestart = TRUE
  MaxActiveTx = 2
SPECIFICATION Spec
INVARIANT OpenTransactionIsHeld
