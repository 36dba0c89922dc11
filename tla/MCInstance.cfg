\* One instance, two read slots, two transactions per Ndb object.
CONSTANTS
  MaxReadOps = 2
  MaxRetryMs = 25
  ForceRestart = TRUE
  MaxActiveTx = 2
SPECIFICATION Spec
INVARIANTS
  TypeOK
  HandleIsUsable
  AbortedBatchHasNoTx
  SlotsAreTheReads
  CleanBetweenRequests
  PlainRequestIsAtomic
  BatchDeliversNotes
PROPERTIES
  ImplementsBatch
  EveryRequestIsAnswered
