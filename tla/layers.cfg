CONSTANTS
  Templates <- MCTemplates
  Offered <- MCOffered
  MaxOps = 2
SPECIFICATION Spec
INVARIANTS AppliedAsAsked OnlyEditsArePinned GoodIsReplayable
CHECK_DEADLOCK FALSE
