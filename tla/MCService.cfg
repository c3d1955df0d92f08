SPECIFICATION FairSpec
CONSTANTS
  Request = {"a", "b"}
  Key = {"k1", "k2"}
  ResourceOf <- MCResourceOf
  Loads <- MCLoads
  Expiring = {"a"}
  MaxRestarts = 1
  MaxCrashes = 1
  MaxTimeouts = 1
  MaxUnavailable = 1
INVARIANTS
  Safety
  ReportIsTrue
PROPERTIES
  OutcomeIsFinal
  OutcomeArrives
CHECK_DEADLOCK FALSE
