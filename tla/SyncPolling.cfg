\* Three failures, three cycles at once.
SPECIFICATION Spec
CONSTANTS
  Threshold = 3
  MaxCycles = 3
INVARIANTS ActiveBelowThreshold NoNetworkIsTrue
PROPERTIES ActivePollsAgain
