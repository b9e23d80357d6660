SPECIFICATION FairSpec
CONSTANTS
  NThreads = 2
  Browsers = {guest, other}
  Guest = guest
  MaxRequests = 2
  NoRequest = NoRequest
  MaxTexts = 2
INVARIANTS TypeOK ServesUntilSignal AcceptedMeansCalled
PROPERTIES RequestsAreAnswered BadTextChangesNothing EveryBrowserAccepted ShutdownCompletes ConnectionEnds
CHECK_DEADLOCK FALSE
