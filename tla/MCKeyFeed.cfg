CONSTANTS
  a = a
  b = b
  Last = 1
  Digests = {a, b}
  Publishes <- MCPublishes
  Required = {}
  PollInterval <- MCPollInterval
  Timeout <- MCTimeout
  MaxStaleness = 2
  NoContribution = NoContribution
  Failed = Failed
  Unchanged = Unchanged
  MaxClock = 2
SPECIFICATION FSpec
INVARIANTS
  LoadedIsResident
  NoChangeIsLost
PROPERTIES
  FeedIsServed
  StaleIsExcluded
  CloseReturns
