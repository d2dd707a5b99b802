CONSTANTS
  a = a
  b = b
  Last = 2
  Digests <- MCDigests
  Publishes <- MCPublishes
  Required = {1}
  PollInterval <- MCPollInterval
  Timeout <- MCTimeout
  MaxStaleness = 2
  NoContribution = NoContribution
  Failed = Failed
  Unchanged = Unchanged
  MaxClock = 2
SPECIFICATION Spec
INVARIANTS
  TypeOK
  SnapshotIsComposition
  FreshStaysInService
  DeadlineIsWatched
PROPERTIES
  NoSilentReassignment
  ImplementsUnion
