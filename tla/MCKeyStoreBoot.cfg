CONSTANTS
  a = a
  Last = 2
  Digests = {a}
  Publishes <- MCPublishes
  Required = {1}
  PollInterval <- MCPollInterval
  Timeout <- MCTimeout
  MaxStaleness = 4
  NoContribution = NoContribution
  Failed = Failed
  Unchanged = Unchanged
  MaxClock = 6
SPECIFICATION HSpec
INVARIANT HealthyStaysInService
