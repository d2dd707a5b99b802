\* One chat call; backoff longer than a round, rounds as long as the ticker's
\* interval, so ticks are dropped.
CONSTANTS
  c1 = c1
  Endpoints = 2
  Weight <- MCWeight
  ChatCalls <- MCChat
  TripCalls <- MCNone
  OneShot <- MCNone
  Interval = 2
  MaxBackoff = 2
  RoundLimit = 2
SPECIFICATION FairSpec
PROPERTIES BackendRecovers CallReturns CloseReturns
