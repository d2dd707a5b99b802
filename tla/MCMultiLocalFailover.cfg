\* The bounds of MCMultiLocal.cfg, for what the documentation says of a chat call.
CONSTANTS
  c1 = c1
  t1 = t1
  Endpoints = 2
  Weight <- MCWeight
  ChatCalls <- MCChat
  TripCalls <- MCTrip
  OneShot <- MCNone
  Interval = 1
  MaxBackoff = 1
  RoundLimit = 1
SPECIFICATION Spec
INVARIANT ChatTriesEveryHealthy
