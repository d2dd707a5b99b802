\* One chat call and one trip over two endpoints; rounds and ticks interleave.
CONSTANTS
  c1 = c1
  t1 = t1
  Endpoints = 2
  Weight <- MCWeight
  ChatCalls <- MCChat
  TripCalls <- MCTrip
  OneShot <- MCNone
  Interval = 1
  MaxBackoff = 1
  RoundLimit = 1
SPECIFICATION Spec
INVARIANTS InRotationIsProbed TripTriesEveryHealthy
