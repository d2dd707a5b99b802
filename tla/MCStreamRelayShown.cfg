CONSTANTS
  Chunks = 2
  ChannelSize = 2
  WireSize = 2
SPECIFICATION Spec
INVARIANT ShownCompleteIsComplete
