\* More chunks than the channel and the connection hold, so that both fill up.
CONSTANTS
  Chunks = 5
  ChannelSize = 2
  WireSize = 2
SPECIFICATION FairSpec
INVARIANTS NothingLost ResponseTellsTheEnd
PROPERTY StreamEnds
