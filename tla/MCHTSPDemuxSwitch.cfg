CONSTANTS
  Channels <- MCChannels
  Streams = {1}
  Known = {1}
  StreamLists <- MCShortLists
  MaxStreams = 1
  MaxSeq = 5
  MaxPushes = 2
SPECIFICATION Spec
INVARIANTS PacketsOfChannel StreamsOfSubscription
