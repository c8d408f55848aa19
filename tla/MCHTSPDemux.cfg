CONSTANTS
  Channels <- MCChannels
  Streams = {1, 2, 3, 4}
  Known = {1, 2, 3}
  StreamLists <- MCLists
  MaxStreams = 2
  MaxSeq = 1
  MaxPushes = 4
SPECIFICATION Spec
INVARIANTS PacketsInView
