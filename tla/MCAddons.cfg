\* Every part may stop for good: a program that ended with an exception, a bound
\* reached.
CONSTANTS
  Byte <- MCByte
  Junk <- MCJunk
  Size = 5
  Chunk = 2
  Wanted = 2
  Span = 8
  Target <- MCTarget
  MaxBytes = 4
  MaxStreams = 2
  Image = {"i1"}
  Artwork = {"a1"}
  MaxQueue = 2
  MaxCleans = 1
  MaxPlays = 1
  Key = {k1, k2, k3}
  MaxChanges = 2
  MaxFailures = 1
  MaxPrograms = 3
  MaxLength = 1
  MaxSessions = 2
  MaxMisses = 1
  MaxSeeks = 1
SPECIFICATION AddonsSpec
INVARIANTS StreamIntact CacheKept TimersTold ChainPlayed
PROPERTIES CallsEnd JobsServed MirrorConverges ChainFollows
CHECK_DEADLOCK FALSE
