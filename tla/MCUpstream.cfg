CONSTANTS
  Retries = 2
  MaxNotices = 2
  Large = TRUE
SPECIFICATION UpstreamSpec
CHECK_DEADLOCK FALSE
INVARIANTS TypeOK OwnAnswer HandshakeKept SilenceIsReported
PROPERTIES SessionEnds NoReaderStays HttpEnds KeepsContract
