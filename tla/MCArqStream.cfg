\* The wire's 16-bit seq, crossed by the stream, and the staleness the
\* transport's 64-datagram replay window allows.
SPECIFICATION FairSpec
CONSTANTS
  SeqSpace = 65536
  InitialSeq = 65535
  SendWindow = 2
  ReceiveWindow = 2
  PacketThreshold = 1
  ProbeSegments = 1
  MaxQueued = 3
  Horizon = 8005
  MaxMessage = 2
  MaxSegments = 4
INVARIANTS
  AckTruthful NeverOverrun HonestAckAccepted
PROPERTIES
  RetransmitEarned ImplementsReliableStream EventuallyDelivered
\* The stream ends quietly once MaxSegments are delivered and acknowledged.
CHECK_DEADLOCK FALSE
