SPECIFICATION ReliableSpec
CONSTANTS
  f1 = f1  f2 = f2  c1 = c1  c2 = c2
  config = config  a = a  b = b  c = c  d = d
  Fronts = {f1, f2}
  Channels = {c1}
  ChannelOf <- OneChannel
  Ledger <- ShortChain
  TxIds = {config, a, b, c, d}
  Days = {1, 2}
  IsBlockPullFromZero = FALSE
  PullBlockInitCnts = 2
  BlockRetainMax = 1
  TransRetainMax = 100
  IsDeleteInfo = TRUE
  Faults = {"crash", "front"}
  FaultsCease = TRUE
  DeleteSpan = 0
  NoChannel = NoChannel
PROPERTIES
  CatchesUp
  EveryTransCounted
  RetentionReached
