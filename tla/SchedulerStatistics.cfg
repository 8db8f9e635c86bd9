SPECIFICATION Spec
CONSTANTS
  f1 = f1  f2 = f2  c1 = c1  c2 = c2
  config = config  a = a  b = b  c = c  d = d
  Fronts = {f1, f2}
  Channels = {c1, c2}
  ChannelOf <- TwoChannels
  Ledger <- MixedDays
  TxIds = {config, a, b, c, d}
  Days = {1, 2}
  IsBlockPullFromZero = TRUE
  PullBlockInitCnts = 2
  BlockRetainMax = 1
  TransRetainMax = 1
  IsDeleteInfo = TRUE
  Faults = {"db", "crash"}
  FaultsCease = FALSE
  DeleteSpan = 0
  NoChannel = NoChannel
INVARIANTS
  NoDoubleCount
  NoneSkipped
  OverviewShowsBlock
PROPERTIES
  LivesOnce
