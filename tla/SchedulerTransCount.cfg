SPECIFICATION Spec
CONSTANTS
  f1 = f1  f2 = f2  c1 = c1  c2 = c2
  config = config  a = a  b = b  c = c  d = d
  Fronts = {f1}
  Channels = {c1}
  ChannelOf <- OneFront
  Ledger <- OrderedDays
  TxIds = {config, a, b, c, d}
  Days = {1, 2}
  IsBlockPullFromZero = TRUE
  PullBlockInitCnts = 2
  BlockRetainMax = 100
  TransRetainMax = 100
  IsDeleteInfo = FALSE
  Faults = {}
  FaultsCease = FALSE
  DeleteSpan = 1000
  NoChannel = NoChannel
INVARIANTS
  TransCountExact
