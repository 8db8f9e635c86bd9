SPECIFICATION Spec
CONSTANTS
  f1 = f1  f2 = f2  c1 = c1  c2 = c2
  config = config  a = a  b = b  c = c  d = d
  Fronts = {f1, f2}
  Channels = {c1}
  ChannelOf <- OneChannel
  Ledger <- OrderedDays
  TxIds = {config, a, b, c, d}
  Days = {1, 2}
  IsBlockPullFromZero = FALSE
  PullBlockInitCnts = 2
  BlockRetainMax = 1
  TransRetainMax = 1
  IsDeleteInfo = TRUE
  Faults = {"front", "db", "crash"}
  FaultsCease = FALSE
  DeleteSpan = 1
  NoChannel = NoChannel
INVARIANTS
  TypeOK
  BlocksContiguous
  TransOfRecordedBlocks
  TransInBlockOrder
  OnlyTornBlocksIncomplete
  NoneSkippedInOrder
PROPERTIES
  MirrorsChain
