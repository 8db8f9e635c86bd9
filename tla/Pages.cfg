SPECIFICATION PagesSpec
CONSTANTS
  f1 = f1  c1 = c1  config = config  a = a  b = b  c = c  d = d
  Fronts = {f1}
  Channels = {c1}
  ChannelOf <- OneFront
  Ledger <- FourBlocks
  TxIds = {config, a, b, c, d}
  Days = {1, 2}
  IsBlockPullFromZero = TRUE
  PullBlockInitCnts = 2
  BlockRetainMax = 1
  TransRetainMax = 1
  IsDeleteInfo = TRUE
  Faults = {"front"}
  FaultsCease = FALSE
  DeleteSpan = 0
  NoChannel = NoChannel
  PageSize = 1
  Dates = {2, 8, 9}
  Addresses = {"x", "y"}
  Apart = TRUE
  NoPeer = NoPeer
  NoHeight = NoHeight
  NoFront = NoFront
INVARIANTS
  SeenWithoutGap
  MissedOnlyByGrowth
  ChartTrue
  AddressLostOnlyByOverlap
