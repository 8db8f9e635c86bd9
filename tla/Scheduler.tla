----------------------------- MODULE Scheduler -----------------------------
(***************************************************************************)
(* The three @Scheduled tasks of the node manager and the tables they keep *)
(* for every channel:                                                      *)
(*   PullBlockInfoTask         copies new blocks and transactions from the *)
(*                             fronts into tb_block_N and tb_transaction_N *)
(*   StatisticsTransDailyTask  counts stored transactions per day into     *)
(*                             tb_trans_daily                              *)
(*   DeleteInfoTask            deletes old blocks and counted transactions *)
(*                                                                         *)
(* Spring's default scheduler has one thread and nothing enables @Async,   *)
(* so the tasks run one after the other on that thread; pc says where it   *)
(* is.  A step makes at most one request to a front or one write to a      *)
(* table: no transaction is open in these tasks (saveBLockInfo is called   *)
(* on this, past the proxy that @Transactional needs), every statement     *)
(* commits by itself, and the process may crash between any two.           *)
(***************************************************************************)
EXTENDS Mappers, Sequences

CONSTANTS
  Fronts,               \* rows of tb_front_channel_map that the cache holds
  Channels,             \* rows of tb_channel with status NORMAL
  ChannelOf,            \* the channel of each front
  Ledger,               \* the blocks of each channel, block n at index n + 1
  TxIds, Days,          \* transaction ids, calendar days
  IsBlockPullFromZero,  \* schedule.isBlockPullFromZero
  PullBlockInitCnts,    \* schedule.pullBlockInitCnts
  BlockRetainMax,       \* schedule.blockRetainMax
  TransRetainMax,       \* schedule.transRetainMax
  IsDeleteInfo,         \* schedule.isDeleteInfo
  Faults,               \* the kinds of fault considered: "front", "db", "crash"
  FaultsCease,          \* may there be a time after which no fault happens
  NoChannel             \* the thread is not working on a channel

\* tx: the envelope is a TRANSACTION_ENVELOPE; day: of its client's timestamp.
Envelope == [tx : BOOLEAN, id : TxIds, day : Days]

ASSUME FrontsAssumption ==
  /\ ChannelOf \in [Fronts -> Channels]
  /\ NoChannel \notin Channels

ASSUME LedgerAssumption ==
  /\ Days \in SUBSET Nat
  /\ Ledger \in [Channels -> Seq(Seq(Envelope))]
  /\ \A c \in Channels : Ledger[c] # <<>>

ASSUME ScheduleAssumption ==
  /\ IsBlockPullFromZero \in BOOLEAN
  /\ IsDeleteInfo \in BOOLEAN
  /\ PullBlockInitCnts \in Nat \ {0}
  /\ BlockRetainMax \in Nat \ {0}
  /\ TransRetainMax \in Nat \ {0}
  /\ Faults \in SUBSET {"front", "db", "crash"}
  /\ FaultsCease \in BOOLEAN

VARIABLES
  height,    \* number of blocks in the ledger each front reports
  calm,      \* no fault will happen any more
  blocks,    \* tb_block_N of each channel
  trans,     \* tb_transaction_N of each channel
  auto,      \* its next AUTO_INCREMENT value
  daily,     \* the rows of each channel in tb_trans_daily
  pc,        \* where the scheduler thread is
  todo,      \* fronts or channels the running task has still to visit
  chan,      \* the channel it is working on
  top,       \* maxChainBlock of pullBlockByChannelId
  next,      \* nextBlock
  rest,      \* envelopes of block `next` not yet saved
  pending,   \* days of latestTransCountList not yet saved
  torn,      \* history: blocks whose saving was interrupted
  counted,   \* history: numbers some committed daily row has counted
  lost       \* history: numbers not yet counted when a statistics run was cut

chain  == <<height, calm>>
tables == <<blocks, trans, auto, daily>>
locals == <<chan, top, next, rest, pending>>
history == <<torn, counted, lost>>
vars   == <<height, calm, blocks, trans, auto, daily, pc, todo,
            chan, top, next, rest, pending, torn, counted, lost>>

PullRowPc == {"height", "first", "fetch", "add", "save", "again", "refresh"}
PcValues  == {"idle", "rows", "statRows", "statSave",
              "delRows", "delBlock", "delTrans"} \union PullRowPc

NoGroups == [d \in Days |-> {}]
TransRow == [num : Nat \ {0}, id : TxIds, block : Nat, day : Days]

TypeOK ==
  /\ height \in [Fronts -> Nat]
  /\ calm \in BOOLEAN
  /\ blocks \in [Channels -> SUBSET Nat]
  /\ trans \in [Channels -> SUBSET TransRow]
  /\ auto \in [Channels -> Nat \ {0}]
  /\ daily \in [Channels -> [Days -> SUBSET Nat]]
  /\ pc \in PcValues
  /\ todo \in IF pc \in {"rows"} \union PullRowPc
              THEN SUBSET Fronts ELSE SUBSET Channels
  /\ chan \in IF pc \in PullRowPc \union {"statSave", "delBlock", "delTrans"}
              THEN Channels ELSE {NoChannel}
  /\ top \in Nat
  /\ next \in Nat
  /\ rest \in Seq(Envelope)
  /\ pending \in [Days -> SUBSET Nat]
  /\ torn \in [Channels -> SUBSET Nat]
  /\ counted \in [Channels -> SUBSET Nat]
  /\ lost \in [Channels -> SUBSET Nat]

\* A fresh installation whose fronts have joined their channel (genesis block).
Init ==
  /\ height \in [Fronts -> {1}]
  /\ calm = FALSE
  /\ blocks = [c \in Channels |-> {}]
  /\ trans = [c \in Channels |-> {}]
  /\ auto = [c \in Channels |-> 1]
  /\ daily = [c \in Channels |-> NoGroups]
  /\ pc = "idle"
  /\ todo = {}
  /\ chan = NoChannel /\ top = 0 /\ next = 0 /\ rest = <<>>
  /\ pending = NoGroups
  /\ torn = [c \in Channels |-> {}]
  /\ counted = [c \in Channels |-> {}]
  /\ lost = [c \in Channels |-> {}]

ClearLocals ==
  /\ chan' = NoChannel
  /\ top' = 0
  /\ next' = 0
  /\ rest' = <<>>
  /\ pending' = NoGroups

-----------------------------------------------------------------------------
(* The chain: a front's peer appends the next block of the channel.        *)

Grow(f) ==
  /\ height[f] < Len(Ledger[ChannelOf[f]])
  /\ height' = [height EXCEPT ![f] = @ + 1]
  /\ UNCHANGED <<calm, tables, pc, todo, locals, history>>

-----------------------------------------------------------------------------
(* PullBlockInfoTask: a row of the cached front-channel list at a time.    *)

FrontsOf(c) == { f \in Fronts : ChannelOf[f] = c }

StartPull ==
  /\ pc = "idle"
  /\ Fronts # {}
  /\ pc' = "rows"
  /\ todo' = Fronts
  /\ UNCHANGED <<chain, tables, locals, history>>

PullRow(f) ==
  /\ pc = "rows"
  /\ f \in todo
  /\ todo' = todo \ {f}
  /\ chan' = ChannelOf[f]
  /\ pc' = "height"
  /\ UNCHANGED <<chain, tables, top, next, rest, pending, history>>

\* getLatestChannelBlockNumber: whichever front of the channel answers, here
\* before the loop and, at "refresh", at its end.
RequestHeight(f) ==
  /\ pc = "height"
  /\ f \in FrontsOf(chan)
  /\ top' = height[f]
  /\ pc' = "first"
  /\ UNCHANGED <<chain, tables, todo, chan, next, rest, pending, history>>

\* Mutant: the comparison with the height is missing.
InitBlock_Unchecked(h) == h - PullBlockInitCnts

\* getNextBlockNumber on an empty table when not pulling from zero.
InitBlock(h) ==
  IF h > PullBlockInitCnts THEN h - (PullBlockInitCnts - 1) ELSE 0

\* Mutant: the table is not consulted.
NextBlockNumbers_OfHeight(c) == { InitBlock(height[f]) : f \in FrontsOf(c) }

\* The values getNextBlockNumber may return: on an empty table it asks a
\* front for the height once more.
NextBlockNumbers(c) ==
  IF blocks[c] # {} THEN { NumberAfter(blocks[c]) }
  ELSE IF IsBlockPullFromZero THEN {0}
  ELSE { InitBlock(height[f]) : f \in FrontsOf(c) }

\* Mutant: the height is taken for the number of the last block plus two.
LoopTest_OneEarly(maxChainBlock, nextBlock) ==
  \/ /\ maxChainBlock > nextBlock + 1
     /\ pc' = "fetch"
     /\ top' = maxChainBlock
     /\ next' = nextBlock
     /\ UNCHANGED <<chan, rest, pending>>
  \/ /\ maxChainBlock <= nextBlock + 1
     /\ pc' = "rows"
     /\ ClearLocals

\* The loop condition maxChainBlock > nextBlock.
LoopTest(maxChainBlock, nextBlock) ==
  \/ /\ maxChainBlock > nextBlock
     /\ pc' = "fetch"
     /\ top' = maxChainBlock
     /\ next' = nextBlock
     /\ UNCHANGED <<chan, rest, pending>>
  \/ /\ maxChainBlock <= nextBlock
     /\ pc' = "rows"
     /\ ClearLocals

EnterLoop ==
  /\ pc = "first"
  /\ \E n \in NextBlockNumbers(chan) : LoopTest(top, n)
  /\ UNCHANGED <<chain, tables, todo, history>>

\* getBlockByNumber answered by a front whose ledger holds the block.
Fetch(f) ==
  /\ pc = "fetch"
  /\ f \in FrontsOf(chan)
  /\ next < height[f]
  /\ rest' = Ledger[chan][next + 1]
  /\ pc' = "add"
  /\ UNCHANGED <<chain, tables, todo, chan, top, next, pending, history>>

\* The same request sent to a front that is behind: it answers with an error
\* code, which ends the row.
FetchBehind(f) ==
  /\ pc = "fetch"
  /\ f \in FrontsOf(chan)
  /\ next >= height[f]
  /\ pc' = "rows"
  /\ ClearLocals
  /\ UNCHANGED <<chain, tables, todo, history>>

\* addBlockInfo: the row is inserted only on top of the newest one; otherwise
\* the method returns, and its caller goes on to the transactions.
AddBlock ==
  /\ pc = "add"
  /\ blocks' = IF blocks[chan] = {} \/ next = NumberAfter(blocks[chan])
               THEN [blocks EXCEPT ![chan] = @ \union {next}]
               ELSE blocks
  /\ pc' = "save"
  /\ UNCHANGED <<chain, trans, auto, daily, todo, locals, history>>

\* Mutant: an envelope that is no transaction ends the loop.
SaveTrans_StopAtConfig ==
  /\ pc = "save"
  /\ rest # <<>>
  /\ LET e == Head(rest)
         row == [num |-> auto[chan], id |-> e.id, block |-> next, day |-> e.day]
     IN \/ /\ e.tx
           /\ trans' = [trans EXCEPT ![chan] = InsertTrans(@, row)]
           /\ auto' = [auto EXCEPT ![chan] = @ + 1]
           /\ rest' = Tail(rest)
        \/ /\ ~ e.tx
           /\ rest' = <<>>
           /\ UNCHANGED <<trans, auto>>
  /\ UNCHANGED <<chain, blocks, daily, pc, todo, chan, top, next, pending, history>>

\* saveTransInfo of the next envelope.  An ignored insert consumes a number.
SaveTrans ==
  /\ pc = "save"
  /\ rest # <<>>
  /\ LET e == Head(rest)
         row == [num |-> auto[chan], id |-> e.id, block |-> next, day |-> e.day]
     IN \/ /\ e.tx
           /\ trans' = [trans EXCEPT ![chan] = InsertTrans(@, row)]
           /\ auto' = [auto EXCEPT ![chan] = @ + 1]
        \/ /\ ~ e.tx
           /\ UNCHANGED <<trans, auto>>
  /\ rest' = Tail(rest)
  /\ UNCHANGED <<chain, blocks, daily, pc, todo, chan, top, next, pending, history>>

BlockSaved ==
  /\ pc = "save"
  /\ rest = <<>>
  /\ pc' = "again"
  /\ UNCHANGED <<chain, tables, todo, locals, history>>

\* The end of the loop body: nextBlock is read anew, and maxChainBlock only
\* when nextBlock has passed it.
Again ==
  /\ pc = "again"
  /\ \E n \in NextBlockNumbers(chan) :
       \/ /\ top >= n
          /\ LoopTest(top, n)
       \/ /\ top < n
          /\ next' = n
          /\ pc' = "refresh"
          /\ UNCHANGED <<chan, top, rest, pending>>
  /\ UNCHANGED <<chain, tables, todo, history>>

RefreshHeight(f) ==
  /\ pc = "refresh"
  /\ f \in FrontsOf(chan)
  /\ LoopTest(height[f], next)
  /\ UNCHANGED <<chain, tables, todo, history>>

\* The running task has visited its last row or channel.
EndTask ==
  /\ pc \in {"rows", "statRows", "delRows"}
  /\ todo = {}
  /\ pc' = "idle"
  /\ UNCHANGED <<chain, tables, todo, locals, history>>

Pull ==
  \/ StartPull
  \/ EnterLoop \/ AddBlock \/ SaveTrans \/ BlockSaved \/ Again
  \/ \E f \in Fronts : \/ PullRow(f) \/ RequestHeight(f) \/ Fetch(f)
                       \/ FetchBehind(f) \/ RefreshHeight(f)

-----------------------------------------------------------------------------
(* StatisticsTransDailyTask.                                               *)

StartStatistics ==
  /\ pc = "idle"
  /\ pc' = "statRows"
  /\ todo' = Channels
  /\ UNCHANGED <<chain, tables, locals, history>>

QueryLatest(c) ==
  /\ pc = "statRows"
  /\ c \in todo
  /\ todo' = todo \ {c}
  /\ LET groups == LatestTransCount(trans[c], daily[c])
     IN \/ /\ groups = NoGroups
           /\ UNCHANGED <<pc, chan, pending>>
        \/ /\ groups # NoGroups
           /\ pc' = "statSave"
           /\ chan' = c
           /\ pending' = groups
  /\ UNCHANGED <<chain, tables, top, next, rest, history>>

\* Mutant: the list is sorted by descending day.
SaveDay_LatestFirst(d) ==
  /\ pc = "statSave"
  /\ pending[d] # {}
  /\ \A e \in Days : pending[e] # {} => d >= e
  /\ daily' = [daily EXCEPT ![chan][d] = pending[d]]
  /\ counted' = [counted EXCEPT ![chan] = @ \union pending[d]]
  /\ pending' = [pending EXCEPT ![d] = {}]
  /\ IF pending' = NoGroups THEN pc' = "statRows" /\ chan' = NoChannel
                            ELSE UNCHANGED <<pc, chan>>
  /\ UNCHANGED <<chain, blocks, trans, auto, todo, top, next, rest, torn, lost>>

\* addTransDailyRow, a REPLACE under the key (channel_id, trans_day), for the
\* earliest day of the list that is still to be saved.
SaveDay(d) ==
  /\ pc = "statSave"
  /\ pending[d] # {}
  /\ \A e \in Days : pending[e] # {} => d <= e
  /\ daily' = [daily EXCEPT ![chan][d] = pending[d]]
  /\ counted' = [counted EXCEPT ![chan] = @ \union pending[d]]
  /\ pending' = [pending EXCEPT ![d] = {}]
  /\ IF pending' = NoGroups THEN pc' = "statRows" /\ chan' = NoChannel
                            ELSE UNCHANGED <<pc, chan>>
  /\ UNCHANGED <<chain, blocks, trans, auto, todo, top, next, rest, torn, lost>>

Statistics ==
  \/ StartStatistics
  \/ \E c \in Channels : QueryLatest(c)
  \/ \E d \in Days : SaveDay(d)

-----------------------------------------------------------------------------
(* DeleteInfoTask.                                                         *)

StartDelete ==
  /\ pc = "idle"
  /\ IsDeleteInfo
  /\ pc' = "delRows"
  /\ todo' = Channels
  /\ UNCHANGED <<chain, tables, locals, history>>

DeleteByChannelId(c) ==
  /\ pc = "delRows"
  /\ c \in todo
  /\ todo' = todo \ {c}
  /\ chan' = c
  /\ pc' = "delBlock"
  /\ UNCHANGED <<chain, tables, top, next, rest, pending, history>>

\* One turn of the loop of deleteBlock, which ends when nothing was removed.
RemoveBlocks ==
  /\ pc = "delBlock"
  /\ LET gone == RemovableBlocks(blocks[chan], BlockRetainMax)
     IN /\ blocks' = [blocks EXCEPT ![chan] = @ \ gone]
        /\ pc' = IF gone = {} THEN "delTrans" ELSE "delBlock"
  /\ UNCHANGED <<chain, trans, auto, daily, todo, locals, history>>

\* One turn of the loop of deleteTransHash.
RemoveTrans ==
  /\ pc = "delTrans"
  /\ LET gone == RemovableTrans(trans[chan], daily[chan], TransRetainMax)
     IN /\ trans' = [trans EXCEPT ![chan] = @ \ gone]
        /\ IF gone = {} THEN pc' = "delRows" /\ chan' = NoChannel
                        ELSE UNCHANGED <<pc, chan>>
  /\ UNCHANGED <<chain, blocks, auto, daily, todo, top, next, rest, pending, history>>

Delete ==
  \/ StartDelete
  \/ \E c \in Channels : DeleteByChannelId(c)
  \/ RemoveBlocks
  \/ RemoveTrans

-----------------------------------------------------------------------------
(* Faults.                                                                 *)

\* The block being saved, if some of its envelopes were not: no later pull
\* asks for it again.
TornNow ==
  IF pc = "save" /\ rest # <<>> THEN [torn EXCEPT ![chan] = @ \union {next}]
                                ELSE torn

\* The days of a statistics run that ends before they are saved.
LostNow ==
  IF pc = "statSave"
  THEN [lost EXCEPT ![chan] = @ \union UNION { pending[d] : d \in Days }]
  ELSE lost

AsksFront ==
  \/ pc \in {"height", "fetch", "refresh"}
  \/ pc \in {"first", "again"} /\ blocks[chan] = {} /\ ~ IsBlockPullFromZero

AsksDatabase == pc \in {"first", "again", "add"} \/ (pc = "save" /\ rest # <<>>)

\* restTemplateExchange returned null for getBlockByNumber, no front being
\* reachable: "jump over", and the loop asks again.
Unanswered ==
  /\ "front" \in Faults
  /\ pc = "fetch"
  /\ pc' = "again"
  /\ UNCHANGED <<chain, tables, todo, locals, history>>

\* An exception anywhere in pullBlockByChannelId, or a null height: the row
\* ends, the task goes on with the next one.
PullFails ==
  /\ \/ "front" \in Faults /\ AsksFront
     \/ "db" \in Faults /\ AsksDatabase
  /\ pc' = "rows"
  /\ torn' = TornNow
  /\ ClearLocals
  /\ UNCHANGED <<chain, tables, todo, counted, lost>>

\* An exception in updateTransDailyData ends the task for every channel.
StatisticsFails ==
  /\ "db" \in Faults
  /\ (pc = "statRows" /\ todo # {}) \/ pc = "statSave"
  /\ pc' = "idle"
  /\ todo' = {}
  /\ lost' = LostNow
  /\ ClearLocals
  /\ UNCHANGED <<chain, tables, torn, counted>>

\* An exception in one of the two delete loops ends that loop only.
DeleteFails ==
  /\ "db" \in Faults
  /\ \/ pc = "delBlock" /\ pc' = "delTrans" /\ UNCHANGED chan
     \/ pc = "delTrans" /\ pc' = "delRows" /\ chan' = NoChannel
  /\ UNCHANGED <<chain, tables, todo, top, next, rest, pending, history>>

\* The process dies and is restarted: the tables survive, the thread does not.
Crash ==
  /\ "crash" \in Faults
  /\ pc # "idle"
  /\ pc' = "idle"
  /\ todo' = {}
  /\ torn' = TornNow
  /\ lost' = LostNow
  /\ ClearLocals
  /\ UNCHANGED <<chain, tables, counted>>

Fault ==
  /\ ~ calm
  /\ Unanswered \/ PullFails \/ StatisticsFails \/ DeleteFails \/ Crash

\* From now on fronts and database answer and the process stays up.
Settle ==
  /\ FaultsCease
  /\ ~ calm
  /\ calm' = TRUE
  /\ UNCHANGED <<height, tables, pc, todo, locals, history>>

Next ==
  \/ \E f \in Fronts : Grow(f)
  \/ Pull
  \/ Statistics
  \/ Delete
  \/ EndTask
  \/ Fault
  \/ Settle

Spec == Init /\ [][Next]_vars

-----------------------------------------------------------------------------
(* Safety.                                                                 *)

\* The block numbers of a channel's table form one range without a gap,
\* whatever heights the fronts answered, wherever a pull or a deletion was cut
\* short (BlockService.pullBlockByChannelId, DeleteInfoTask.deleteBlock).
BlocksContiguous ==
  \A c \in Channels : \A lo, hi \in blocks[c] : lo..hi \subseteq blocks[c]

\* No transaction is stored of a block above the newest stored one: addBlockInfo
\* never declines a block whose transactions saveBLockInfo then inserts.
TransOfRecordedBlocks ==
  \A c \in Channels : \A t \in trans[c] : \E b \in blocks[c] : t.block <= b

\* trans_number orders transactions as the chain does, across pulls, crashes
\* and ignored inserts: the list that TransactionController sorts by it is in
\* block order.
TransInBlockOrder ==
  \A c \in Channels : \A t, u \in trans[c] : t.num < u.num => t.block <= u.block

\* Envelope i of block b of channel c is a transaction with this id.
Occurs(c, b, i, id) ==
  /\ i \in DOMAIN Ledger[c][b + 1]
  /\ Ledger[c][b + 1][i].tx
  /\ Ledger[c][b + 1][i].id = id

Stored(c, id) == \E t \in trans[c] : t.id = id

\* The transactions of block b of channel c are all stored.
Complete(c, b) ==
  \A i \in DOMAIN Ledger[c][b + 1] :
    LET e == Ledger[c][b + 1][i] IN e.tx => Stored(c, e.id)

\* There are rows, and each is of a transaction that comes after envelope i of
\* block b on the chain.
RowsAfter(c, b, i) ==
  /\ trans[c] # {}
  /\ \A t \in trans[c] :
       b < t.block \/ (b = t.block /\ \A k \in DOMAIN Ledger[c][b + 1] : Occurs(c, b, k, t.id) => i < k)

\* The id occurs at or before envelope i of block b, and the rows begin after
\* that occurrence.
Deleted(c, b, i, id) ==
  \E a \in 0..b : \E j \in DOMAIN Ledger[c][a + 1] :
    /\ Occurs(c, a, j, id) /\ (a = b => j <= i)
    /\ RowsAfter(c, a, j)

\* A stored block has all its transactions, save the oldest ones that
\* DeleteInfoTask has taken: what is missing comes before every stored row.
\* Excepted are the block being saved and those whose saving an exception or a
\* crash cut short (BlockService.saveBLockInfo).
OnlyTornBlocksIncomplete ==
  \A c \in Channels : \A b \in blocks[c] :
    \/ b \in torn[c]
    \/ pc = "save" /\ chan = c /\ next = b
    \/ \A i \in DOMAIN Ledger[c][b + 1] :
         LET e == Ledger[c][b + 1][i]
         IN e.tx => Stored(c, e.id) \/ Deleted(c, b, i, e.id)

\* No transaction is counted by two rows or by two runs of the statistics: what
\* the running task is about to save was never counted before
\* (StatisticsTransDailyTask.statisticByChannelId).
NoDoubleCount ==
  \A d \in Days : pending[d] # {} => pending[d] \cap counted[chan] = {}

\* Every transaction at or below the watermark, the largest trans_number in
\* tb_trans_daily, was counted, is about to be, or was dropped by an interrupted
\* run: days that come out of block order make a run skip none.
NoneSkipped ==
  \A c \in Channels : \A n \in Numbers(trans[c]) :
    BelowWatermark(n, daily[c]) =>
      \/ n \in counted[c] \union lost[c]
      \/ chan = c /\ \E d \in Days : n \in pending[d]

\* When the days follow the order of the chain an interrupted run loses
\* nothing: the next one counts what it left.
NoneSkippedInOrder ==
  \A c \in Channels : \A n \in Numbers(trans[c]) :
    BelowWatermark(n, daily[c]) => n \in counted[c]

\* The overview of a counted channel has a latest block (ChannelMapper.getGeneral
\* joins on the watermark's row), unless TransRetainMax newer transactions came
\* in since the last count and DeleteInfoTask deleted the row.
OverviewShowsBlock ==
  \A c \in Channels : \A d \in Days : \A n \in daily[c][d] :
    IsWatermark(n, daily[c]) =>
      \/ LatestBlock(trans[c], daily[c]) # {}
      \/ \E t \in trans[c] : n + TransRetainMax <= t.num

-----------------------------------------------------------------------------
(* Refinement: the block tables mirror the chains, and every transaction   *)
(* number has one life.                                                    *)

Mirror == INSTANCE ChainMirror WITH mirror <- blocks, Retain <- BlockRetainMax

\* Every step of the tasks, faults included, leaves the block tables alone or is
\* a step of the mirror: it records the successor of the newest block, one that
\* some front has published, or forgets the oldest blocks.
MirrorsChain == Mirror!Spec

Life == INSTANCE TransLife WITH issued <- auto, dropped <- lost, Retain <- TransRetainMax,
                                stored <- [c \in Channels |-> Numbers(trans[c])]

\* Every step of the tasks, faults included, is a step in the life of the numbers
\* of one channel or changes nothing about them: statistics counts stored
\* transactions that no run counted before, an interrupted run only drops what
\* it has not counted, and DeleteInfoTask takes the oldest rows, all of them
\* counted or dropped (StatisticsTransDailyTask, TransactionMapper.remove).
LivesOnce == Life!Spec

-----------------------------------------------------------------------------
(* What a comment or an annotation of the code says, and the code does not *)
(* do: each is refuted by a run of its own.                                *)

\* @Transactional on saveBLockInfo: a block and its transactions are saved
\* together or not at all.
BlockSavedWhole ==
  \A c \in Channels : \A b \in blocks[c] :
    Complete(c, b) \/ (pc = "save" /\ chan = c /\ next = b)

\* "counting daily transaction data": between two runs of the statistics a
\* row's trans_count is the number of the day's transactions up to the
\* watermark.  For runs that delete no transactions.
DailyCountWhole ==
  pc = "idle" =>
    \A c \in Channels : \A d \in Days :
      Cardinality(daily[c][d]) =
        Cardinality({ t \in trans[c] : t.day = d /\ BelowWatermark(t.num, daily[c]) })

\* "query count of trans by minus max and min trans_number": the result is the
\* number of rows (TransactionService.queryCountOfTranByMinus).
TransCountExact ==
  \A c \in Channels : trans[c] # {} =>
    TransCountByMinMax(trans[c]) = Cardinality(trans[c])

-----------------------------------------------------------------------------
(* Liveness.                                                               *)

\* What the thread does once a task has started.
ThreadStep ==
  \/ EnterLoop \/ AddBlock \/ SaveTrans \/ BlockSaved \/ Again
  \/ \E f \in Fronts : \/ PullRow(f) \/ RequestHeight(f) \/ Fetch(f)
                       \/ FetchBehind(f) \/ RefreshHeight(f)
  \/ \E c \in Channels : QueryLatest(c) \/ DeleteByChannelId(c)
  \/ \E d \in Days : SaveDay(d)
  \/ RemoveBlocks \/ RemoveTrans \/ EndTask

\* The thread goes on as long as it has a step to take.  Spring's scheduler
\* queue runs an overdue task before one that falls due later, so none of the
\* three is overtaken for ever; buildFrontUrl shuffles the fronts, so each is
\* asked again and again.
Fairness ==
  /\ WF_vars(ThreadStep)
  /\ SF_vars(StartPull) /\ SF_vars(StartStatistics) /\ SF_vars(StartDelete)
  /\ \A f \in Fronts : SF_vars(RequestHeight(f)) /\ SF_vars(Fetch(f))

\* Faults are given as much time as they like, but not for ever.
ReliableSpec == Spec /\ Fairness /\ WF_vars(Settle)

\* Again and again the table has caught up with every block a front reports
\* (BlockService.pullBlockByChannelId), although fronts that are behind answer
\* some of the requests.
CatchesUp ==
  \A f \in Fronts : []<>(\E b \in blocks[ChannelOf[f]] : b + 1 >= height[f])

\* Again and again everything stored lies below the watermark: statistics gets
\* its turn on the shared thread (StatisticsTransDailyTask).
EveryTransCounted ==
  \A c \in Channels : []<>(\A t \in trans[c] : BelowWatermark(t.num, daily[c]))

\* Again and again the rows above BlockRetainMax have been deleted
\* (DeleteInfoTask.deleteBlock).
RetentionReached ==
  \A c \in Channels : []<>(Cardinality(blocks[c]) <= BlockRetainMax)

=============================================================================
