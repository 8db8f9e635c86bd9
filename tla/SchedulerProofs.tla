-------------------------- MODULE SchedulerProofs --------------------------
(***************************************************************************)
(* Proofs about Scheduler, for any fronts, channels, ledgers, settings and *)
(* kinds of fault.                                                         *)
(*                                                                         *)
(* The invariant the proofs rest on says three things.  A block table is   *)
(* an interval of numbers (Windows), so that its newest number exists; the *)
(* block the thread is about to add is the successor of that newest number *)
(* and is in the ledger of a front (NextInOrder), because no other task    *)
(* writes the table while a pull runs; and a transaction's number is below *)
(* the AUTO_INCREMENT value, its block not above the newest (TransInOrder).*)
(***************************************************************************)
EXTENDS Scheduler, TLAPS, FiniteSetTheorems

\* A set of block numbers without a gap.
IsWindow(S) == S = {} \/ \E lo, hi \in Nat : lo <= hi /\ S = lo..hi

Windows == \A c \in Channels : IsWindow(blocks[c])

\* A front reports no more blocks than its channel's ledger has.
HeightsInLedger == \A f \in Fronts : height[f] <= Len(Ledger[ChannelOf[f]])

NextInOrder ==
  /\ pc \in {"fetch", "add", "refresh"} =>
       blocks[chan] = {} \/ next = NumberAfter(blocks[chan])
  /\ pc = "add" => \E f \in Fronts : ChannelOf[f] = chan /\ next < height[f]
  /\ pc = "save" => blocks[chan] # {} /\ next = Max(blocks[chan])

TransInOrder ==
  /\ TransOfRecordedBlocks
  /\ \A c \in Channels : \A t \in trans[c] : t.num < auto[c]
  /\ TransInBlockOrder

IInv == TypeOK /\ HeightsInLedger /\ Windows /\ NextInOrder /\ TransInOrder

-----------------------------------------------------------------------------
(* Windows of block numbers under the statements of BlockMapper.           *)

\* The newest block of a table without gaps.
LEMMA MaxOfWindow ==
  ASSUME NEW S, IsWindow(S), S # {}
  PROVE  /\ Max(S) \in S
         /\ Max(S) \in Nat
         /\ \A n \in S : n \in Nat /\ n <= Max(S)
<1>1. PICK lo \in Nat, hi \in Nat : lo <= hi /\ S = lo..hi
  BY DEF IsWindow
<1>2. hi \in S /\ \A n \in S : hi >= n
  BY <1>1
<1>3. \A m \in S : (\A n \in S : m >= n) => m = hi
  BY <1>1, <1>2
<1>4. Max(S) = hi
  BY <1>2, <1>3 DEF Max
<1> QED
  BY <1>1, <1>2, <1>4

\* The first and the last number of a table without gaps.
LEMMA EndsOfWindow ==
  ASSUME NEW lo \in Nat, NEW hi \in Nat, lo <= hi
  PROVE  Max(lo..hi) = hi /\ Min(lo..hi) = lo
<1>1. hi \in lo..hi /\ lo \in lo..hi
  OBVIOUS
<1>2. \A m \in lo..hi : (\A n \in lo..hi : m >= n) => m = hi
  BY <1>1
<1>3. \A m \in lo..hi : (\A n \in lo..hi : m <= n) => m = lo
  BY <1>1
<1>4. Max(lo..hi) = hi
  <2>1. \A n \in lo..hi : hi >= n
    OBVIOUS
  <2> QED BY <1>1, <1>2, <2>1 DEF Max
<1>5. Min(lo..hi) = lo
  <2>1. \A n \in lo..hi : lo <= n
    OBVIOUS
  <2> QED BY <1>1, <1>3, <2>1 DEF Min
<1> QED BY <1>4, <1>5

\* addBlockInfo keeps a table free of gaps, and its block becomes the newest.
LEMMA AddToWindow ==
  ASSUME NEW S, IsWindow(S), NEW n \in Nat,
         S = {} \/ n = NumberAfter(S)
  PROVE  IsWindow(S \union {n}) /\ Max(S \union {n}) = n
<1>1. CASE S = {}
  <2>1. S \union {n} = n..n /\ n <= n
    BY <1>1
  <2>2. Max(n..n) = n
    BY EndsOfWindow
  <2>3. IsWindow(n..n)
    BY <2>1 DEF IsWindow
  <2> QED BY <2>1, <2>2, <2>3
<1>2. CASE S # {}
  <2>1. PICK lo \in Nat, hi \in Nat : lo <= hi /\ S = lo..hi
    BY <1>2 DEF IsWindow
  <2>2. n = hi + 1
    BY <1>2, <2>1, EndsOfWindow DEF NumberAfter
  <2>3. S \union {n} = lo..n /\ lo <= n
    BY <2>1, <2>2
  <2>4. Max(lo..n) = n
    BY <2>3, EndsOfWindow
  <2>5. IsWindow(lo..n)
    BY <2>3 DEF IsWindow
  <2> QED BY <2>3, <2>4, <2>5
<1> QED BY <1>1, <1>2

\* BlockMapper.remove keeps a table free of gaps: it takes an initial segment,
\* and never the newest block.
LEMMA RemoveFromWindow ==
  ASSUME NEW S, IsWindow(S), S # {}, NEW retain \in Nat \ {0}
  PROVE  LET left == S \ RemovableBlocks(S, retain)
         IN /\ IsWindow(left)
            /\ Max(S) \in left
            /\ left # S => \E low \in left : /\ left = { n \in S : n >= low }
                                             /\ low + retain <= Max(S) + 1
            /\ left = S => \A low \in S : Max(S) < low + retain
<1>1. PICK lo \in Nat, hi \in Nat : lo <= hi /\ S = lo..hi
  BY DEF IsWindow
<1>2. Max(S) = hi
  BY <1>1, EndsOfWindow
<1> DEFINE left == S \ RemovableBlocks(S, retain)
           bound == IF hi - retain <= lo + DeleteSpan THEN hi - retain
                                                      ELSE lo + DeleteSpan
           low == IF bound + 1 >= lo THEN bound + 1 ELSE lo
<1>3. RemovableBlocks(S, retain) = { n \in lo..hi : n + retain <= hi /\ n <= lo + DeleteSpan }
  BY <1>1, DeleteSpanAssumption DEF RemovableBlocks
<1>4. low \in Nat /\ lo <= low /\ low <= hi
  BY <1>1, DeleteSpanAssumption
<1>5. left = low..hi
  BY <1>1, <1>3, DeleteSpanAssumption
<1>6. IsWindow(left) /\ hi \in left
  <2> HIDE DEF low, left
  <2>1. hi \in low..hi /\ IsWindow(low..hi)
    BY <1>1, <1>4 DEF IsWindow
  <2> QED BY <1>5, <2>1
<1>7. ASSUME left # S
      PROVE  \E l \in left : left = { n \in S : n >= l } /\ l + retain <= hi + 1
  <2>1. low # lo
    BY <1>1, <1>5, <1>7
  <2>2. low \in left /\ low + retain <= hi + 1
    BY <1>1, <1>4, <1>5, <2>1, DeleteSpanAssumption
  <2>3. left = { n \in S : n >= low }
    BY <1>1, <1>4, <1>5
  <2> QED BY <2>2, <2>3
<1>8. ASSUME left = S
      PROVE  \A l \in S : hi < l + retain
  <2>1. lo \notin RemovableBlocks(S, retain)
    BY <1>1, <1>8
  <2>2. hi < lo + retain
    BY <1>1, <1>3, <2>1, DeleteSpanAssumption
  <2> QED BY <1>1, <2>2
<1> QED BY <1>2, <1>6, <1>7, <1>8
-----------------------------------------------------------------------------
(* Type correctness.                                                       *)

\* getNextBlockNumber returns a number, on a filled table the next one.
LEMMA NextBlockNumbersType ==
  ASSUME TypeOK, Windows, NEW c \in Channels, NEW n \in NextBlockNumbers(c)
  PROVE  /\ n \in Nat
         /\ blocks[c] = {} \/ n = NumberAfter(blocks[c])
<1>1. CASE blocks[c] # {}
  <2>1. n = NumberAfter(blocks[c])
    BY <1>1 DEF NextBlockNumbers
  <2>2. Max(blocks[c]) \in Nat
    BY <1>1, MaxOfWindow DEF Windows
  <2> QED BY <2>1, <2>2 DEF NumberAfter
<1>2. CASE blocks[c] = {}
  <2>1. CASE IsBlockPullFromZero
    BY <1>2, <2>1 DEF NextBlockNumbers
  <2>2. CASE ~ IsBlockPullFromZero
    <3>1. PICK f \in FrontsOf(c) : n = InitBlock(height[f])
      BY <1>2, <2>2 DEF NextBlockNumbers
    <3>2. height[f] \in Nat
      BY <3>1 DEF TypeOK, FrontsOf
    <3> QED BY <1>2, <3>1, <3>2, ScheduleAssumption DEF InitBlock
  <2> QED BY <2>1, <2>2
<1> QED BY <1>1, <1>2

LEMMA InitType == Init => TypeOK
<1> SUFFICES ASSUME Init PROVE TypeOK
  OBVIOUS
<1>1. calm \in BOOLEAN
  BY DEF Init
<1>2. height \in [Fronts -> Nat]
  BY DEF Init
<1> QED
  BY <1>1, <1>2, LedgerAssumption DEF Init, TypeOK, NoGroups, PcValues, PullRowPc

\* Both outcomes of the loop condition are type correct.
LEMMA LoopTestType ==
  ASSUME TypeOK, pc \in PullRowPc, NEW m \in Nat, NEW n \in Nat, LoopTest(m, n),
         UNCHANGED <<chain, tables, todo, history>>
  PROVE  TypeOK'
<1> USE DEF TypeOK, PcValues, PullRowPc, tables, chain, locals, history
<1>1. CASE pc' = "fetch" /\ top' = m /\ next' = n /\ UNCHANGED <<chan, rest, pending>>
  BY <1>1
<1>2. CASE pc' = "rows" /\ ClearLocals
  BY <1>2 DEF ClearLocals, NoGroups
<1> QED BY <1>1, <1>2 DEF LoopTest

\* Type correctness of the pull task's steps.
LEMMA PullType ==
  ASSUME TypeOK, HeightsInLedger, Windows, Pull
  PROVE  TypeOK'
<1> USE DEF TypeOK, PcValues, PullRowPc, tables, chain, locals, history
<1>1. CASE StartPull
  BY <1>1 DEF StartPull
<1>2. ASSUME NEW f \in Fronts, PullRow(f) PROVE TypeOK'
  BY <1>2, FrontsAssumption DEF PullRow
<1>3. ASSUME NEW f \in Fronts, RequestHeight(f) PROVE TypeOK'
  BY <1>3 DEF RequestHeight
<1>4. CASE EnterLoop
  <2>1. chan \in Channels
    BY <1>4 DEF EnterLoop
  <2>2. PICK n \in NextBlockNumbers(chan) : LoopTest(top, n)
    BY <1>4 DEF EnterLoop
  <2>3. n \in Nat
    BY <2>1, <2>2, NextBlockNumbersType
  <2>4. top \in Nat /\ pc \in PullRowPc /\ UNCHANGED <<chain, tables, todo, history>>
    BY <1>4 DEF EnterLoop
  <2> QED BY <2>2, <2>3, <2>4, LoopTestType
<1>5. ASSUME NEW f \in Fronts, Fetch(f) PROVE TypeOK'
  <2>1. /\ chan \in Channels
        /\ ChannelOf[f] = chan
        /\ next \in Nat /\ height[f] \in Nat
        /\ next < height[f]
        /\ height[f] <= Len(Ledger[chan])
    BY <1>5 DEF Fetch, FrontsOf, HeightsInLedger
  <2>2. Ledger[chan] \in Seq(Seq(Envelope))
    BY <2>1, LedgerAssumption
  <2>3. Ledger[chan][next + 1] \in Seq(Envelope)
    BY <2>1, <2>2
  <2> QED BY <1>5, <2>3 DEF Fetch
<1>6. ASSUME NEW f \in Fronts, FetchBehind(f) PROVE TypeOK'
  BY <1>6 DEF FetchBehind, ClearLocals, NoGroups
<1>7. CASE AddBlock
  BY <1>7 DEF AddBlock
<1>8. CASE SaveTrans
  <2>1. /\ chan \in Channels
        /\ Head(rest) \in Envelope
        /\ Tail(rest) \in Seq(Envelope)
        /\ auto[chan] \in Nat \ {0}
    BY <1>8 DEF SaveTrans
  <2> DEFINE row == [num |-> auto[chan], id |-> Head(rest).id,
                     block |-> next, day |-> Head(rest).day]
  <2>2. row \in TransRow
    BY <2>1 DEF TransRow, Envelope
  <2>3. InsertTrans(trans[chan], row) \in SUBSET TransRow
    BY <2>1, <2>2 DEF InsertTrans
  <2>4. CASE /\ trans' = [trans EXCEPT ![chan] = InsertTrans(@, row)]
             /\ auto' = [auto EXCEPT ![chan] = @ + 1]
    <3>1. trans' \in [Channels -> SUBSET TransRow]
      <4> HIDE DEF row
      <4> QED BY <2>1, <2>3, <2>4
    <3>2. auto' \in [Channels -> Nat \ {0}]
      BY <2>1, <2>4
    <3> QED BY <1>8, <2>1, <3>1, <3>2 DEF SaveTrans
  <2>5. CASE UNCHANGED <<trans, auto>>
    BY <1>8, <2>1, <2>5 DEF SaveTrans
  <2> QED BY <1>8, <2>4, <2>5 DEF SaveTrans
<1>9. CASE BlockSaved
  BY <1>9 DEF BlockSaved
<1>10. CASE Again
  <2>1. chan \in Channels
    BY <1>10 DEF Again
  <2>2. PICK n \in NextBlockNumbers(chan) :
          \/ LoopTest(top, n)
          \/ /\ next' = n /\ pc' = "refresh" /\ UNCHANGED <<chan, top, rest, pending>>
    BY <1>10 DEF Again
  <2>3. n \in Nat
    BY <2>1, <2>2, NextBlockNumbersType
  <2>4. /\ top \in Nat /\ pc \in PullRowPc /\ chan \in Channels
        /\ UNCHANGED <<chain, tables, todo, history>>
    BY <1>10 DEF Again
  <2>5. CASE LoopTest(top, n)
    BY <2>3, <2>4, <2>5, LoopTestType
  <2>6. CASE next' = n /\ pc' = "refresh" /\ UNCHANGED <<chan, top, rest, pending>>
    BY <2>3, <2>4, <2>6
  <2> QED BY <2>2, <2>5, <2>6
<1>11. ASSUME NEW f \in Fronts, RefreshHeight(f) PROVE TypeOK'
  <2>1. /\ height[f] \in Nat /\ next \in Nat /\ pc \in PullRowPc
        /\ UNCHANGED <<chain, tables, todo, history>>
        /\ LoopTest(height[f], next)
    BY <1>11 DEF RefreshHeight
  <2> QED BY <2>1, LoopTestType
<1> QED
  BY <1>1, <1>2, <1>3, <1>4, <1>5, <1>6, <1>7, <1>8, <1>9, <1>10, <1>11 DEF Pull

\* Type correctness of the statistics and the delete task's steps.
LEMMA StatisticsDeleteType ==
  ASSUME TypeOK, Statistics \/ Delete
  PROVE  TypeOK'
<1> USE DEF TypeOK, PcValues, PullRowPc, tables, chain, locals, history
<1>1. CASE StartStatistics
  BY <1>1 DEF StartStatistics
<1>2. ASSUME NEW c \in Channels, QueryLatest(c) PROVE TypeOK'
  <2>1. LatestTransCount(trans[c], daily[c]) \in [Days -> SUBSET Nat]
    BY DEF LatestTransCount, TransRow
  <2> QED BY <1>2, <2>1 DEF QueryLatest
<1>3. ASSUME NEW d \in Days, SaveDay(d) PROVE TypeOK'
  BY <1>3 DEF SaveDay, NoGroups
<1>4. CASE StartDelete
  BY <1>4 DEF StartDelete
<1>5. ASSUME NEW c \in Channels, DeleteByChannelId(c) PROVE TypeOK'
  BY <1>5 DEF DeleteByChannelId
<1>6. CASE RemoveBlocks
  BY <1>6 DEF RemoveBlocks
<1>7. CASE RemoveTrans
  BY <1>7 DEF RemoveTrans
<1> QED
  BY <1>1, <1>2, <1>3, <1>4, <1>5, <1>6, <1>7 DEF Statistics, Delete

\* Type correctness of the remaining steps.
LEMMA OtherType ==
  ASSUME TypeOK, (\E f \in Fronts : Grow(f)) \/ EndTask \/ Fault \/ Settle
  PROVE  TypeOK'
<1> USE DEF TypeOK, PcValues, PullRowPc, tables, chain, locals, history
<1>1. ASSUME NEW f \in Fronts, Grow(f) PROVE TypeOK'
  BY <1>1 DEF Grow
<1>2. CASE EndTask
  BY <1>2 DEF EndTask
<1>3. CASE Unanswered
  BY <1>3 DEF Unanswered
<1>4. CASE PullFails
  BY <1>4 DEF PullFails, AsksFront, AsksDatabase, TornNow, ClearLocals, NoGroups
<1>5. CASE StatisticsFails
  BY <1>5 DEF StatisticsFails, LostNow, ClearLocals, NoGroups
<1>6. CASE DeleteFails
  BY <1>6 DEF DeleteFails
<1>7. CASE Crash
  BY <1>7 DEF Crash, TornNow, LostNow, ClearLocals, NoGroups
<1>8. CASE Settle
  BY <1>8 DEF Settle
<1> QED
  BY <1>1, <1>2, <1>3, <1>4, <1>5, <1>6, <1>7, <1>8 DEF Fault
-----------------------------------------------------------------------------
(* Who writes what.                                                        *)

\* Only a front's peer changes the heights; only the pull task adds to a block
\* table or a transaction table, only the delete task takes from them.
LEMMA Writers ==
  ASSUME [Next]_vars
  PROVE  /\ UNCHANGED height \/ \E f \in Fronts : Grow(f)
         /\ UNCHANGED blocks \/ AddBlock \/ RemoveBlocks
         /\ UNCHANGED <<trans, auto>> \/ SaveTrans \/ RemoveTrans
<1> USE DEF tables, chain, locals, history
<1>1. CASE UNCHANGED vars
  BY <1>1 DEF vars
<1>2. ASSUME NEW f \in Fronts, Grow(f)
      PROVE  UNCHANGED <<blocks, trans, auto>>
  BY <1>2 DEF Grow
<1>3. CASE Pull
  BY <1>3 DEF Pull, StartPull, PullRow, RequestHeight, EnterLoop, Fetch, FetchBehind,
              AddBlock, SaveTrans, BlockSaved, Again, RefreshHeight
<1>4. CASE Statistics
  BY <1>4 DEF Statistics, StartStatistics, QueryLatest, SaveDay
<1>5. CASE Delete
  BY <1>5 DEF Delete, StartDelete, DeleteByChannelId, RemoveBlocks, RemoveTrans
<1>6. CASE EndTask
  BY <1>6 DEF EndTask
<1>7. CASE Fault
  BY <1>7 DEF Fault, Unanswered, PullFails, StatisticsFails, DeleteFails, Crash
<1>8. CASE Settle
  BY <1>8 DEF Settle
<1> QED
  BY <1>1, <1>2, <1>3, <1>4, <1>5, <1>6, <1>7, <1>8 DEF Next

-----------------------------------------------------------------------------
(* The inductive invariant.                                                *)

LEMMA InitInv == Init => IInv
<1> SUFFICES ASSUME Init PROVE IInv
  OBVIOUS
<1>1. TypeOK
  BY InitType
<1>2. HeightsInLedger
  <2> SUFFICES ASSUME NEW f \in Fronts
               PROVE  height[f] <= Len(Ledger[ChannelOf[f]])
    BY DEF HeightsInLedger
  <2>1. Ledger[ChannelOf[f]] \in Seq(Seq(Envelope)) /\ Ledger[ChannelOf[f]] # <<>>
    BY FrontsAssumption, LedgerAssumption
  <2>2. height[f] = 1
    BY DEF Init
  <2> QED BY <2>1, <2>2
<1>3. Windows /\ NextInOrder /\ TransInOrder
  BY DEF Init, Windows, IsWindow, NextInOrder, TransInOrder,
         TransOfRecordedBlocks, TransInBlockOrder
<1> QED BY <1>1, <1>2, <1>3 DEF IInv

LEMMA HeightsNext ==
  ASSUME IInv, [Next]_vars
  PROVE  HeightsInLedger'
<1>1. CASE UNCHANGED height
  BY <1>1 DEF IInv, HeightsInLedger
<1>2. ASSUME NEW f \in Fronts, Grow(f) PROVE HeightsInLedger'
  <2> SUFFICES ASSUME NEW g \in Fronts
               PROVE  height'[g] <= Len(Ledger[ChannelOf[g]])
    BY DEF HeightsInLedger
  <2>1. Len(Ledger[ChannelOf[g]]) \in Nat
    BY FrontsAssumption, LedgerAssumption
  <2> QED BY <1>2, <2>1 DEF Grow, IInv, TypeOK, HeightsInLedger
<1> QED BY <1>1, <1>2, Writers

\* addBlockInfo never declines the block: its number is the next one.
LEMMA AddBlockAdds ==
  ASSUME IInv, AddBlock
  PROVE  /\ chan \in Channels /\ next \in Nat
         /\ blocks[chan] = {} \/ next = NumberAfter(blocks[chan])
         /\ blocks' = [blocks EXCEPT ![chan] = @ \union {next}]
BY DEF IInv, TypeOK, NextInOrder, AddBlock, PullRowPc

LEMMA WindowsNext ==
  ASSUME IInv, [Next]_vars
  PROVE  Windows'
<1>1. CASE UNCHANGED blocks
  BY <1>1 DEF IInv, Windows
<1>2. CASE AddBlock
  <2>1. IsWindow(blocks[chan] \union {next})
    BY <1>2, AddBlockAdds, AddToWindow DEF IInv, Windows
  <2> QED BY <1>2, <2>1, AddBlockAdds DEF IInv, TypeOK, Windows
<1>3. CASE RemoveBlocks
  <2>1. chan \in Channels
    BY <1>3 DEF IInv, TypeOK, PullRowPc, RemoveBlocks
  <2>2. IsWindow(blocks[chan] \ RemovableBlocks(blocks[chan], BlockRetainMax))
    <3>1. CASE blocks[chan] = {}
      BY <3>1 DEF IsWindow
    <3>2. CASE blocks[chan] # {}
      BY <2>1, <3>2, RemoveFromWindow, ScheduleAssumption DEF IInv, Windows
    <3> QED BY <3>1, <3>2
  <2> QED BY <1>3, <2>1, <2>2 DEF IInv, TypeOK, Windows, RemoveBlocks
<1> QED BY <1>1, <1>2, <1>3, Writers
\* A step that leaves the table, the channel and the block alone, and does not
\* go anywhere near the loop of the pull, keeps the order.
LEMMA NextElsewhere ==
  ASSUME pc' \notin {"fetch", "add", "save", "refresh"}
  PROVE  NextInOrder'
BY DEF NextInOrder

LEMMA LoopTestNext ==
  ASSUME NEW m, NEW n, LoopTest(m, n), UNCHANGED blocks,
         blocks[chan] = {} \/ n = NumberAfter(blocks[chan])
  PROVE  NextInOrder'
BY DEF LoopTest, NextInOrder

LEMMA NextInOrderPull ==
  ASSUME IInv, Pull
  PROVE  NextInOrder'
<1> USE DEF tables, chain, locals, history
<1>1. CASE StartPull
  BY <1>1, NextElsewhere DEF StartPull
<1>2. ASSUME NEW f \in Fronts, PullRow(f) \/ RequestHeight(f) \/ FetchBehind(f)
      PROVE  NextInOrder'
  BY <1>2, NextElsewhere DEF PullRow, RequestHeight, FetchBehind
<1>3. CASE EnterLoop \/ Again
  <2>1. chan \in Channels /\ UNCHANGED blocks
    BY <1>3 DEF EnterLoop, Again, IInv, TypeOK, PullRowPc
  <2>2. PICK n \in NextBlockNumbers(chan) :
          LoopTest(top, n) \/ (pc' = "refresh" /\ next' = n /\ UNCHANGED chan)
    BY <1>3 DEF EnterLoop, Again
  <2>3. blocks[chan] = {} \/ n = NumberAfter(blocks[chan])
    BY <2>1, <2>2, NextBlockNumbersType DEF IInv
  <2>4. CASE LoopTest(top, n)
    BY <2>1, <2>3, <2>4, LoopTestNext
  <2>5. CASE pc' = "refresh" /\ next' = n /\ UNCHANGED chan
    BY <2>1, <2>3, <2>5 DEF NextInOrder
  <2> QED BY <2>2, <2>4, <2>5
<1>4. ASSUME NEW f \in Fronts, Fetch(f) PROVE NextInOrder'
  BY <1>4 DEF Fetch, FrontsOf, IInv, NextInOrder
<1>5. CASE AddBlock
  <2>1. IsWindow(blocks[chan])
    BY <1>5, AddBlockAdds DEF IInv, Windows
  <2>2. Max(blocks[chan] \union {next}) = next
    BY <1>5, <2>1, AddBlockAdds, AddToWindow
  <2>3. blocks'[chan] = blocks[chan] \union {next}
    BY <1>5, AddBlockAdds DEF IInv, TypeOK
  <2> QED BY <1>5, <2>2, <2>3 DEF AddBlock, NextInOrder
<1>6. CASE SaveTrans
  BY <1>6 DEF SaveTrans, IInv, NextInOrder
<1>7. CASE BlockSaved
  BY <1>7, NextElsewhere DEF BlockSaved
<1>8. ASSUME NEW f \in Fronts, RefreshHeight(f) PROVE NextInOrder'
  BY <1>8, LoopTestNext DEF RefreshHeight, IInv, NextInOrder
<1> QED
  BY <1>1, <1>2, <1>3, <1>4, <1>5, <1>6, <1>7, <1>8 DEF Pull

LEMMA NextInOrderNext ==
  ASSUME IInv, [Next]_vars
  PROVE  NextInOrder'
<1> USE DEF tables, chain, locals, history
<1>1. CASE UNCHANGED vars
  BY <1>1 DEF vars, IInv, NextInOrder
<1>2. ASSUME NEW f \in Fronts, Grow(f) PROVE NextInOrder'
  <2>1. /\ UNCHANGED <<blocks, pc, chan, next>>
        /\ \A g \in Fronts : height'[g] >= height[g]
        /\ \A g \in Fronts : height[g] \in Nat /\ height'[g] \in Nat
        /\ next \in Nat
    BY <1>2 DEF Grow, IInv, TypeOK
  <2> QED BY <2>1 DEF IInv, NextInOrder
<1>3. CASE Statistics
  BY <1>3, NextElsewhere DEF Statistics, StartStatistics, QueryLatest, SaveDay
<1>4. CASE Delete
  BY <1>4, NextElsewhere DEF Delete, StartDelete, DeleteByChannelId, RemoveBlocks, RemoveTrans
<1>5. CASE EndTask
  BY <1>5, NextElsewhere DEF EndTask
<1>6. CASE Fault
  BY <1>6, NextElsewhere DEF Fault, Unanswered, PullFails, StatisticsFails, DeleteFails, Crash
<1>7. CASE Settle
  BY <1>7 DEF Settle, IInv, NextInOrder
<1> QED
  BY <1>1, <1>2, <1>3, <1>4, <1>5, <1>6, <1>7, NextInOrderPull DEF Next

-----------------------------------------------------------------------------
(* Transactions: blocks and numbers grow together.                         *)

\* Inserting a row of the newest block under the next number keeps the order.
LEMMA InsertInOrder ==
  ASSUME NEW c \in Channels, NEW row \in TransRow,
         NEW T \in SUBSET TransRow,
         \A t \in T : t.num < row.num /\ t.block <= row.block,
         \A t, u \in T : t.num < u.num => t.block <= u.block
  PROVE  LET T2 == InsertTrans(T, row)
         IN /\ \A t \in T2 : t.num < row.num + 1
            /\ \A t, u \in T2 : t.num < u.num => t.block <= u.block
<1>1. \A t \in T \union {row} : t.num \in Nat /\ t.block \in Nat
  BY DEF TransRow
<1>2. \A t \in T \union {row} : t \in T \/ t = row
  OBVIOUS
<1>3. \A t \in T \union {row} : t.num < row.num + 1
  BY <1>1, <1>2
<1>4. \A t, u \in T \union {row} : t.num < u.num => t.block <= u.block
  BY <1>1, <1>2
<1> QED BY <1>3, <1>4 DEF InsertTrans

LEMMA TransInOrderSave ==
  ASSUME IInv, SaveTrans
  PROVE  TransInOrder'
<1> DEFINE e == Head(rest)
           row == [num |-> auto[chan], id |-> e.id, block |-> next, day |-> e.day]
<1>1. /\ chan \in Channels
      /\ e \in Envelope
      /\ auto[chan] \in Nat \ {0}
      /\ next \in Nat
      /\ trans[chan] \in SUBSET TransRow
      /\ UNCHANGED blocks
  BY DEF SaveTrans, IInv, TypeOK, PullRowPc
<1>2. row \in TransRow
  BY <1>1 DEF TransRow, Envelope
<1>3. next \in blocks[chan] /\ \A b \in blocks[chan] : b \in Nat /\ b <= next
  <2>1. blocks[chan] # {} /\ next = Max(blocks[chan]) /\ IsWindow(blocks[chan])
    BY <1>1 DEF SaveTrans, IInv, NextInOrder, Windows
  <2> QED BY <2>1, MaxOfWindow
<1>4. \A t \in trans[chan] : t.num < auto[chan] /\ t.block <= next
  <2> SUFFICES ASSUME NEW t \in trans[chan] PROVE t.num < auto[chan] /\ t.block <= next
    OBVIOUS
  <2>1. PICK b \in blocks[chan] : t.block <= b
    BY <1>1 DEF IInv, TransInOrder, TransOfRecordedBlocks
  <2>2. t.block \in Nat
    BY <1>1 DEF TransRow
  <2> QED BY <1>1, <1>3, <2>1, <2>2 DEF IInv, TransInOrder
<1>5. CASE UNCHANGED <<trans, auto>>
  BY <1>1, <1>5 DEF IInv, TransInOrder, TransOfRecordedBlocks, TransInBlockOrder
<1>6. CASE /\ trans' = [trans EXCEPT ![chan] = InsertTrans(@, row)]
           /\ auto' = [auto EXCEPT ![chan] = @ + 1]
  <2>1. row.num = auto[chan] /\ row.block = next
    OBVIOUS
  <2> HIDE DEF row
  <2>2. /\ \A t \in InsertTrans(trans[chan], row) : t.num < auto[chan] + 1
        /\ \A t, u \in InsertTrans(trans[chan], row) : t.num < u.num => t.block <= u.block
    <3>1. \A t, u \in trans[chan] : t.num < u.num => t.block <= u.block
      BY <1>1 DEF IInv, TransInOrder, TransInBlockOrder
    <3> QED BY <1>1, <1>2, <1>4, <2>1, <3>1, InsertInOrder
  <2>3. /\ trans'[chan] = InsertTrans(trans[chan], row)
        /\ auto'[chan] = auto[chan] + 1
        /\ \A c \in Channels : c # chan => trans'[c] = trans[c] /\ auto'[c] = auto[c]
    BY <1>1, <1>6 DEF IInv, TypeOK
  <2>4. \A t \in InsertTrans(trans[chan], row) : t.block <= next
    BY <1>1, <1>4, <2>1 DEF InsertTrans
  <2>5. TransOfRecordedBlocks'
    BY <1>1, <1>3, <2>3, <2>4 DEF IInv, TransInOrder, TransOfRecordedBlocks
  <2>6. (\A c \in Channels : \A t \in trans[c] : t.num < auto[c])'
    BY <2>2, <2>3 DEF IInv, TransInOrder
  <2>7. TransInBlockOrder'
    BY <2>2, <2>3 DEF IInv, TransInOrder, TransInBlockOrder
  <2> QED BY <2>5, <2>6, <2>7 DEF TransInOrder
<1> QED BY <1>5, <1>6 DEF SaveTrans

LEMMA TransInOrderNext ==
  ASSUME IInv, [Next]_vars
  PROVE  TransInOrder'
<1>1. CASE UNCHANGED <<blocks, trans, auto>>
  BY <1>1 DEF IInv, TransInOrder, TransOfRecordedBlocks, TransInBlockOrder
<1>2. CASE AddBlock
  <2>1. UNCHANGED <<trans, auto>> /\ \A c \in Channels : blocks[c] \subseteq blocks'[c]
    BY <1>2, AddBlockAdds DEF AddBlock, IInv, TypeOK
  <2> QED BY <2>1 DEF IInv, TransInOrder, TransOfRecordedBlocks, TransInBlockOrder
<1>3. CASE SaveTrans
  BY <1>3, TransInOrderSave
<1>4. CASE RemoveBlocks
  <2>1. chan \in Channels /\ UNCHANGED <<trans, auto>>
    BY <1>4 DEF IInv, TypeOK, RemoveBlocks, PullRowPc
  <2>2. \A b \in blocks[chan] : \E m \in blocks'[chan] : b <= m
    <3>1. blocks'[chan] = blocks[chan] \ RemovableBlocks(blocks[chan], BlockRetainMax)
      BY <1>4, <2>1 DEF IInv, TypeOK, RemoveBlocks
    <3>2. CASE blocks[chan] # {}
      <4>1. IsWindow(blocks[chan])
        BY <2>1 DEF IInv, Windows
      <4>2. Max(blocks[chan]) \in blocks'[chan]
        BY <3>1, <3>2, <4>1, RemoveFromWindow, ScheduleAssumption
      <4> QED BY <3>2, <4>1, <4>2, MaxOfWindow
    <3> QED BY <3>2
  <2>3. TransOfRecordedBlocks'
    <3> SUFFICES ASSUME NEW c \in Channels, NEW t \in trans[c]
                 PROVE  \E b \in blocks'[c] : t.block <= b
      BY <2>1 DEF TransOfRecordedBlocks
    <3>1. PICK b \in blocks[c] : t.block <= b
      BY DEF IInv, TransInOrder, TransOfRecordedBlocks
    <3>2. CASE c = chan
      <4>1. PICK m \in blocks'[chan] : b <= m
        BY <2>2, <3>1, <3>2
      <4>2. t.block \in Nat /\ b \in Nat /\ m \in Nat
        BY <1>4, <2>1, <3>1, <3>2, <4>1 DEF IInv, TypeOK, TransRow, RemoveBlocks
      <4> QED BY <3>1, <3>2, <4>1, <4>2
    <3>3. CASE c # chan
      BY <1>4, <3>1, <3>3 DEF RemoveBlocks, IInv, TypeOK
    <3> QED BY <3>2, <3>3
  <2> QED BY <2>1, <2>3 DEF IInv, TransInOrder, TransInBlockOrder
<1>5. CASE RemoveTrans
  <2>1. /\ \A c \in Channels : trans'[c] \subseteq trans[c]
        /\ UNCHANGED <<blocks, auto>>
    BY <1>5 DEF RemoveTrans, IInv, TypeOK
  <2> QED BY <2>1 DEF IInv, TransInOrder, TransOfRecordedBlocks, TransInBlockOrder
<1>6. AddBlock \/ RemoveBlocks => UNCHANGED <<trans, auto>>
  BY DEF AddBlock, RemoveBlocks
<1>7. SaveTrans \/ RemoveTrans => UNCHANGED blocks
  BY DEF SaveTrans, RemoveTrans
<1> QED BY <1>1, <1>2, <1>3, <1>4, <1>5, Writers

-----------------------------------------------------------------------------
(* The theorems.                                                           *)

LEMMA IInvNext == IInv /\ [Next]_vars => IInv'
<1> SUFFICES ASSUME IInv, [Next]_vars PROVE IInv'
  OBVIOUS
<1>1. TypeOK'
  <2>1. CASE UNCHANGED vars
    BY <2>1 DEF vars, IInv, TypeOK
  <2>2. CASE Next
    BY <2>2, PullType, StatisticsDeleteType, OtherType DEF Next, IInv
  <2> QED BY <2>1, <2>2
<1> QED
  BY <1>1, HeightsNext, WindowsNext, NextInOrderNext, TransInOrderNext DEF IInv

THEOREM Invariance == Spec => []IInv
<1>1. Init => IInv
  BY InitInv
<1>2. IInv /\ [Next]_vars => IInv'
  BY IInvNext
<1> QED
  BY <1>1, <1>2, PTL DEF Spec

\* Every variable of the tasks and every table keeps its type.
THEOREM TypeCorrect == Spec => []TypeOK
BY Invariance, PTL DEF IInv

\* A block table never has a gap.
THEOREM NoGaps == Spec => []BlocksContiguous
<1>1. IInv => BlocksContiguous
  <2> SUFFICES ASSUME IInv, NEW c \in Channels,
                      NEW lo \in blocks[c], NEW hi \in blocks[c]
               PROVE  lo..hi \subseteq blocks[c]
    BY DEF BlocksContiguous
  <2>1. PICK first \in Nat, last \in Nat : blocks[c] = first..last
    BY DEF IInv, Windows, IsWindow
  <2> QED BY <2>1
<1> QED BY <1>1, Invariance, PTL

\* The block count that the paging of BlockController shows, computed from the
\* first and last number only (queryCountOfBlockByMinus), is the number of rows.
THEOREM CountExact ==
  Spec => [](\A c \in Channels : blocks[c] # {} =>
               BlockCountByMinMax(blocks[c]) = Cardinality(blocks[c]))
<1>1. IInv => \A c \in Channels : blocks[c] # {} =>
                BlockCountByMinMax(blocks[c]) = Cardinality(blocks[c])
  <2> SUFFICES ASSUME IInv, NEW c \in Channels, blocks[c] # {}
               PROVE  BlockCountByMinMax(blocks[c]) = Cardinality(blocks[c])
    OBVIOUS
  <2>1. PICK lo \in Nat, hi \in Nat : lo <= hi /\ blocks[c] = lo..hi
    BY DEF IInv, Windows, IsWindow
  <2>2. Max(lo..hi) = hi /\ Min(lo..hi) = lo
    BY <2>1, EndsOfWindow
  <2>3. Cardinality(lo..hi) = hi - lo + 1
    BY <2>1, FS_Interval
  <2> QED BY <2>1, <2>2, <2>3 DEF BlockCountByMinMax
<1> QED BY <1>1, Invariance, PTL

\* No transaction is stored of a block above the newest stored one.
THEOREM TransRecorded == Spec => []TransOfRecordedBlocks
<1>1. IInv => TransOfRecordedBlocks
  BY DEF IInv, TransInOrder
<1> QED BY <1>1, Invariance, PTL

\* trans_number follows the order of the blocks.
THEOREM TransOrder == Spec => []TransInBlockOrder
<1>1. IInv => TransInBlockOrder
  BY DEF IInv, TransInOrder
<1> QED BY <1>1, Invariance, PTL

-----------------------------------------------------------------------------
(* Deletion.                                                               *)

\* A loop of deleteBlock that ends by itself leaves at most BlockRetainMax
\* rows, however many bounded statements that took.
THEOREM DeletionReaches ==
  Spec => [][pc = "delBlock" /\ RemoveBlocks /\ pc' # "delBlock" =>
               Cardinality(blocks'[chan]) <= BlockRetainMax]_vars
<1>1. ASSUME IInv, pc = "delBlock", RemoveBlocks, pc' # "delBlock"
      PROVE  Cardinality(blocks'[chan]) <= BlockRetainMax
  <2>1. /\ chan \in Channels
        /\ RemovableBlocks(blocks[chan], BlockRetainMax) = {}
        /\ blocks'[chan] = blocks[chan]
    BY <1>1 DEF RemoveBlocks, IInv, TypeOK, PullRowPc
  <2>2. CASE blocks[chan] = {}
    BY <2>1, <2>2, FS_EmptySet, ScheduleAssumption
  <2>3. CASE blocks[chan] # {}
    <3>2. IsWindow(blocks[chan])
      <4>1. chan \in Channels
        BY <2>1
      <4> QED BY <1>1, <4>1 DEF IInv, Windows
    <3>1. PICK lo \in Nat, hi \in Nat : lo <= hi /\ blocks[chan] = lo..hi
      BY <2>3, <3>2 DEF IsWindow
    <3>3. \A low \in blocks[chan] : Max(blocks[chan]) < low + BlockRetainMax
      BY <2>1, <2>3, <3>2, RemoveFromWindow, ScheduleAssumption
    <3>4. hi < lo + BlockRetainMax
      BY <3>1, <3>3, EndsOfWindow
    <3>5. Cardinality(lo..hi) = hi - lo + 1
      BY <3>1, FS_Interval
    <3> QED BY <2>1, <3>1, <3>4, <3>5, ScheduleAssumption
  <2> QED BY <2>2, <2>3
<1>2. IInv /\ [Next]_vars =>
        [pc = "delBlock" /\ RemoveBlocks /\ pc' # "delBlock" =>
           Cardinality(blocks'[chan]) <= BlockRetainMax]_vars
  BY <1>1
<1> QED BY <1>2, Invariance, PTL DEF Spec

-----------------------------------------------------------------------------
(* Refinement.                                                             *)

\* A step of the tasks is a step of the mirror or leaves it alone.
LEMMA MirrorStep ==
  ASSUME IInv, [Next]_vars
  PROVE  [Mirror!Next]_<<height, blocks>>
<1>1. CASE UNCHANGED <<height, blocks>>
  BY <1>1
<1>2. ASSUME NEW f \in Fronts, Grow(f) PROVE Mirror!Next
  BY <1>2 DEF Grow, tables, Mirror!Next, Mirror!Publish
<1>3. CASE AddBlock
  <2>1. PICK f \in Fronts : ChannelOf[f] = chan /\ next < height[f]
    BY <1>3 DEF AddBlock, IInv, NextInOrder
  <2>2. next \in Mirror!Published(chan)
    <3>1. next \in 0..(height[f] - 1)
      BY <1>3, <2>1, AddBlockAdds DEF IInv, TypeOK
    <3> QED BY <2>1, <3>1 DEF Mirror!Published
  <2>3. blocks[chan] = {} \/ (next - 1 \in blocks[chan] /\ \A n \in blocks[chan] : n < next)
    <3>1. IsWindow(blocks[chan])
      BY <1>3, AddBlockAdds DEF IInv, Windows
    <3>2. blocks[chan] = {} \/ next = Max(blocks[chan]) + 1
      BY <1>3, AddBlockAdds DEF NumberAfter
    <3> QED BY <3>1, <3>2, MaxOfWindow
  <2>4. UNCHANGED height
    BY <1>3 DEF AddBlock, chain
  <2>5. Mirror!Record(chan, next)
    BY <1>3, <2>2, <2>3, <2>4, AddBlockAdds DEF Mirror!Record
  <2> QED BY <1>3, <2>2, <2>5, AddBlockAdds DEF Mirror!Next
<1>4. CASE RemoveBlocks
  <2>1. /\ chan \in Channels
        /\ UNCHANGED height
        /\ blocks' = [blocks EXCEPT ![chan] = @ \ RemovableBlocks(@, BlockRetainMax)]
    BY <1>4 DEF RemoveBlocks, IInv, TypeOK, PullRowPc, chain
  <2> DEFINE left == blocks[chan] \ RemovableBlocks(blocks[chan], BlockRetainMax)
  <2>2. CASE left = blocks[chan]
    BY <2>1, <2>2 DEF IInv, TypeOK
  <2>3. CASE left # blocks[chan]
    <3>1. IsWindow(blocks[chan]) /\ blocks[chan] # {} /\ BlockRetainMax \in Nat \ {0}
      BY <2>1, <2>3, ScheduleAssumption DEF IInv, Windows
    <3>2. PICK low \in left : /\ left = { n \in blocks[chan] : n >= low }
                              /\ low + BlockRetainMax <= Max(blocks[chan]) + 1
      BY <2>3, <3>1, RemoveFromWindow
    <3>3. PICK lo \in Nat, hi \in Nat : lo <= hi /\ blocks[chan] = lo..hi
      BY <3>1 DEF IsWindow
    <3>4. low \in lo..hi /\ left = low..hi /\ low + BlockRetainMax <= hi + 1
      BY <3>2, <3>3, EndsOfWindow
    <3>5. low..(low + BlockRetainMax - 1) \subseteq blocks[chan]
      BY <3>1, <3>3, <3>4
    <3>6. blocks' = [blocks EXCEPT ![chan] = { n \in @ : n >= low }]
      BY <2>1, <3>2 DEF IInv, TypeOK
    <3>7. Mirror!Forget(chan, low)
      BY <2>1, <3>5, <3>6 DEF Mirror!Forget
    <3> QED BY <2>1, <3>3, <3>4, <3>7 DEF Mirror!Next
  <2> QED BY <2>2, <2>3
<1>5. (\E f \in Fronts : Grow(f)) => UNCHANGED blocks
  BY DEF Grow, tables
<1>6. AddBlock \/ RemoveBlocks => UNCHANGED height
  BY DEF AddBlock, RemoveBlocks, chain
<1> QED BY <1>1, <1>2, <1>3, <1>4, <1>5, <1>6, Writers

\* The pull and delete tasks implement ChainMirror, whatever faults occur.
THEOREM Refinement == Spec => MirrorsChain
<1>1. Init => Mirror!Init
  BY DEF Init, Mirror!Init
<1>2. IInv /\ [Next]_vars => [Mirror!Next]_<<height, blocks>>
  BY MirrorStep
<1> QED BY <1>1, <1>2, Invariance, PTL DEF Spec, MirrorsChain, Mirror!Spec

-----------------------------------------------------------------------------
(* The first pull with pullBlockInitCnts = 1.                              *)

\* Nothing of f's channel is stored, its ledger has more than the genesis block,
\* and the thread is not past the first test of the loop for it.
Stuck(f) ==
  /\ blocks[ChannelOf[f]] = {}
  /\ height[f] > 1
  /\ chan = ChannelOf[f] => pc \notin {"fetch", "add", "save", "again", "refresh"}
  /\ chan = ChannelOf[f] /\ pc = "first" => top <= height[f]

LEMMA StuckNext ==
  ASSUME PullBlockInitCnts = 1, ~ IsBlockPullFromZero,
         NEW f \in Fronts, FrontsOf(ChannelOf[f]) = {f},
         TypeOK, Stuck(f), [Next]_vars
  PROVE  Stuck(f)'
<1> USE DEF tables, chain, locals, history
<1> DEFINE c == ChannelOf[f]
<1>0. c \in Channels /\ NoChannel # c /\ height[f] \in Nat /\ top \in Nat /\ blocks[c] = {}
  BY FrontsAssumption DEF TypeOK, Stuck
<1>1. CASE UNCHANGED vars
  BY <1>1 DEF vars, Stuck
<1>2. ASSUME NEW g \in Fronts, Grow(g) PROVE Stuck(f)'
  <2>1. height'[f] \in Nat /\ height[f] <= height'[f] /\ UNCHANGED <<blocks, chan, pc, top>>
    BY <1>2 DEF Grow, TypeOK
  <2> QED BY <1>0, <2>1 DEF Stuck
<1>3. CASE StartPull \/ EndTask \/ StartStatistics \/ StartDelete
  BY <1>3 DEF StartPull, EndTask, StartStatistics, StartDelete, Stuck
<1>4. ASSUME NEW g \in Fronts, PullRow(g) PROVE Stuck(f)'
  BY <1>4 DEF PullRow, Stuck
<1>5. ASSUME NEW g \in Fronts, RequestHeight(g) PROVE Stuck(f)'
  <2>1. chan = c => g = f
    BY <1>5 DEF RequestHeight
  <2>2. top' = height[g] /\ UNCHANGED <<blocks, height, chan>> /\ pc' = "first"
    BY <1>5 DEF RequestHeight
  <2> QED BY <1>0, <2>1, <2>2 DEF Stuck
<1>6. CASE EnterLoop
  <2>1. PICK n \in NextBlockNumbers(chan) : LoopTest(top, n)
    BY <1>6 DEF EnterLoop
  <2>2. pc = "first" /\ UNCHANGED <<blocks, height>>
    BY <1>6 DEF EnterLoop
  <2>3. CASE chan # c
    <3>1. chan' # c
      BY <1>0, <2>1, <2>3 DEF LoopTest, ClearLocals
    <3> QED BY <2>2, <3>1 DEF Stuck
  <2>4. CASE chan = c
    <3>1. NextBlockNumbers(chan) = { InitBlock(height[f]) }
      BY <1>0, <2>4 DEF NextBlockNumbers
    <3>2. InitBlock(height[f]) = height[f]
      BY <1>0 DEF InitBlock, Stuck
    <3>3. top <= n /\ n \in Nat
      BY <1>0, <2>1, <2>2, <2>4, <3>1, <3>2 DEF Stuck
    <3>4. pc' = "rows" /\ ClearLocals
      BY <1>0, <2>1, <3>3 DEF LoopTest
    <3> QED BY <2>2, <3>4 DEF Stuck, ClearLocals
  <2> QED BY <2>3, <2>4
<1>7. ASSUME NEW g \in Fronts, Fetch(g) \/ FetchBehind(g) \/ RefreshHeight(g)
      PROVE  Stuck(f)'
  <2>1. chan # c /\ UNCHANGED <<blocks, height>>
    BY <1>7 DEF Fetch, FetchBehind, RefreshHeight, Stuck
  <2>2. chan' # c
    BY <1>0, <1>7, <2>1 DEF Fetch, FetchBehind, RefreshHeight, LoopTest, ClearLocals
  <2> QED BY <2>1, <2>2 DEF Stuck
<1>8. CASE AddBlock \/ SaveTrans \/ BlockSaved \/ Again
  <2>1. chan # c /\ UNCHANGED height
    BY <1>8 DEF AddBlock, SaveTrans, BlockSaved, Again, Stuck
  <2>2. chan' # c /\ blocks'[c] = blocks[c]
    BY <1>0, <1>8, <2>1 DEF AddBlock, SaveTrans, BlockSaved, Again, LoopTest, ClearLocals, TypeOK
  <2> QED BY <2>1, <2>2 DEF Stuck
<1>9. ASSUME NEW d, QueryLatest(d) \/ DeleteByChannelId(d) \/ SaveDay(d) PROVE Stuck(f)'
  <2>1. UNCHANGED <<blocks, height>> /\ pc' \in {"statRows", "statSave", "delBlock"}
    BY <1>9 DEF QueryLatest, DeleteByChannelId, SaveDay
  <2> QED BY <2>1 DEF Stuck
<1>10. CASE RemoveBlocks \/ RemoveTrans
  <2>1. UNCHANGED height /\ pc' \in {"delBlock", "delTrans", "delRows"}
    BY <1>10 DEF RemoveBlocks, RemoveTrans
  <2>2. blocks'[c] \subseteq blocks[c]
    BY <1>0, <1>10 DEF RemoveBlocks, RemoveTrans, TypeOK
  <2> QED BY <2>1, <2>2 DEF Stuck
<1>11. CASE Fault
  BY <1>0, <1>11 DEF Fault, Unanswered, PullFails, StatisticsFails, DeleteFails, Crash,
                     ClearLocals, Stuck
<1>12. CASE Settle
  BY <1>12 DEF Settle, Stuck
<1> QED
  BY <1>1, <1>2, <1>3, <1>4, <1>5, <1>6, <1>7, <1>8, <1>9, <1>10, <1>11, <1>12
     DEF Next, Pull, Statistics, Delete

\* With pullBlockInitCnts = 1 a channel of one front whose ledger has a second
\* block before the first pull is never pulled: the first block to pull is then
\* the height itself, which the loop's condition excludes
\* (BlockService.getNextBlockNumber).
THEOREM StuckForEver ==
  ASSUME PullBlockInitCnts = 1, ~ IsBlockPullFromZero,
         NEW f \in Fronts, FrontsOf(ChannelOf[f]) = {f}
  PROVE  Spec => [](Stuck(f) => []Stuck(f))
<1>1. TypeOK /\ Stuck(f) /\ [Next]_vars => Stuck(f)'
  BY StuckNext
<1> QED BY <1>1, TypeCorrect, PTL DEF Spec

=============================================================================
