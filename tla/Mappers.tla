------------------------------ MODULE Mappers ------------------------------
(***************************************************************************)
(* The SQL statements of BlockMapper.xml, TransHashMapper.xml and          *)
(* TransDailyMapper.xml that the scheduled tasks execute, as operators on  *)
(* the contents of one channel's tables:                                   *)
(*                                                                         *)
(*   a block table  is the set of the block_numbers of its rows;           *)
(*   a trans table  is a set of rows [num, id, block, day], num being the  *)
(*                  AUTO_INCREMENT key trans_number;                       *)
(*   a daily table  maps each day to the set of the trans_numbers that its *)
(*                  row counts.  The row's trans_count is the Cardinality  *)
(*                  of that set, its trans_number the Max; {} is no row.   *)
(*                                                                         *)
(* A comparison with an aggregate is written with a quantifier over the    *)
(* rows, which also gives SQL's answer (no row) for a NULL aggregate.      *)
(***************************************************************************)
EXTENDS Naturals, FiniteSets, FiniteSetsExt

CONSTANT
  DeleteSpan     \* the 1000 of both remove statements

ASSUME DeleteSpanAssumption == DeleteSpan \in Nat

\* BlockMapper.getLatestBlockNumber() + 1, when there is a row.
NumberAfter(blocks) == Max(blocks) + 1

\* Mutant: the second comparison the wrong way round.
RemovableBlocks_AboveSpan(blocks, retain) ==
  { b \in blocks : /\ \E top \in blocks : b + retain <= top
                   /\ \E low \in blocks : b >= low + DeleteSpan }

\* Mutant: one row too many.
RemovableBlocks_OneTooMany(blocks, retain) ==
  { b \in blocks : /\ \E top \in blocks : b + retain <= top + 1
                   /\ \A low \in blocks : b <= low + DeleteSpan }

\* Mutant: one row too few.
RemovableBlocks_OneTooFew(blocks, retain) ==
  { b \in blocks : /\ \E top \in blocks : b + retain < top
                   /\ \A low \in blocks : b <= low + DeleteSpan }

\* BlockMapper.remove deletes these rows: all but the newest `retain`, and
\* of those at most DeleteSpan numbers above the oldest.
RemovableBlocks(blocks, retain) ==
  { b \in blocks : /\ \E top \in blocks : b + retain <= top
                   /\ \A low \in blocks : b <= low + DeleteSpan }

\* Mutant: the slip of the transaction table's statement.
BlockCountByMinMax_NoPlusOne(blocks) == Max(blocks) - Min(blocks)

\* BlockMapper.getBlockCountByMinMax, on a table with a row.
BlockCountByMinMax(blocks) == (Max(blocks) + 1) - Min(blocks)

\* The trans_numbers of a trans table.
Numbers(trans) == { t.num : t \in trans }

\* TransactionMapper.getCountByMinMax, on a table with a row.
TransCountByMinMax(trans) == Max(Numbers(trans)) - Min(Numbers(trans))

\* TransactionMapper.add: INSERT IGNORE under the unique key txId.
InsertTrans(trans, row) ==
  IF \E t \in trans : t.id = row.id THEN trans ELSE trans \union {row}

\* Mutant: the newest counted transaction still counts as new.
BelowWatermark_Strict(n, daily) == \E d \in DOMAIN daily : \E m \in daily[d] : n < m

\* n <= max(trans_number) of the daily table: statistics has passed n.
BelowWatermark(n, daily) == \E d \in DOMAIN daily : \E m \in daily[d] : n <= m

\* n = max(trans_number) of a daily table.
IsWatermark(n, daily) ==
  /\ \E d \in DOMAIN daily : n \in daily[d]
  /\ \A d \in DOMAIN daily : \A m \in daily[d] : m <= n

\* latestBlock of ChannelMapper.getGeneral, which joins the trans table on the
\* watermark; {} is null.
LatestBlock(trans, daily) ==
  { t.block : t \in { u \in trans : IsWatermark(u.num, daily) } }

\* Mutant: the comparison with transRetainMax is missing.
RemovableTrans_NoneRetained(trans, daily, retain) ==
  { t \in trans : /\ BelowWatermark(t.num, daily)
                  /\ \A u \in trans : t.num <= u.num + DeleteSpan }

\* Mutant: the comparison with tb_trans_daily is missing.
RemovableTrans_Uncounted(trans, daily, retain) ==
  { t \in trans : /\ \E u \in trans : t.num + retain <= u.num
                  /\ \A u \in trans : t.num <= u.num + DeleteSpan }

\* TransactionMapper.remove deletes these rows: only numbers statistics has
\* passed, never the newest `retain`, at most DeleteSpan above the oldest.
RemovableTrans(trans, daily, retain) ==
  { t \in trans : /\ BelowWatermark(t.num, daily)
                  /\ \E u \in trans : t.num + retain <= u.num
                  /\ \A u \in trans : t.num <= u.num + DeleteSpan }

\* Mutant: without IFNULL, so that nothing is above a missing watermark.
LatestTransCount_NoIfNull(trans, daily) ==
  [ d \in DOMAIN daily |->
      { t.num : t \in { u \in trans : /\ u.day = d
                                      /\ \E e \in DOMAIN daily : daily[e] # {}
                                      /\ ~ BelowWatermark(u.num, daily) } } ]

\* Mutant: the group of the newest day only.
LatestTransCount_NewestDay(trans, daily) ==
  [ d \in DOMAIN daily |->
      { t.num : t \in { u \in trans : /\ u.day = d
                                      /\ \A v \in trans : v.day <= d
                                      /\ ~ BelowWatermark(u.num, daily) } } ]

\* TransactionMapper.queryLatestTransCount: the numbers above the watermark
\* (or all, when the daily table has no row), grouped by day.
LatestTransCount(trans, daily) ==
  [ d \in DOMAIN daily |->
      { t.num : t \in { u \in trans : /\ u.day = d
                                      /\ ~ BelowWatermark(u.num, daily) } } ]

=============================================================================
