-------------------------- MODULE StatisticsProofs --------------------------
(***************************************************************************)
(* Proofs about the daily statistics of Scheduler and what is deleted      *)
(* after them, on top of the invariant of SchedulerProofs.                 *)
(*                                                                         *)
(* The argument is about the watermark, the largest number of the daily    *)
(* table.  Replacing a day's row never lowers it, because what a run is    *)
(* about to save of a day lies above what the day's row held before        *)
(* (Saving); so what was counted stays below it (CountedPassed), and a run *)
(* takes up exactly what lies above it.                                    *)
(***************************************************************************)
EXTENDS SchedulerProofs

\* Only a statistics run has days to save.
PendingWhileSaving == pc # "statSave" => pending = NoGroups

\* trans_number identifies a row, and the newest row is never deleted.
NumberedRows ==
  \A c \in Channels :
    /\ \A t, u \in trans[c] : t.num = u.num => t = u
    /\ trans[c] # {} => \E u \in trans[c] : \A t \in trans[c] : t.num <= u.num

\* A daily row counts numbers that were given out, and each is stored unless
\* TransRetainMax newer ones are.
DailyStored ==
  \A c \in Channels : \A d \in Days : \A n \in daily[c][d] :
    /\ n < auto[c]
    /\ \/ n \in Numbers(trans[c])
       \/ \E t \in trans[c] : n + TransRetainMax <= t.num

CountedPassed ==
  \A c \in Channels : \A n \in counted[c] : BelowWatermark(n, daily[c])

\* While a run saves the days of a channel: what is left to save is stored, was
\* never counted, belongs to one day, lies above the row it replaces, and is all
\* there is above the watermark.
Saving ==
  pc = "statSave" =>
    /\ \A d \in Days : \A n \in pending[d] :
         n \in Numbers(trans[chan]) /\ n \notin counted[chan]
    /\ \A d, e \in Days : d # e => pending[d] \cap pending[e] = {}
    /\ \A d \in Days : \A n \in pending[d] : \A m \in daily[chan][d] : m < n
    /\ \A n \in Numbers(trans[chan]) :
         BelowWatermark(n, daily[chan]) \/ \E d \in Days : n \in pending[d]

SInv ==
  /\ PendingWhileSaving /\ NumberedRows /\ DailyStored /\ CountedPassed
  /\ Saving /\ NoneSkipped

-----------------------------------------------------------------------------
(* Who writes what.                                                        *)

\* A step that leaves the transactions and the daily rows alone, and either goes
\* on with what it is saving or drops it into `lost`.
Quiet ==
  /\ UNCHANGED <<trans, auto, daily, counted>>
  /\ \/ UNCHANGED <<pc, chan, pending, lost>>
     \/ /\ pc' # "statSave" /\ pending' = NoGroups
        /\ \A c \in Channels : \A n :
             n \in lost[c] \/ (chan = c /\ \E d \in Days : n \in pending[d]) => n \in lost'[c]

\* What an interrupted run was about to save is in `lost`.
LEMMA LostNowTakesAll ==
  ASSUME TypeOK, PendingWhileSaving, NEW c \in Channels, NEW n,
         n \in lost[c] \/ (chan = c /\ \E d \in Days : n \in pending[d])
  PROVE  n \in LostNow[c]
<1>1. CASE pc = "statSave"
  BY <1>1 DEF LostNow, TypeOK
<1>2. CASE pc # "statSave"
  BY <1>2 DEF LostNow, PendingWhileSaving, NoGroups
<1> QED BY <1>1, <1>2

\* Outside of a statistics run there is nothing to lose.
LEMMA QuietElsewhere ==
  ASSUME PendingWhileSaving, pc # "statSave", pc' # "statSave", pending' = NoGroups,
         UNCHANGED <<trans, auto, daily, counted, lost>>
  PROVE  Quiet
<1>1. \A d \in Days : pending[d] = {}
  BY DEF PendingWhileSaving, NoGroups
<1> QED BY <1>1 DEF Quiet

LEMMA QuietPull ==
  ASSUME PendingWhileSaving, Pull, ~ SaveTrans
  PROVE  Quiet
<1> USE DEF tables, chain, locals, history
<1>1. pc # "statSave" => pending = NoGroups
  BY DEF PendingWhileSaving
<1>2. CASE StartPull \/ AddBlock \/ BlockSaved
  BY <1>1, <1>2, QuietElsewhere DEF StartPull, AddBlock, BlockSaved
<1>3. ASSUME NEW f \in Fronts, PullRow(f) \/ RequestHeight(f) \/ Fetch(f) \/ FetchBehind(f)
      PROVE  Quiet
  BY <1>1, <1>3, QuietElsewhere DEF PullRow, RequestHeight, Fetch, FetchBehind, ClearLocals
<1>4. ASSUME NEW m, NEW n, LoopTest(m, n), pc # "statSave"
      PROVE  pc' # "statSave" /\ pending' = NoGroups
  BY <1>1, <1>4 DEF LoopTest, ClearLocals
<1>5. CASE EnterLoop
  <2>1. /\ pc # "statSave" /\ UNCHANGED <<trans, auto, daily, counted, lost>>
        /\ \E n \in NextBlockNumbers(chan) : LoopTest(top, n)
    BY <1>5 DEF EnterLoop
  <2> QED BY <1>4, <2>1, QuietElsewhere
<1>6. CASE Again
  <2>1. /\ pc # "statSave" /\ UNCHANGED <<trans, auto, daily, counted, lost>>
        /\ \/ \E n \in NextBlockNumbers(chan) : LoopTest(top, n)
           \/ pc' = "refresh" /\ UNCHANGED pending
    BY <1>6 DEF Again
  <2> QED BY <1>1, <1>4, <2>1, QuietElsewhere
<1>7. ASSUME NEW f \in Fronts, RefreshHeight(f) PROVE Quiet
  <2>1. /\ pc # "statSave" /\ UNCHANGED <<trans, auto, daily, counted, lost>>
        /\ LoopTest(height[f], next)
    BY <1>7 DEF RefreshHeight
  <2> QED BY <1>4, <2>1, QuietElsewhere
<1> QED BY <1>2, <1>3, <1>5, <1>6, <1>7 DEF Pull

\* The steps that are not quiet.
LEMMA StatisticsWriters ==
  ASSUME TypeOK, PendingWhileSaving, [Next]_vars
  PROVE  \/ SaveTrans \/ RemoveTrans
         \/ \E c \in Channels : QueryLatest(c)
         \/ \E d \in Days : SaveDay(d)
         \/ Quiet
<1> USE DEF tables, chain, locals, history
<1>1. pc # "statSave" => pending = NoGroups
  BY DEF PendingWhileSaving
<1>2. CASE UNCHANGED vars
  BY <1>2 DEF vars, Quiet
<1>3. ASSUME NEW f \in Fronts, Grow(f) PROVE Quiet
  BY <1>3 DEF Grow, Quiet
<1>4. CASE Pull
  BY <1>4, QuietPull
<1>5. CASE StartStatistics \/ StartDelete \/ EndTask
  BY <1>1, <1>5, QuietElsewhere DEF StartStatistics, StartDelete, EndTask
<1>6. ASSUME NEW c \in Channels, DeleteByChannelId(c) PROVE Quiet
  BY <1>1, <1>6, QuietElsewhere DEF DeleteByChannelId
<1>7. CASE RemoveBlocks
  BY <1>1, <1>7, QuietElsewhere DEF RemoveBlocks
<1>8. CASE Unanswered \/ DeleteFails
  BY <1>1, <1>8, QuietElsewhere DEF Unanswered, DeleteFails
<1>9. CASE PullFails
  BY <1>9, QuietElsewhere DEF PullFails, AsksFront, AsksDatabase, ClearLocals
<1>10. CASE StatisticsFails \/ Crash
  <2>1. /\ UNCHANGED <<trans, auto, daily, counted>>
        /\ pc' # "statSave" /\ pending' = NoGroups /\ lost' = LostNow
    BY <1>10 DEF StatisticsFails, Crash, ClearLocals
  <2> QED BY <2>1, LostNowTakesAll DEF Quiet
<1>11. CASE Settle
  BY <1>11 DEF Settle, Quiet
<1> QED
  BY <1>2, <1>3, <1>4, <1>5, <1>6, <1>7, <1>8, <1>9, <1>10, <1>11
     DEF Next, Statistics, Delete, Fault

-----------------------------------------------------------------------------
(* The invariant, one kind of step at a time.                              *)

LEMMA StatisticsInit == Init => SInv
BY DEF Init, SInv, PendingWhileSaving, NumberedRows, DailyStored, CountedPassed,
       Saving, NoneSkipped, NoGroups, Numbers, BelowWatermark

LEMMA StatisticsQuiet ==
  ASSUME TypeOK, SInv, Quiet
  PROVE  SInv'
<1>1. UNCHANGED <<trans, auto, daily, counted>>
  BY DEF Quiet
<1>2. NumberedRows' /\ DailyStored' /\ CountedPassed'
  BY <1>1 DEF SInv, NumberedRows, DailyStored, CountedPassed
<1>3. CASE UNCHANGED <<pc, chan, pending, lost>>
  BY <1>1, <1>2, <1>3 DEF SInv, PendingWhileSaving, Saving, NoneSkipped
<1>4. CASE /\ pc' # "statSave" /\ pending' = NoGroups
           /\ \A c \in Channels : \A n :
                n \in lost[c] \/ (chan = c /\ \E d \in Days : n \in pending[d])
                  => n \in lost'[c]
  <2>1. PendingWhileSaving' /\ Saving'
    BY <1>4 DEF PendingWhileSaving, Saving
  <2>2. NoneSkipped'
    BY <1>1, <1>4 DEF SInv, NoneSkipped
  <2> QED BY <1>2, <2>1, <2>2 DEF SInv
<1> QED BY <1>3, <1>4 DEF Quiet

\* QueryLatest takes up what lies above the watermark of the channel.
LEMMA StatisticsQuery ==
  ASSUME TypeOK, SInv, NEW c \in Channels, QueryLatest(c)
  PROVE  SInv'
<1> USE DEF tables, chain, locals, history
<1>1. /\ pc = "statRows" /\ pending = NoGroups
      /\ UNCHANGED <<trans, auto, daily, counted, lost>>
  BY DEF QueryLatest, SInv, PendingWhileSaving
<1>2. NumberedRows' /\ DailyStored' /\ CountedPassed'
  BY <1>1 DEF SInv, NumberedRows, DailyStored, CountedPassed
<1>3. NoneSkipped'
  BY <1>1 DEF SInv, NoneSkipped, NoGroups
<1>4. CASE UNCHANGED <<pc, chan, pending>>
  BY <1>1, <1>2, <1>3, <1>4 DEF SInv, PendingWhileSaving, Saving
<1>5. CASE /\ pc' = "statSave" /\ chan' = c
           /\ pending' = LatestTransCount(trans[c], daily[c])
  <2>1. DOMAIN daily[c] = Days /\ trans[c] \in SUBSET TransRow
    BY DEF TypeOK
  <2>2. \A d \in Days : pending'[d] =
          { t.num : t \in { u \in trans[c] : u.day = d /\ ~ BelowWatermark(u.num, daily[c]) } }
    BY <1>5, <2>1 DEF LatestTransCount
  <2>3. \A d \in Days : \A n \in pending'[d] :
          /\ n \in Numbers(trans[c])
          /\ ~ BelowWatermark(n, daily[c])
          /\ \E t \in trans[c] : t.num = n /\ t.day = d
    BY <2>2 DEF Numbers
  <2>4. \A n \in Numbers(trans[c]) :
          BelowWatermark(n, daily[c]) \/ \E d \in Days : n \in pending'[d]
    <3> SUFFICES ASSUME NEW t \in trans[c], ~ BelowWatermark(t.num, daily[c])
                 PROVE  \E d \in Days : t.num \in pending'[d]
      BY DEF Numbers
    <3>1. t.day \in Days
      BY <2>1 DEF TransRow
    <3> QED BY <2>2, <3>1
  <2>5. \A d, e \in Days : d # e => pending'[d] \cap pending'[e] = {}
    BY <2>3 DEF SInv, NumberedRows
  <2>6. \A d \in Days : \A n \in pending'[d] : n \notin counted[c]
    BY <2>3 DEF SInv, CountedPassed
  <2>7. \A d \in Days : \A n \in pending'[d] : \A m \in daily[c][d] : m < n
    <3> SUFFICES ASSUME NEW d \in Days, NEW n \in pending'[d], NEW m \in daily[c][d]
                 PROVE  m < n
      OBVIOUS
    <3>1. ~ (n <= m)
      BY <2>1, <2>3 DEF BelowWatermark
    <3>2. m \in Nat /\ n \in Nat
      BY <2>1, <2>3 DEF TypeOK, TransRow
    <3> QED BY <3>1, <3>2
  <2>8. Saving'
    BY <1>1, <1>5, <2>3, <2>4, <2>5, <2>6, <2>7 DEF Saving
  <2>9. PendingWhileSaving'
    BY <1>5 DEF PendingWhileSaving
  <2> QED BY <1>2, <1>3, <2>8, <2>9 DEF SInv
<1> QED BY <1>4, <1>5 DEF QueryLatest

\* Replacing a day's row never takes a number out from under the watermark.
LEMMA SaveDayRaises ==
  ASSUME TypeOK, SInv, NEW d \in Days, SaveDay(d),
         NEW c \in Channels, NEW n \in Nat, BelowWatermark(n, daily[c])
  PROVE  BelowWatermark(n, daily'[c])
<1>1. /\ pc = "statSave" /\ pending[d] # {}
      /\ daily' = [daily EXCEPT ![chan][d] = pending[d]]
  BY DEF SaveDay
<1>2. chan \in Channels /\ DOMAIN daily[c] = Days /\ DOMAIN daily'[c] = Days
  BY <1>1 DEF TypeOK
<1>e. PICK e \in Days : \E m \in daily[c][e] : n <= m
  BY <1>2 DEF BelowWatermark
<1>3. PICK m \in daily[c][e] : n <= m
  BY <1>e
<1>4. CASE c = chan /\ e = d
  <2>1. PICK k \in pending[d] : TRUE
    BY <1>1
  <2>2. m < k
    BY <1>1, <1>3, <1>4, <2>1 DEF SInv, Saving
  <2>3. m \in Nat /\ k \in Nat
    BY <1>3, <2>1 DEF TypeOK
  <2>4. k \in daily'[c][d] /\ n <= k
    BY <1>1, <1>2, <1>3, <1>4, <2>1, <2>2, <2>3 DEF TypeOK
  <2> QED BY <1>2, <2>4 DEF BelowWatermark
<1>5. CASE ~ (c = chan /\ e = d)
  <2>1. daily'[c][e] = daily[c][e]
    BY <1>1, <1>2, <1>5 DEF TypeOK
  <2> QED BY <1>2, <1>3, <2>1 DEF BelowWatermark
<1> QED BY <1>4, <1>5

\* SaveDay: what the day's row counts moves from the list to the table.
LEMMA StatisticsSave ==
  ASSUME IInv, SInv, NEW d \in Days, SaveDay(d)
  PROVE  SInv'
<1> USE DEF tables, chain, locals, history
<1>t. TypeOK
  BY DEF IInv
<1>1. /\ pc = "statSave" /\ pending[d] # {} /\ chan \in Channels
      /\ daily' = [daily EXCEPT ![chan][d] = pending[d]]
      /\ counted' = [counted EXCEPT ![chan] = @ \union pending[d]]
      /\ pending' = [pending EXCEPT ![d] = {}]
      /\ UNCHANGED <<trans, auto, lost>>
      /\ \/ pending' = NoGroups /\ pc' = "statRows"
         \/ UNCHANGED <<pc, chan>>
  BY <1>t DEF SaveDay, TypeOK
<1>2. /\ DOMAIN daily = Channels /\ DOMAIN counted = Channels /\ DOMAIN pending = Days
      /\ \A c \in Channels : DOMAIN daily[c] = Days /\ DOMAIN daily'[c] = Days
      /\ \A c \in Channels : daily[c] \in [Days -> SUBSET Nat]
      /\ \A e \in Days : pending[e] \in SUBSET Nat
  BY <1>t, <1>1 DEF TypeOK
<1>3. /\ daily'[chan][d] = pending[d]
      /\ \A c \in Channels : \A e \in Days :
           ~ (c = chan /\ e = d) => daily'[c][e] = daily[c][e]
  BY <1>1, <1>2
<1>4. pending'[d] = {} /\ \A e \in Days : e # d => pending'[e] = pending[e]
  BY <1>1, <1>2
<1>5. /\ counted'[chan] = counted[chan] \union pending[d]
      /\ \A c \in Channels : c # chan => counted'[c] = counted[c]
  BY <1>1, <1>2
<1>6. \A n \in pending[d] : BelowWatermark(n, daily'[chan])
  <2> SUFFICES ASSUME NEW n \in pending[d] PROVE BelowWatermark(n, daily'[chan])
    OBVIOUS
  <2>1. n \in daily'[chan][d] /\ n <= n
    BY <1>2, <1>3
  <2> QED BY <1>1, <1>2, <2>1 DEF BelowWatermark
<1>7. \A c \in Channels : \A n \in Nat :
        BelowWatermark(n, daily[c]) => BelowWatermark(n, daily'[c])
  BY <1>t, SaveDayRaises
<1>8. PendingWhileSaving'
  BY <1>1 DEF PendingWhileSaving
<1>9. NumberedRows'
  BY <1>1 DEF SInv, NumberedRows
<1>10. \A n \in pending[d] : n \in Numbers(trans[chan]) /\ n < auto[chan]
  <2> SUFFICES ASSUME NEW n \in pending[d]
               PROVE  n \in Numbers(trans[chan]) /\ n < auto[chan]
    OBVIOUS
  <2>1. n \in Numbers(trans[chan])
    BY <1>1 DEF SInv, Saving
  <2>2. PICK t \in trans[chan] : t.num = n
    BY <2>1 DEF Numbers
  <2>3. t.num < auto[chan]
    BY <1>1, <2>2 DEF IInv, TransInOrder
  <2> QED BY <2>1, <2>2, <2>3
<1>11. DailyStored'
  <2> SUFFICES ASSUME NEW c \in Channels, NEW e \in Days, NEW n \in daily'[c][e]
               PROVE  /\ n < auto[c]
                      /\ \/ n \in Numbers(trans[c])
                         \/ \E t \in trans[c] : n + TransRetainMax <= t.num
    BY <1>1 DEF DailyStored
  <2>1. CASE c = chan /\ e = d
    BY <1>3, <1>10, <2>1
  <2>2. CASE ~ (c = chan /\ e = d)
    BY <1>3, <2>2 DEF SInv, DailyStored
  <2> QED BY <2>1, <2>2
<1>12. CountedPassed'
  <2> SUFFICES ASSUME NEW c \in Channels, NEW n \in counted'[c]
               PROVE  BelowWatermark(n, daily'[c])
    BY DEF CountedPassed
  <2>1. CASE n \in counted[c]
    BY <1>t, <1>7, <2>1 DEF SInv, CountedPassed, TypeOK
  <2>2. CASE n \notin counted[c]
    BY <1>5, <1>6, <2>2
  <2> QED BY <2>1, <2>2
<1>13. Saving'
  <2> SUFFICES ASSUME pc' = "statSave" PROVE Saving'
    BY DEF Saving
  <2>1. chan' = chan /\ UNCHANGED trans
    BY <1>1
  <2>2. \A e \in Days : \A n \in pending'[e] :
          n \in Numbers(trans[chan]) /\ n \notin counted'[chan]
    BY <1>1, <1>4, <1>5 DEF SInv, Saving
  <2>3. \A e, f \in Days : e # f => pending'[e] \cap pending'[f] = {}
    BY <1>1, <1>4 DEF SInv, Saving
  <2>4. \A e \in Days : \A n \in pending'[e] : \A m \in daily'[chan][e] : m < n
    BY <1>1, <1>3, <1>4 DEF SInv, Saving
  <2>5. \A n \in Numbers(trans[chan]) :
          BelowWatermark(n, daily'[chan]) \/ \E e \in Days : n \in pending'[e]
    <3> SUFFICES ASSUME NEW t \in trans[chan]
                 PROVE  \/ BelowWatermark(t.num, daily'[chan])
                        \/ \E e \in Days : t.num \in pending'[e]
      BY DEF Numbers
    <3>1. t.num \in Nat
      BY <1>t, <1>1 DEF TypeOK, TransRow
    <3>2. t.num \in Numbers(trans[chan])
      BY DEF Numbers
    <3>3. \/ BelowWatermark(t.num, daily[chan])
          \/ \E e \in Days : t.num \in pending[e]
      BY <1>1, <3>2 DEF SInv, Saving
    <3> QED BY <1>1, <1>4, <1>6, <1>7, <3>1, <3>3
  <2> QED BY <2>1, <2>2, <2>3, <2>4, <2>5 DEF Saving
<1>14. NoneSkipped'
  <2> SUFFICES ASSUME NEW c \in Channels, NEW n \in Numbers(trans[c]),
                      BelowWatermark(n, daily'[c])
               PROVE  \/ n \in counted'[c] \union lost[c]
                      \/ chan' = c /\ \E e \in Days : n \in pending'[e]
    BY <1>1 DEF NoneSkipped
  <2>1. counted[c] \subseteq counted'[c]
    BY <1>5
  <2>2. CASE c # chan
    <3>1. daily'[c] = daily[c]
      BY <1>1, <2>2
    <3> QED BY <2>1, <2>2, <3>1 DEF SInv, NoneSkipped
  <2>3. CASE c = chan
    <3>1. n \in counted[c] \union lost[c] \/ \E e \in Days : n \in pending[e]
      BY <1>1, <2>3 DEF SInv, NoneSkipped, Saving
    <3>2. ASSUME NEW e \in Days, n \in pending[e], e # d
          PROVE  chan' = c /\ n \in pending'[e]
      BY <1>1, <1>4, <2>3, <3>2 DEF NoGroups
    <3> QED BY <1>5, <2>1, <2>3, <3>1, <3>2
  <2> QED BY <2>2, <2>3
<1> QED BY <1>8, <1>9, <1>11, <1>12, <1>13, <1>14 DEF SInv

\* SaveTrans: a new row has a number that no daily row reaches.
LEMMA StatisticsInsert ==
  ASSUME IInv, SInv, SaveTrans
  PROVE  SInv'
<1> USE DEF tables, chain, locals, history
<1>t. TypeOK
  BY DEF IInv
<1>1. /\ pc = "save" /\ chan \in Channels
      /\ UNCHANGED <<daily, counted, lost, pending, pc, chan>>
  BY <1>t DEF SaveTrans, TypeOK, PullRowPc
<1>2. /\ \A c \in Channels : c # chan => trans'[c] = trans[c] /\ auto'[c] = auto[c]
      /\ \/ trans'[chan] = trans[chan] /\ auto'[chan] \in {auto[chan], auto[chan] + 1}
         \/ \E row : /\ row.num = auto[chan]
                     /\ trans'[chan] = trans[chan] \union {row}
                     /\ auto'[chan] = auto[chan] + 1
  <2>1. CASE UNCHANGED <<trans, auto>>
    BY <1>t, <1>1, <2>1 DEF TypeOK
  <2>2. CASE /\ trans' = [trans EXCEPT ![chan] =
                            InsertTrans(@, [num |-> auto[chan], id |-> Head(rest).id,
                                            block |-> next, day |-> Head(rest).day])]
             /\ auto' = [auto EXCEPT ![chan] = @ + 1]
    <3> DEFINE row == [num |-> auto[chan], id |-> Head(rest).id,
                       block |-> next, day |-> Head(rest).day]
    <3>1. row.num = auto[chan]
      OBVIOUS
    <3>2. trans' = [trans EXCEPT ![chan] = InsertTrans(@, row)]
      BY <2>2
    <3> HIDE DEF row
    <3>3. /\ trans'[chan] = InsertTrans(trans[chan], row)
          /\ auto'[chan] = auto[chan] + 1 /\ auto[chan] \in Nat
          /\ \A c \in Channels : c # chan => trans'[c] = trans[c] /\ auto'[c] = auto[c]
      BY <1>t, <1>1, <2>2, <3>2 DEF TypeOK
    <3>4. trans'[chan] = trans[chan] \/ trans'[chan] = trans[chan] \union {row}
      BY <3>3 DEF InsertTrans
    <3> QED BY <3>1, <3>3, <3>4
  <2> QED BY <2>1, <2>2 DEF SaveTrans
<1>3. \A c \in Channels : /\ auto[c] <= auto'[c]
                          /\ Numbers(trans[c]) \subseteq Numbers(trans'[c])
  <2> SUFFICES ASSUME NEW c \in Channels
               PROVE  /\ auto[c] <= auto'[c]
                      /\ Numbers(trans[c]) \subseteq Numbers(trans'[c])
    OBVIOUS
  <2>1. auto[c] \in Nat
    BY <1>t DEF TypeOK
  <2>2. auto[c] <= auto'[c]
    BY <1>2, <2>1
  <2>3. trans[c] \subseteq trans'[c]
    BY <1>2
  <2> QED BY <2>2, <2>3 DEF Numbers
<1>4. \A t \in trans[chan] : t.num \in Nat /\ t.num < auto[chan]
  BY <1>t, <1>1 DEF TypeOK, TransRow, IInv, TransInOrder
<1>5. auto[chan] \in Nat
  BY <1>t, <1>1 DEF TypeOK
<1>6. PendingWhileSaving' /\ Saving'
  BY <1>1 DEF SInv, PendingWhileSaving, Saving
<1>7. NumberedRows'
  <2> SUFFICES ASSUME NEW c \in Channels
               PROVE  /\ \A t, u \in trans'[c] : t.num = u.num => t = u
                      /\ trans'[c] # {} => \E u \in trans'[c] : \A t \in trans'[c] : t.num <= u.num
    BY DEF NumberedRows
  <2>1. CASE trans'[c] = trans[c]
    BY <2>1 DEF SInv, NumberedRows
  <2>2. CASE trans'[c] # trans[c]
    <3>1. PICK row : row.num = auto[chan] /\ trans'[chan] = trans[chan] \union {row}
      BY <1>2, <2>2
    <3>2. c = chan
      BY <1>2, <2>2
    <3>3. \A t, u \in trans'[c] : t.num = u.num => t = u
      BY <1>1, <1>4, <1>5, <3>1, <3>2 DEF SInv, NumberedRows
    <3>4. \A t \in trans'[c] : t.num <= row.num
      BY <1>4, <1>5, <3>1, <3>2
    <3> QED BY <3>1, <3>2, <3>3, <3>4
  <2> QED BY <2>1, <2>2
<1>8. DailyStored'
  <2> SUFFICES ASSUME NEW c \in Channels, NEW e \in Days, NEW n \in daily[c][e]
               PROVE  /\ n < auto'[c]
                      /\ \/ n \in Numbers(trans'[c])
                         \/ \E t \in trans'[c] : n + TransRetainMax <= t.num
    BY <1>1 DEF DailyStored
  <2>1. n < auto[c] /\ n \in Nat /\ auto[c] \in Nat /\ auto'[c] \in Nat
    <3>1. n < auto[c] /\ n \in Nat /\ auto[c] \in Nat
      BY <1>t, <1>1 DEF SInv, DailyStored, TypeOK
    <3>2. auto'[c] \in Nat
      BY <1>2, <1>5, <3>1
    <3> QED BY <3>1, <3>2
  <2>2. trans[c] \subseteq trans'[c]
    BY <1>1, <1>2
  <2> QED BY <1>3, <2>1, <2>2 DEF SInv, DailyStored
<1>9. CountedPassed'
  BY <1>1 DEF SInv, CountedPassed
<1>10. NoneSkipped'
  <2> SUFFICES ASSUME NEW c \in Channels, NEW n \in Numbers(trans'[c]),
                      BelowWatermark(n, daily[c])
               PROVE  \/ n \in counted[c] \union lost[c]
                      \/ chan = c /\ \E e \in Days : n \in pending[e]
    BY <1>1 DEF NoneSkipped
  <2>1. CASE n \in Numbers(trans[c])
    BY <2>1 DEF SInv, NoneSkipped
  <2>2. CASE n \notin Numbers(trans[c])
    <3>1. c = chan /\ n = auto[chan]
      BY <1>2, <2>2 DEF Numbers
    <3>2. DOMAIN daily[c] = Days
      BY <1>t DEF TypeOK
    <3>e. PICK e \in Days : \E m \in daily[c][e] : n <= m
      BY <3>2 DEF BelowWatermark
    <3>3. PICK m \in daily[c][e] : n <= m
      BY <3>e
    <3>4. m < auto[c] /\ m \in Nat
      BY <1>t, <3>3 DEF SInv, DailyStored, TypeOK
    <3> QED BY <1>5, <3>1, <3>3, <3>4
  <2> QED BY <2>1, <2>2
<1> QED BY <1>6, <1>7, <1>8, <1>9, <1>10 DEF SInv

\* RemoveTrans: the newest row stays, and with it a witness for each daily row
\* whose transactions are gone.
LEMMA StatisticsRemove ==
  ASSUME TypeOK, SInv, RemoveTrans
  PROVE  SInv'
<1> USE DEF tables, chain, locals, history
<1> DEFINE gone == RemovableTrans(trans[chan], daily[chan], TransRetainMax)
<1>1. /\ pc = "delTrans" /\ chan \in Channels /\ pending = NoGroups
      /\ pc' # "statSave"
      /\ UNCHANGED <<auto, daily, counted, lost, pending>>
      /\ trans' = [trans EXCEPT ![chan] = @ \ gone]
  BY DEF RemoveTrans, TypeOK, PullRowPc, SInv, PendingWhileSaving
<1>2. /\ trans'[chan] = trans[chan] \ gone
      /\ \A c \in Channels : c # chan => trans'[c] = trans[c]
  BY <1>1 DEF TypeOK
<1>3. \A t \in gone : t \in trans[chan] /\ \E u \in trans[chan] : t.num + TransRetainMax <= u.num
  BY DEF RemovableTrans
<1> HIDE DEF gone
<1>4. \A c \in Channels : trans'[c] \subseteq trans[c]
  BY <1>1, <1>2
<1>5. TransRetainMax \in Nat \ {0}
  BY ScheduleAssumption
<1>6. \A c \in Channels : \A t \in trans[c] : t.num \in Nat
  BY DEF TypeOK, TransRow
<1>7. \A c \in Channels : trans[c] # {} =>
        \E u \in trans'[c] : \A t \in trans[c] : t.num <= u.num
  <2> SUFFICES ASSUME NEW c \in Channels, trans[c] # {}
               PROVE  \E u \in trans'[c] : \A t \in trans[c] : t.num <= u.num
    OBVIOUS
  <2>1. PICK u \in trans[c] : \A t \in trans[c] : t.num <= u.num
    BY DEF SInv, NumberedRows
  <2>2. CASE c # chan
    BY <1>2, <2>1, <2>2
  <2>3. CASE c = chan
    <3>1. u \notin gone
      BY <1>1, <1>3, <1>5, <1>6, <2>1, <2>3
    <3> QED BY <1>2, <2>1, <2>3, <3>1
  <2> QED BY <2>2, <2>3
<1>8. PendingWhileSaving' /\ Saving'
  BY <1>1 DEF PendingWhileSaving, Saving
<1>9. NumberedRows'
  <2> SUFFICES ASSUME NEW c \in Channels
               PROVE  /\ \A t, u \in trans'[c] : t.num = u.num => t = u
                      /\ trans'[c] # {} => \E u \in trans'[c] : \A t \in trans'[c] : t.num <= u.num
    BY DEF NumberedRows
  <2>1. \A t, u \in trans'[c] : t.num = u.num => t = u
    BY <1>4 DEF SInv, NumberedRows
  <2> QED BY <1>4, <1>7, <2>1
<1>10. DailyStored'
  <2> SUFFICES ASSUME NEW c \in Channels, NEW e \in Days, NEW n \in daily[c][e]
               PROVE  /\ n < auto[c]
                      /\ \/ n \in Numbers(trans'[c])
                         \/ \E t \in trans'[c] : n + TransRetainMax <= t.num
    BY <1>1 DEF DailyStored
  <2>1. n < auto[c] /\ n \in Nat
    BY DEF SInv, DailyStored, TypeOK
  <2>2. ASSUME NEW t \in trans[c], n + TransRetainMax <= t.num
        PROVE  \E u \in trans'[c] : n + TransRetainMax <= u.num
    <3>1. PICK u \in trans'[c] : \A v \in trans[c] : v.num <= u.num
      BY <1>7, <2>2
    <3>2. t.num <= u.num /\ t.num \in Nat /\ u.num \in Nat
      BY <1>4, <1>6, <3>1
    <3> QED BY <1>5, <2>1, <2>2, <3>1, <3>2
  <2>3. CASE n \in Numbers(trans[c])
    <3>1. PICK t \in trans[c] : t.num = n
      BY <2>3 DEF Numbers
    <3>2. CASE t \in trans'[c]
      BY <2>1, <3>1, <3>2 DEF Numbers
    <3>3. CASE t \notin trans'[c]
      <4>1. c = chan /\ t \in gone
        BY <1>2, <3>3
      <4>2. PICK u \in trans[c] : n + TransRetainMax <= u.num
        BY <1>3, <3>1, <4>1
      <4> QED BY <2>1, <2>2, <4>2
    <3> QED BY <3>2, <3>3
  <2>4. CASE n \notin Numbers(trans[c])
    <3>1. PICK t \in trans[c] : n + TransRetainMax <= t.num
      BY <2>4 DEF SInv, DailyStored
    <3> QED BY <2>1, <2>2, <3>1
  <2> QED BY <2>3, <2>4
<1>11. CountedPassed'
  BY <1>1 DEF SInv, CountedPassed
<1>12. NoneSkipped'
  <2>1. \A c \in Channels : Numbers(trans'[c]) \subseteq Numbers(trans[c])
    BY <1>4 DEF Numbers
  <2> QED BY <1>1, <2>1 DEF SInv, NoneSkipped, NoGroups
<1> QED BY <1>8, <1>9, <1>10, <1>11, <1>12 DEF SInv

LEMMA SInvNext == IInv /\ SInv /\ [Next]_vars => SInv'
<1> SUFFICES ASSUME IInv, SInv, [Next]_vars PROVE SInv'
  OBVIOUS
<1>1. TypeOK /\ PendingWhileSaving
  BY DEF IInv, SInv
<1> QED
  BY <1>1, StatisticsWriters, StatisticsInsert, StatisticsRemove, StatisticsQuery,
     StatisticsSave, StatisticsQuiet

\* RemoveTrans keeps the newest row, and whatever it takes is older than all it
\* leaves.
LEMMA OldestRemoved ==
  ASSUME IInv, SInv, RemoveTrans, NEW c \in Channels
  PROVE  /\ trans'[c] \subseteq trans[c]
         /\ trans[c] # {} => \E u \in trans'[c] : \A t \in trans[c] : t.num <= u.num
         /\ \A t \in trans[c] : t \notin trans'[c] => \A u \in trans'[c] : t.num < u.num
<1>1. CASE trans'[c] = trans[c]
  BY <1>1 DEF SInv, NumberedRows
<1>2. CASE trans'[c] # trans[c]
  <2> DEFINE gone == RemovableTrans(trans[c], daily[c], TransRetainMax)
  <2>1. trans'[c] = trans[c] \ gone
    BY <1>2 DEF RemoveTrans, IInv, TypeOK, PullRowPc
  <2>2. /\ \A t \in trans[c] : t.num \in Nat
        /\ \A d \in DOMAIN daily[c] : \A m \in daily[c][d] : m \in Nat
        /\ TransRetainMax \in Nat \ {0} /\ DeleteSpan \in Nat
    BY ScheduleAssumption, DeleteSpanAssumption DEF IInv, TypeOK, TransRow
  <2>3. ASSUME NEW t \in gone, NEW u \in trans[c], u.num <= t.num
        PROVE  u \in gone
    <3>0. t \in trans[c]
      BY DEF RemovableTrans
    <3>1. BelowWatermark(u.num, daily[c])
      BY <2>2, <2>3, <3>0 DEF BelowWatermark, RemovableTrans
    <3>2. \A v \in trans[c] : t.num + TransRetainMax <= v.num => u.num + TransRetainMax <= v.num
      BY <2>2, <2>3, <3>0
    <3>3. \A v \in trans[c] : t.num <= v.num + DeleteSpan => u.num <= v.num + DeleteSpan
      BY <2>2, <2>3, <3>0
    <3> QED BY <3>1, <3>2, <3>3 DEF RemovableTrans
  <2>4. trans[c] # {}
    BY <1>2, <2>1
  <2>5. PICK u \in trans[c] : \A t \in trans[c] : t.num <= u.num
    BY <2>4 DEF SInv, NumberedRows
  <2>6. u \notin gone
    BY <2>2, <2>5 DEF RemovableTrans
  <2> HIDE DEF gone
  <2>7. \A t \in trans[c] : t \notin trans'[c] => \A v \in trans'[c] : t.num < v.num
    BY <2>1, <2>2, <2>3
  <2> QED BY <2>1, <2>5, <2>6, <2>7
<1> QED BY <1>1, <1>2

LEMMA StatisticsInvariance == Spec => []SInv
<1>1. Init => SInv
  BY StatisticsInit
<1>2. IInv /\ SInv /\ [Next]_vars => SInv'
  BY SInvNext
<1> QED BY <1>1, <1>2, Invariance, PTL DEF Spec

-----------------------------------------------------------------------------
(* The theorems.                                                           *)

\* What a statistics run is about to save of a day was never counted before.
THEOREM CountedOnce == Spec => []NoDoubleCount
<1>1. SInv => NoDoubleCount
  BY DEF SInv, PendingWhileSaving, Saving, NoGroups, NoDoubleCount
<1> QED BY <1>1, StatisticsInvariance, PTL

\* The watermark passes no transaction that was neither counted nor dropped by
\* an interrupted run.
THEOREM PassedOnlyCounted == Spec => []NoneSkipped
<1>1. SInv => NoneSkipped
  BY DEF SInv
<1> QED BY <1>1, StatisticsInvariance, PTL

\* The overview finds the latest block of a channel, or enough newer
\* transactions are stored that its row could be deleted.
THEOREM LatestBlockShown == Spec => []OverviewShowsBlock
<1>1. SInv => OverviewShowsBlock
  <2> SUFFICES ASSUME SInv, NEW c \in Channels, NEW d \in Days, NEW n \in daily[c][d],
                      IsWatermark(n, daily[c]), n \in Numbers(trans[c])
               PROVE  LatestBlock(trans[c], daily[c]) # {}
    BY DEF OverviewShowsBlock, SInv, DailyStored
  <2>1. PICK t \in trans[c] : t.num = n
    BY DEF Numbers
  <2>2. t.block \in LatestBlock(trans[c], daily[c])
    BY <2>1 DEF LatestBlock
  <2> QED BY <2>2
<1> QED BY <1>1, StatisticsInvariance, PTL

-----------------------------------------------------------------------------
(* The life of a number.                                                   *)

\* What `lost` takes in is what the running statistics had not saved.
LEMMA LostSteps ==
  ASSUME [Next]_vars
  PROVE  \/ UNCHANGED lost
         \/ lost' = LostNow /\ UNCHANGED <<trans, auto, counted>>
<1> USE DEF tables, chain, locals, history
<1>1. CASE UNCHANGED vars
  BY <1>1 DEF vars
<1>2. ASSUME NEW f \in Fronts, Grow(f) PROVE UNCHANGED lost
  BY <1>2 DEF Grow
<1>3. CASE Pull
  BY <1>3 DEF Pull, StartPull, PullRow, RequestHeight, EnterLoop, Fetch, FetchBehind,
              AddBlock, SaveTrans, BlockSaved, Again, RefreshHeight
<1>4. CASE Statistics
  BY <1>4 DEF Statistics, StartStatistics, QueryLatest, SaveDay
<1>5. CASE Delete
  BY <1>5 DEF Delete, StartDelete, DeleteByChannelId, RemoveBlocks, RemoveTrans
<1>6. CASE EndTask \/ Settle
  BY <1>6 DEF EndTask, Settle
<1>7. CASE Fault
  BY <1>7 DEF Fault, Unanswered, PullFails, StatisticsFails, DeleteFails, Crash
<1> QED BY <1>1, <1>2, <1>3, <1>4, <1>5, <1>6, <1>7 DEF Next

\* The numbers of every channel's rows, which TransLife calls `stored`.
AllNumbers == [c \in Channels |-> Numbers(trans[c])]

LEMMA LifeIssue ==
  ASSUME TypeOK, SaveTrans
  PROVE  [Life!Next]_<<auto, AllNumbers, counted, lost>>
<1> DEFINE row == [num |-> auto[chan], id |-> Head(rest).id,
                   block |-> next, day |-> Head(rest).day]
<1>1. chan \in Channels /\ UNCHANGED <<counted, lost>>
  BY DEF SaveTrans, TypeOK, PullRowPc, history
<1>2. row.num = auto[chan]
  OBVIOUS
<1>3. \/ UNCHANGED <<trans, auto>>
      \/ /\ trans' = [trans EXCEPT ![chan] = InsertTrans(@, row)]
         /\ auto' = [auto EXCEPT ![chan] = @ + 1]
  BY DEF SaveTrans
<1> HIDE DEF row
<1>4. CASE UNCHANGED <<trans, auto>>
  BY <1>1, <1>4 DEF AllNumbers
<1>5. CASE /\ trans' = [trans EXCEPT ![chan] = InsertTrans(@, row)]
           /\ auto' = [auto EXCEPT ![chan] = @ + 1]
  <2>1. \/ trans' = trans
        \/ trans' = [trans EXCEPT ![chan] = @ \union {row}]
    BY <1>1, <1>5 DEF InsertTrans, TypeOK
  <2>2. \/ AllNumbers' = AllNumbers
        \/ AllNumbers' = [AllNumbers EXCEPT ![chan] = @ \union {auto[chan]}]
    <3>1. CASE trans' = trans
      BY <3>1 DEF AllNumbers
    <3>2. CASE trans' = [trans EXCEPT ![chan] = @ \union {row}]
      <4>1. \A c \in Channels : c # chan => trans'[c] = trans[c]
        BY <3>2 DEF TypeOK
      <4>2. Numbers(trans'[chan]) = Numbers(trans[chan]) \union {auto[chan]}
        BY <1>1, <1>2, <3>2 DEF TypeOK, Numbers
      <4> QED BY <1>1, <4>1, <4>2 DEF AllNumbers
    <3> QED BY <2>1, <3>1, <3>2
  <2>3. Life!Issue(chan)
    BY <1>1, <1>5, <2>2 DEF Life!Issue, AllNumbers
  <2> QED BY <1>1, <2>3 DEF Life!Next
<1> QED BY <1>3, <1>4, <1>5

LEMMA LifeCount ==
  ASSUME TypeOK, SInv, NEW d \in Days, SaveDay(d)
  PROVE  Life!Next
<1>1. /\ chan \in Channels /\ pc = "statSave" /\ pending[d] # {}
      /\ counted' = [counted EXCEPT ![chan] = @ \union pending[d]]
      /\ UNCHANGED <<trans, auto, lost>>
  BY DEF SaveDay, TypeOK
<1>2. pending[d] \subseteq Numbers(trans[chan]) \ counted[chan]
  BY <1>1 DEF SInv, Saving
<1>3. Life!Count(chan, pending[d])
  BY <1>1, <1>2 DEF Life!Count, Life!Uncounted
<1> QED BY <1>1, <1>2, <1>3 DEF Life!Next

LEMMA LifeForget ==
  ASSUME IInv, SInv, RemoveTrans
  PROVE  Life!Next
<1> DEFINE gone == Numbers(trans[chan]) \ Numbers(trans'[chan])
<1>1. /\ chan \in Channels /\ pending = NoGroups
      /\ trans' = [trans EXCEPT ![chan] =
                     @ \ RemovableTrans(trans[chan], daily[chan], TransRetainMax)]
      /\ UNCHANGED <<auto, counted, lost>>
  BY DEF RemoveTrans, IInv, TypeOK, PullRowPc, SInv, PendingWhileSaving, history
<1>2. /\ \A c \in Channels : c # chan => trans'[c] = trans[c]
      /\ trans'[chan] \subseteq trans[chan]
      /\ \A t \in trans[chan] : t \notin trans'[chan] =>
           /\ BelowWatermark(t.num, daily[chan])
           /\ \E u \in trans[chan] : t.num + TransRetainMax <= u.num
  BY <1>1 DEF IInv, TypeOK, RemovableTrans
<1>3. \A n \in gone : \E t \in trans[chan] : t.num = n /\ t \notin trans'[chan]
  BY DEF Numbers
<1>4. gone \subseteq counted[chan] \union lost[chan]
  BY <1>1, <1>2, <1>3 DEF SInv, NoneSkipped, NoGroups, Numbers
<1>5. \A n \in gone : \E m \in Numbers(trans[chan]) : n + TransRetainMax <= m
  BY <1>2, <1>3 DEF Numbers
<1>6. \A n \in gone : \A m \in Numbers(trans[chan]) \ gone : n < m
  <2> SUFFICES ASSUME NEW n \in gone, NEW m \in Numbers(trans'[chan]) PROVE n < m
    BY DEF Numbers
  <2>1. PICK t \in trans[chan] : t.num = n /\ t \notin trans'[chan]
    BY <1>3
  <2>2. PICK u \in trans'[chan] : u.num = m
    BY DEF Numbers
  <2> QED BY <1>1, <2>1, <2>2, OldestRemoved
<1>7. gone \in SUBSET Numbers(trans[chan])
  OBVIOUS
<1>8. AllNumbers' = [AllNumbers EXCEPT ![chan] = @ \ gone]
  <2>1. Numbers(trans'[chan]) = Numbers(trans[chan]) \ gone
    BY <1>2 DEF Numbers
  <2> HIDE DEF gone
  <2>2. \A c \in Channels : c # chan => Numbers(trans'[c]) = Numbers(trans[c])
    BY <1>2
  <2>3. AllNumbers' = [c \in Channels |-> Numbers(trans'[c])]
    BY DEF AllNumbers, Numbers
  <2> QED BY <1>1, <2>1, <2>2, <2>3 DEF AllNumbers
<1> HIDE DEF gone
<1>9. Life!Forget(chan, gone)
  BY <1>1, <1>4, <1>5, <1>6, <1>8 DEF Life!Forget, AllNumbers
<1> QED BY <1>1, <1>7, <1>9 DEF Life!Next

LEMMA LifeDrop ==
  ASSUME TypeOK, SInv, lost' = LostNow, UNCHANGED <<trans, auto, counted>>
  PROVE  [Life!Next]_<<auto, AllNumbers, counted, lost>>
<1>1. AllNumbers' = AllNumbers
  BY DEF AllNumbers
<1>2. CASE lost' = lost
  BY <1>1, <1>2
<1>3. CASE pc = "statSave"
  <2> DEFINE left == UNION { pending[d] : d \in Days }
  <2>1. chan \in Channels /\ lost' = [lost EXCEPT ![chan] = @ \union left]
    BY <1>3 DEF LostNow, TypeOK
  <2>2. left \subseteq Numbers(trans[chan]) \ counted[chan]
    BY <1>3 DEF SInv, Saving
  <2> HIDE DEF left
  <2>3. Life!Drop(chan, left)
    BY <1>1, <2>1, <2>2 DEF Life!Drop, Life!Uncounted, AllNumbers
  <2> QED BY <2>1, <2>2, <2>3 DEF Life!Next
<1> QED BY <1>2, <1>3 DEF LostNow

\* The scheduled tasks implement TransLife, whatever faults occur.
THEOREM NumbersLiveOnce == Spec => LivesOnce
<1>1. Init => Life!Init
  <2> SUFFICES ASSUME Init PROVE Life!Init
    OBVIOUS
  <2>1. [c \in Channels |-> Numbers(trans[c])] = [c \in Channels |-> {}]
    BY DEF Init, Numbers
  <2> QED BY <2>1 DEF Init, Life!Init
<1>2. IInv /\ SInv /\ [Next]_vars => [Life!Next]_<<auto, AllNumbers, counted, lost>>
  <2> SUFFICES ASSUME IInv, SInv, [Next]_vars
               PROVE  [Life!Next]_<<auto, AllNumbers, counted, lost>>
    OBVIOUS
  <2>t. TypeOK /\ PendingWhileSaving
    BY DEF IInv, SInv
  <2>1. CASE SaveTrans
    BY <2>t, <2>1, LifeIssue
  <2>2. CASE RemoveTrans
    BY <2>2, LifeForget
  <2>3. ASSUME NEW d \in Days, SaveDay(d)
        PROVE  [Life!Next]_<<auto, AllNumbers, counted, lost>>
    BY <2>t, <2>3, LifeCount
  <2>4. CASE UNCHANGED <<trans, auto, counted>>
    <3>1. CASE UNCHANGED lost
      BY <2>4, <3>1 DEF AllNumbers
    <3>2. CASE lost' = LostNow
      BY <2>t, <2>4, <3>2, LifeDrop
    <3> QED BY <3>1, <3>2, LostSteps
  <2>5. (\E c \in Channels : QueryLatest(c)) \/ Quiet => UNCHANGED <<trans, auto, counted>>
    BY DEF QueryLatest, Quiet, tables, history
  <2> QED BY <2>t, <2>1, <2>2, <2>3, <2>4, <2>5, StatisticsWriters
<1> QED
  BY <1>1, <1>2, Invariance, StatisticsInvariance, PTL
     DEF Spec, LivesOnce, Life!Spec, AllNumbers

=============================================================================
