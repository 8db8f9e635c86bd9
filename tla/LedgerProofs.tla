---------------------------- MODULE LedgerProofs ----------------------------
(***************************************************************************)
(* Proofs about Scheduler that relate the stored rows to the blocks of the *)
(* ledger they were read from, on top of StatisticsProofs.                 *)
(*                                                                         *)
(* Done counts the envelopes of the block in hand whose turn has passed.   *)
(* The envelopes still to save are the rest of the block (InHand), and the *)
(* ids of those passed are stored (SavedSoFar).  Every stored row is of    *)
(* the first envelope of its block with its id, one already passed when    *)
(* that is the block in hand (FromLedger).  A new row therefore comes      *)
(* after every stored one on the chain as well as in its number            *)
(* (RowsInOrder), and what is deleted comes before whatever is left.       *)
(***************************************************************************)
EXTENDS StatisticsProofs

Block(c, b) == Ledger[c][b + 1]

\* How many envelopes of the block in hand were saved or passed over.
Done == Len(Block(chan, next)) - Len(rest)

InHand ==
  pc \in {"add", "save"} =>
    /\ next < Len(Ledger[chan])
    /\ Done \in Nat
    /\ pc = "add" => Done = 0
    /\ \A i \in 1..Len(rest) : rest[i] = Block(chan, next)[Done + i]

\* What was passed of the block being saved is stored.
SavedSoFar ==
  pc = "save" =>
    \A i \in 1..Done : Block(chan, next)[i].tx => Stored(chan, Block(chan, next)[i].id)

\* Row t was made from envelope i of its block, the first one with its id.
OfEnvelope(c, t, i) ==
  /\ Occurs(c, t.block, i, t.id)
  /\ Block(c, t.block)[i].day = t.day
  /\ \A k \in Nat : Occurs(c, t.block, k, t.id) => i <= k

FromLedger ==
  \A c \in Channels : \A t \in trans[c] :
    /\ t.block < Len(Ledger[c])
    /\ \E i \in Nat : /\ OfEnvelope(c, t, i)
                      /\ pc = "save" /\ chan = c /\ next = t.block => i <= Done

\* The numbers of the rows of one block are in the order of its envelopes.
RowsInOrder ==
  \A c \in Channels : \A t, u \in trans[c] : \A i, j \in Nat :
    t.num < u.num /\ t.block = u.block /\ OfEnvelope(c, t, i) /\ OfEnvelope(c, u, j)
      => i < j

\* Only blocks of the chain are recorded.
BlocksOnChain == \A c \in Channels : \A b \in blocks[c] : b < Len(Ledger[c])

LInv == InHand /\ SavedSoFar /\ FromLedger /\ RowsInOrder /\ BlocksOnChain

-----------------------------------------------------------------------------
(* Where the block in hand changes.                                        *)

\* A block of the ledger and the envelopes in it.
LEMMA BlockType ==
  ASSUME NEW c \in Channels, NEW b \in Nat, b < Len(Ledger[c])
  PROVE  /\ Block(c, b) \in Seq(Envelope)
         /\ DOMAIN Ledger[c][b + 1] = 1..Len(Block(c, b))
<1>1. Ledger[c] \in Seq(Seq(Envelope))
  BY LedgerAssumption
<1>2. b + 1 \in 1..Len(Ledger[c])
  BY <1>1
<1> QED BY <1>1, <1>2 DEF Block

\* Only Fetch takes up a block, AddBlock and SaveTrans go on with it, and any
\* other step leaves it alone or ends with it.
LEMMA HandOver ==
  ASSUME [Next]_vars
  PROVE  \/ \E f \in Fronts : Fetch(f)
         \/ AddBlock
         \/ SaveTrans
         \/ UNCHANGED <<pc, chan, next, rest>>
         \/ pc' \notin {"add", "save"}
<1> USE DEF tables, chain, locals, history
<1>1. CASE UNCHANGED vars
  BY <1>1 DEF vars
<1>2. ASSUME NEW f \in Fronts, Grow(f) PROVE UNCHANGED <<pc, chan, next, rest>>
  BY <1>2 DEF Grow
<1>3. CASE StartPull \/ EnterLoop \/ BlockSaved \/ Again
  BY <1>3 DEF StartPull, EnterLoop, BlockSaved, Again, LoopTest
<1>4. ASSUME NEW f \in Fronts,
             PullRow(f) \/ RequestHeight(f) \/ FetchBehind(f) \/ RefreshHeight(f)
      PROVE  pc' \notin {"add", "save"}
  BY <1>4 DEF PullRow, RequestHeight, FetchBehind, RefreshHeight, LoopTest
<1>5. CASE Statistics
  BY <1>5 DEF Statistics, StartStatistics, QueryLatest, SaveDay
<1>6. CASE Delete
  BY <1>6 DEF Delete, StartDelete, DeleteByChannelId, RemoveBlocks, RemoveTrans
<1>7. CASE EndTask
  BY <1>7 DEF EndTask
<1>8. CASE Fault
  BY <1>8 DEF Fault, Unanswered, PullFails, StatisticsFails, DeleteFails, Crash
<1>9. CASE Settle
  BY <1>9 DEF Settle
<1> QED
  BY <1>1, <1>2, <1>3, <1>4, <1>5, <1>6, <1>7, <1>8, <1>9 DEF Next, Pull

\* SaveTrans takes the envelope after the ones done.
LEMMA SaveTransTakes ==
  ASSUME IInv, InHand, SaveTrans
  PROVE  /\ chan \in Channels /\ next \in Nat
         /\ Done + 1 \in 1..Len(Block(chan, next))
         /\ Head(rest) = Block(chan, next)[Done + 1]
         /\ Done' = Done + 1
         /\ \A i \in 1..Len(rest') : rest'[i] = Block(chan, next)[Done' + i]
         /\ UNCHANGED <<pc, chan, next>>
<1>1. /\ pc = "save" /\ rest \in Seq(Envelope) /\ rest # <<>> /\ rest' = Tail(rest)
      /\ chan \in Channels /\ next \in Nat /\ UNCHANGED <<pc, chan, next>>
  BY DEF SaveTrans, IInv, TypeOK, PullRowPc
<1>2. /\ next < Len(Ledger[chan]) /\ Done \in Nat
      /\ \A i \in 1..Len(rest) : rest[i] = Block(chan, next)[Done + i]
  BY <1>1 DEF InHand
<1>3. Len(Block(chan, next)) \in Nat
  BY <1>1, <1>2, BlockType
<1>4. Len(rest) \in Nat \ {0} /\ Len(rest') = Len(rest) - 1 /\ Head(rest) = rest[1]
  BY <1>1
<1>5. Done' = Done + 1
  BY <1>1, <1>3, <1>4 DEF Done, Block
<1>6. Done + 1 \in 1..Len(Block(chan, next))
  BY <1>2, <1>3, <1>4 DEF Done
<1>7. \A i \in 1..Len(rest') : rest'[i] = rest[i + 1]
  BY <1>1
<1>8. \A i \in 1..Len(rest') : rest'[i] = Block(chan, next)[Done' + i]
  <2> SUFFICES ASSUME NEW i \in 1..Len(rest')
               PROVE  rest'[i] = Block(chan, next)[Done' + i]
    OBVIOUS
  <2>1. i + 1 \in 1..Len(rest)
    BY <1>4
  <2>2. Done' + i = Done + (i + 1)
    <3>1. i \in Nat
      BY <1>4
    <3>2. (Done + 1) + i = Done + (i + 1)
      BY <1>2, <3>1
    <3> QED BY <1>5, <3>2
  <2> QED BY <1>2, <1>7, <2>1, <2>2
<1>9. Head(rest) = Block(chan, next)[Done + 1]
  BY <1>2, <1>4
<1> QED BY <1>1, <1>5, <1>6, <1>8, <1>9

\* A row that SaveTrans adds is of the envelope it takes, and that is the first
\* of its block with its id: the ids before it are stored.
LEMMA SaveTransAdds ==
  ASSUME IInv, InHand, SavedSoFar, SaveTrans
  PROVE  /\ \A c \in Channels : trans[c] \subseteq trans'[c]
         /\ \A c \in Channels : \A t \in trans'[c] :
              \/ t \in trans[c]
              \/ /\ c = chan /\ t.num = auto[chan] /\ t.block = next
                 /\ OfEnvelope(c, t, Done + 1)
         /\ Head(rest).tx => \E t \in trans'[chan] : t.id = Head(rest).id
<1> DEFINE row == [num |-> auto[chan], id |-> Head(rest).id,
                   block |-> next, day |-> Head(rest).day]
<1>1. /\ pc = "save" /\ chan \in Channels /\ next \in Nat
      /\ Done + 1 \in 1..Len(Block(chan, next))
      /\ Head(rest) = Block(chan, next)[Done + 1]
      /\ next < Len(Ledger[chan]) /\ Done \in Nat
  BY SaveTransTakes DEF SaveTrans, InHand
<1>2. /\ row.num = auto[chan] /\ row.id = Head(rest).id
      /\ row.block = next /\ row.day = Head(rest).day
  OBVIOUS
<1>3. \/ UNCHANGED trans /\ ~ Head(rest).tx
      \/ Head(rest).tx /\ trans' = [trans EXCEPT ![chan] = InsertTrans(@, row)]
  BY DEF SaveTrans
<1> HIDE DEF row
<1>4. CASE UNCHANGED trans /\ ~ Head(rest).tx
  BY <1>4
<1>5. CASE Head(rest).tx /\ trans' = [trans EXCEPT ![chan] = InsertTrans(@, row)]
  <2>1. /\ \A c \in Channels : c # chan => trans'[c] = trans[c]
        /\ trans'[chan] = InsertTrans(trans[chan], row)
    BY <1>1, <1>5 DEF IInv, TypeOK
  <2>2. CASE Stored(chan, row.id)
    <3>1. \A c \in Channels : trans'[c] = trans[c]
      BY <2>1, <2>2 DEF Stored, InsertTrans
    <3> QED BY <1>1, <1>2, <2>2, <3>1 DEF Stored
  <2>3. CASE ~ Stored(chan, row.id)
    <3>1. trans'[chan] = trans[chan] \union {row}
      BY <2>1, <2>3 DEF Stored, InsertTrans
    <3>2. DOMAIN Ledger[chan][next + 1] = 1..Len(Block(chan, next))
      BY <1>1, BlockType
    <3>3. Occurs(chan, next, Done + 1, row.id)
      BY <1>1, <1>2, <1>5, <3>2 DEF Occurs, Block
    <3>4. ASSUME NEW k \in Nat, Occurs(chan, next, k, row.id) PROVE Done + 1 <= k
      <4>1. k \in 1..Len(Block(chan, next))
        BY <3>2, <3>4 DEF Occurs
      <4>2. k \notin 1..Done
        BY <1>1, <2>3, <3>4 DEF SavedSoFar, Occurs, Block
      <4> QED BY <1>1, <4>1, <4>2
    <3>5. OfEnvelope(chan, row, Done + 1)
      BY <1>1, <1>2, <3>3, <3>4 DEF OfEnvelope
    <3> QED BY <1>1, <1>2, <2>1, <3>1, <3>5
  <2> QED BY <2>2, <2>3
<1> QED BY <1>3, <1>4, <1>5

\* A row comes of one envelope only.
LEMMA OneEnvelope ==
  ASSUME NEW c \in Channels, NEW t, NEW i \in Nat, NEW j \in Nat,
         OfEnvelope(c, t, i), OfEnvelope(c, t, j)
  PROVE  i = j
<1>1. i <= j /\ j <= i
  BY DEF OfEnvelope
<1> QED BY <1>1

-----------------------------------------------------------------------------
(* The invariant.                                                          *)

LEMMA InHandNext ==
  ASSUME IInv, InHand, [Next]_vars
  PROVE  InHand'
<1>1. ASSUME NEW f \in Fronts, Fetch(f) PROVE InHand'
  <2>1. /\ chan \in Channels /\ next \in Nat /\ next < height[f]
        /\ ChannelOf[f] = chan
        /\ rest' = Block(chan, next) /\ pc' = "add"
        /\ UNCHANGED <<chan, next>>
    BY <1>1 DEF Fetch, FrontsOf, IInv, TypeOK, PullRowPc, Block
  <2>2. next < Len(Ledger[chan])
    <3>1. height[f] <= Len(Ledger[chan]) /\ height[f] \in Nat
      BY <2>1 DEF IInv, HeightsInLedger, TypeOK
    <3>2. Len(Ledger[chan]) \in Nat
      BY <2>1, LedgerAssumption
    <3> QED BY <2>1, <3>1, <3>2
  <2>3. Block(chan, next) \in Seq(Envelope) /\ Len(Block(chan, next)) \in Nat
    BY <2>1, <2>2, BlockType
  <2>4. Done' = 0
    BY <2>1, <2>3 DEF Done, Block
  <2>5. \A i \in 1..Len(rest') : 0 + i = i
    OBVIOUS
  <2> QED BY <2>1, <2>2, <2>4, <2>5 DEF InHand, Block
<1>2. CASE AddBlock
  <2>1. pc = "add" /\ pc' = "save" /\ UNCHANGED <<chan, next, rest>>
    BY <1>2 DEF AddBlock, locals
  <2> QED BY <2>1 DEF InHand, Done, Block
<1>3. CASE SaveTrans
  <2>1. pc = "save" /\ UNCHANGED <<pc, chan, next>>
    BY <1>3 DEF SaveTrans
  <2>2. next < Len(Ledger[chan]) /\ Done \in Nat
    BY <2>1 DEF InHand
  <2>3. Done' \in Nat
    BY <1>3, <2>2, SaveTransTakes
  <2> QED BY <1>3, <2>1, <2>2, <2>3, SaveTransTakes DEF InHand, Block
<1>4. CASE UNCHANGED <<pc, chan, next, rest>>
  BY <1>4 DEF InHand, Done, Block
<1>5. CASE pc' \notin {"add", "save"}
  BY <1>5 DEF InHand
<1> QED BY <1>1, <1>2, <1>3, <1>4, <1>5, HandOver

\* SaveTrans stores the envelope it passes, or finds its id stored, and while a
\* block is being saved nothing is deleted.
LEMMA SavedSoFarNext ==
  ASSUME IInv, InHand, SavedSoFar, [Next]_vars
  PROVE  SavedSoFar'
<1>1. ASSUME NEW f \in Fronts, Fetch(f) PROVE SavedSoFar'
  BY <1>1 DEF Fetch, SavedSoFar
<1>2. CASE AddBlock
  <2>1. pc = "add" /\ UNCHANGED <<chan, next, rest>>
    BY <1>2 DEF AddBlock, locals
  <2>2. Done' = 0
    BY <2>1 DEF InHand, Done, Block
  <2> QED BY <2>2 DEF SavedSoFar
<1>3. CASE SaveTrans
  <2>1. /\ pc = "save" /\ UNCHANGED <<pc, chan, next>>
        /\ chan \in Channels /\ next \in Nat
        /\ Head(rest) = Block(chan, next)[Done + 1]
        /\ Done' = Done + 1
    BY <1>3, SaveTransTakes DEF SaveTrans
  <2>2. Done \in Nat /\ next < Len(Ledger[chan])
    BY <2>1 DEF InHand
  <2>3. ASSUME NEW i \in 1..(Done + 1), Block(chan, next)[i].tx
        PROVE  \E t \in trans'[chan] : t.id = Block(chan, next)[i].id
    <3>1. CASE i = Done + 1
      BY <1>3, <2>1, <2>3, <3>1, SaveTransAdds
    <3>2. CASE i # Done + 1
      <4>1. i \in 1..Done
        BY <2>2, <3>2
      <4>2. Stored(chan, Block(chan, next)[i].id)
        BY <2>1, <2>3, <4>1 DEF SavedSoFar
      <4> QED BY <1>3, <2>1, <4>2, SaveTransAdds DEF Stored
    <3> QED BY <3>1, <3>2
  <2> QED BY <2>1, <2>3 DEF SavedSoFar, Block, Stored
<1>4. CASE UNCHANGED <<pc, chan, next, rest>> /\ ~ SaveTrans
  <2>1. pc = "save" => chan \in Channels
    BY DEF IInv, TypeOK, PullRowPc
  <2>2. pc = "save" => UNCHANGED trans
    BY <1>4, Writers DEF RemoveTrans
  <2> QED BY <1>4, <2>1, <2>2 DEF SavedSoFar, Done, Block, Stored
<1>5. CASE pc' \notin {"add", "save"}
  BY <1>5 DEF SavedSoFar
<1> QED BY <1>1, <1>2, <1>3, <1>4, <1>5, HandOver

\* A step that adds no row and does not take a block into its transactions.
LEMMA FromLedgerKept ==
  ASSUME FromLedger, \A c \in Channels : trans'[c] \subseteq trans[c],
         UNCHANGED <<pc, chan, next, rest>> \/ pc' # "save"
  PROVE  FromLedger'
<1>1. CASE UNCHANGED <<pc, chan, next, rest>>
  BY <1>1 DEF FromLedger, OfEnvelope, Occurs, Done, Block
<1>2. CASE pc' # "save"
  BY <1>2 DEF FromLedger, OfEnvelope, Occurs, Block
<1> QED BY <1>1, <1>2

LEMMA FromLedgerNext ==
  ASSUME IInv, InHand, SavedSoFar, FromLedger, [Next]_vars
  PROVE  FromLedger'
<1>1. CASE AddBlock
  <2>1. /\ chan \in Channels /\ next \in Nat
        /\ UNCHANGED <<trans, chan, next>>
    BY <1>1, AddBlockAdds DEF AddBlock, locals
  <2>2. \A t \in trans[chan] : t.block # next
    <3> SUFFICES ASSUME NEW t \in trans[chan] PROVE t.block # next
      OBVIOUS
    <3>1. PICK b \in blocks[chan] : t.block <= b
      BY <2>1 DEF IInv, TransInOrder, TransOfRecordedBlocks
    <3>2. IsWindow(blocks[chan]) /\ blocks[chan] # {}
      BY <2>1, <3>1 DEF IInv, Windows
    <3>3. next = Max(blocks[chan]) + 1
      BY <1>1, <3>2, AddBlockAdds DEF NumberAfter
    <3>4. b \in Nat /\ Max(blocks[chan]) \in Nat /\ b <= Max(blocks[chan])
      BY <3>2, MaxOfWindow
    <3>5. t.block \in Nat
      BY <2>1 DEF IInv, TypeOK, TransRow
    <3> QED BY <3>1, <3>3, <3>4, <3>5
  <2> QED BY <2>1, <2>2 DEF FromLedger, OfEnvelope, Occurs, Block
<1>2. CASE SaveTrans
  <2>1. /\ pc = "save" /\ UNCHANGED <<pc, chan, next>>
        /\ chan \in Channels /\ next \in Nat /\ Done' = Done + 1
    BY <1>2, SaveTransTakes DEF SaveTrans
  <2>2. next < Len(Ledger[chan]) /\ Done \in Nat
    BY <2>1 DEF InHand
  <2> SUFFICES ASSUME NEW c \in Channels, NEW t \in trans'[c]
               PROVE  /\ t.block < Len(Ledger[c])
                      /\ \E i \in Nat :
                           /\ OfEnvelope(c, t, i)
                           /\ pc = "save" /\ chan = c /\ next = t.block => i <= Done + 1
    BY <2>1 DEF FromLedger, OfEnvelope, Occurs, Block
  <2>3. CASE t \in trans[c]
    <3>1. PICK i \in Nat : /\ OfEnvelope(c, t, i)
                           /\ chan = c /\ next = t.block => i <= Done
      BY <2>1, <2>3 DEF FromLedger
    <3>2. t.block < Len(Ledger[c])
      BY <2>3 DEF FromLedger
    <3>3. i <= Done => i <= Done + 1
      BY <2>2
    <3> QED BY <3>1, <3>2, <3>3
  <2>4. CASE t \notin trans[c]
    <3>1. c = chan /\ t.block = next /\ OfEnvelope(c, t, Done + 1)
      BY <1>2, <2>4, SaveTransAdds
    <3>2. Done + 1 \in Nat /\ Done + 1 <= Done + 1
      BY <2>2
    <3> QED BY <2>2, <3>1, <3>2
  <2> QED BY <2>3, <2>4
<1>3. CASE RemoveTrans
  <2>1. \A c \in Channels : trans'[c] \subseteq trans[c]
    BY <1>3 DEF RemoveTrans, IInv, TypeOK
  <2>2. pc' # "save"
    BY <1>3 DEF RemoveTrans
  <2> QED BY <2>1, <2>2, FromLedgerKept
<1>4. CASE UNCHANGED trans /\ ~ AddBlock /\ ~ SaveTrans
  <2>1. UNCHANGED <<pc, chan, next, rest>> \/ pc' # "save"
    BY <1>4, HandOver DEF Fetch
  <2> QED BY <1>4, <2>1, FromLedgerKept
<1> QED BY <1>1, <1>2, <1>3, <1>4, Writers

\* A new row has the largest number and comes after the envelopes passed.
LEMMA RowsInOrderNext ==
  ASSUME IInv, InHand, SavedSoFar, FromLedger, RowsInOrder, [Next]_vars
  PROVE  RowsInOrder'
<1> SUFFICES ASSUME NEW c \in Channels, NEW t \in trans'[c], NEW u \in trans'[c],
                    NEW i \in Nat, NEW j \in Nat,
                    t.num < u.num, t.block = u.block, OfEnvelope(c, t, i), OfEnvelope(c, u, j)
             PROVE  i < j
  BY DEF RowsInOrder, OfEnvelope, Occurs, Block
<1>1. CASE t \in trans[c] /\ u \in trans[c]
  BY <1>1 DEF RowsInOrder
<1>2. CASE SaveTrans
  <2>1. pc = "save" /\ chan \in Channels /\ Done \in Nat
    BY <1>2, SaveTransTakes DEF SaveTrans, InHand
  <2>2. \A v \in trans[c] : v.num < auto[c] /\ v.num \in Nat /\ auto[c] \in Nat
    BY DEF IInv, TransInOrder, TypeOK, TransRow
  <2>3. CASE t \in trans[c] /\ u \notin trans[c]
    <3>1. c = chan /\ u.block = next /\ OfEnvelope(c, u, Done + 1)
      BY <1>2, <2>3, SaveTransAdds
    <3>2. PICK k \in Nat : OfEnvelope(c, t, k) /\ k <= Done
      BY <2>1, <2>3, <3>1 DEF FromLedger
    <3>3. k = i /\ Done + 1 = j
      BY <2>1, <3>1, <3>2, OneEnvelope
    <3> QED BY <2>1, <3>2, <3>3
  <2>4. CASE t \notin trans[c]
    <3>1. c = chan /\ t.num = auto[chan]
      BY <1>2, <2>4, SaveTransAdds
    <3>2. u \in trans[c] \/ u.num = auto[chan]
      BY <1>2, SaveTransAdds
    <3>3. auto[c] \in Nat
      BY DEF IInv, TypeOK
    <3> QED BY <2>2, <3>1, <3>2, <3>3
  <2> QED BY <1>1, <2>3, <2>4
<1>3. CASE RemoveTrans
  <2>1. trans'[c] \subseteq trans[c]
    BY <1>3 DEF RemoveTrans, IInv, TypeOK
  <2> QED BY <1>1, <2>1
<1>4. CASE UNCHANGED trans
  BY <1>1, <1>4
<1> QED BY <1>2, <1>3, <1>4, Writers

LEMMA BlocksOnChainNext ==
  ASSUME IInv, InHand, BlocksOnChain, [Next]_vars
  PROVE  BlocksOnChain'
<1>1. CASE AddBlock
  <2>1. next < Len(Ledger[chan])
    BY <1>1 DEF AddBlock, InHand
  <2> QED BY <1>1, <2>1, AddBlockAdds DEF BlocksOnChain, IInv, TypeOK
<1>2. CASE RemoveBlocks
  BY <1>2 DEF RemoveBlocks, BlocksOnChain, IInv, TypeOK
<1>3. CASE UNCHANGED blocks
  BY <1>3 DEF BlocksOnChain
<1> QED BY <1>1, <1>2, <1>3, Writers

LEMMA LInvariance == Spec => []LInv
<1>1. Init => LInv
  BY DEF Init, LInv, InHand, SavedSoFar, FromLedger, RowsInOrder, BlocksOnChain
<1>2. IInv /\ LInv /\ [Next]_vars => LInv'
  BY InHandNext, SavedSoFarNext, FromLedgerNext, RowsInOrderNext, BlocksOnChainNext DEF LInv
<1> QED BY <1>1, <1>2, Invariance, PTL DEF Spec

-----------------------------------------------------------------------------
(* Days that follow the chain.                                             *)

\* The clients' days never go back along the chain.
LedgerInDayOrder ==
  \A c \in Channels : \A a, b \in Nat : \A i, j \in Nat :
    /\ a < Len(Ledger[c]) /\ i \in 1..Len(Block(c, a)) /\ Block(c, a)[i].tx
    /\ b < Len(Ledger[c]) /\ j \in 1..Len(Block(c, b)) /\ Block(c, b)[j].tx
    /\ a < b \/ (a = b /\ i <= j)
    => Block(c, a)[i].day <= Block(c, b)[j].day

DaysInOrder ==
  \A c \in Channels : \A t, u \in trans[c] : t.num < u.num => t.day <= u.day

\* A number is about to be counted for its own day.
PendingDays ==
  pc = "statSave" =>
    \A d \in Days : \A n \in pending[d] : \E t \in trans[chan] : t.num = n /\ t.day = d

DInv == DaysInOrder /\ PendingDays /\ NoneSkippedInOrder

\* A new row is of no earlier day than any stored one.
LEMMA DaysInOrderSave ==
  ASSUME LedgerInDayOrder, IInv, LInv, DaysInOrder, SaveTrans
  PROVE  DaysInOrder'
<1>0. InHand /\ SavedSoFar /\ FromLedger
  BY DEF LInv
<1>1. /\ pc = "save" /\ chan \in Channels /\ next \in Nat
      /\ next < Len(Ledger[chan]) /\ Done \in Nat
  BY <1>0, SaveTransTakes DEF SaveTrans, InHand
<1> SUFFICES ASSUME NEW c \in Channels, NEW t \in trans'[c], NEW u \in trans'[c],
                    t.num < u.num
             PROVE  t.day <= u.day
  BY DEF DaysInOrder
<1>2. \A v \in trans[c] : v.num < auto[c] /\ v.num \in Nat /\ auto[c] \in Nat
  BY DEF IInv, TransInOrder, TypeOK, TransRow
<1>3. CASE t \in trans[c] /\ u \in trans[c]
  BY <1>3 DEF DaysInOrder
<1>4. CASE t \in trans[c] /\ u \notin trans[c]
  <2>1. c = chan /\ u.block = next /\ OfEnvelope(c, u, Done + 1)
    BY <1>0, <1>4, SaveTransAdds
  <2>2. t.block \in Nat /\ t.block <= next
    <3>1. PICK b \in blocks[chan] : t.block <= b
      BY <1>4, <2>1 DEF IInv, TransInOrder, TransOfRecordedBlocks
    <3>2. IsWindow(blocks[chan]) /\ next = Max(blocks[chan])
      BY <1>1 DEF IInv, Windows, NextInOrder
    <3>3. b \in Nat /\ b <= next
      BY <3>1, <3>2, MaxOfWindow
    <3>4. t.block \in Nat
      BY <1>4 DEF IInv, TypeOK, TransRow
    <3> QED BY <1>1, <3>1, <3>3, <3>4
  <2>3. PICK i \in Nat : OfEnvelope(c, t, i) /\ (next = t.block => i <= Done)
    BY <1>0, <1>1, <1>4, <2>1 DEF FromLedger
  <2>4. t.block < next \/ (t.block = next /\ i <= Done + 1)
    BY <1>1, <2>2, <2>3
  <2>5. t.block < Len(Ledger[c])
    BY <1>0, <1>4 DEF FromLedger
  <2>6. /\ i \in 1..Len(Block(c, t.block)) /\ Block(c, t.block)[i].tx
        /\ Block(c, t.block)[i].day = t.day
    BY <2>2, <2>3, <2>5, BlockType DEF OfEnvelope, Occurs, Block
  <2>7. /\ Done + 1 \in 1..Len(Block(c, next)) /\ Block(c, next)[Done + 1].tx
        /\ Block(c, next)[Done + 1].day = u.day
    BY <1>1, <2>1, BlockType DEF OfEnvelope, Occurs, Block
  <2>8. Block(c, t.block)[i].day <= Block(c, next)[Done + 1].day
    BY <1>1, <2>1, <2>2, <2>4, <2>5, <2>6, <2>7 DEF LedgerInDayOrder
  <2> QED BY <2>6, <2>7, <2>8
<1>5. CASE t \notin trans[c]
  <2>1. c = chan /\ t.num = auto[chan]
    BY <1>0, <1>5, SaveTransAdds
  <2>2. u \in trans[c] \/ u.num = auto[chan]
    BY <1>0, SaveTransAdds
  <2>3. auto[c] \in Nat
    BY DEF IInv, TypeOK
  <2> QED BY <1>2, <2>1, <2>2, <2>3
<1> QED BY <1>3, <1>4, <1>5

LEMMA DaysInOrderNext ==
  ASSUME LedgerInDayOrder, IInv, LInv, DaysInOrder, [Next]_vars
  PROVE  DaysInOrder'
<1>1. CASE UNCHANGED trans
  BY <1>1 DEF DaysInOrder
<1>2. CASE RemoveTrans
  <2>1. \A c \in Channels : trans'[c] \subseteq trans[c]
    BY <1>2 DEF RemoveTrans, IInv, TypeOK
  <2> QED BY <2>1 DEF DaysInOrder
<1> QED BY <1>1, <1>2, DaysInOrderSave, Writers

LEMMA PendingDaysNext ==
  ASSUME IInv, SInv, PendingDays, [Next]_vars
  PROVE  PendingDays'
<1>t. TypeOK /\ PendingWhileSaving
  BY DEF IInv, SInv
<1>1. CASE SaveTrans \/ RemoveTrans
  BY <1>1 DEF SaveTrans, RemoveTrans, PendingDays
<1>2. ASSUME NEW c \in Channels, QueryLatest(c) PROVE PendingDays'
  <2>1. UNCHANGED trans /\ DOMAIN daily[c] = Days /\ pc = "statRows"
    BY <1>t, <1>2 DEF QueryLatest, TypeOK, tables
  <2>2. CASE UNCHANGED <<pc, chan, pending>>
    BY <2>1, <2>2 DEF PendingDays
  <2>3. CASE chan' = c /\ pending' = LatestTransCount(trans[c], daily[c])
    <3>1. \A d \in Days : \A n \in pending'[d] : \E t \in trans[c] : t.num = n /\ t.day = d
      BY <2>1, <2>3 DEF LatestTransCount
    <3> QED BY <2>1, <2>3, <3>1 DEF PendingDays
  <2> QED BY <1>2, <2>2, <2>3 DEF QueryLatest
<1>3. ASSUME NEW d \in Days, SaveDay(d) PROVE PendingDays'
  <2>1. /\ pc = "statSave" /\ pending' = [pending EXCEPT ![d] = {}]
        /\ UNCHANGED trans
        /\ pc' # "statSave" \/ chan' = chan
    BY <1>3 DEF SaveDay
  <2>2. \A e \in Days : pending'[e] \subseteq pending[e]
    BY <1>t, <2>1 DEF TypeOK
  <2> QED BY <2>1, <2>2 DEF PendingDays
<1>4. CASE Quiet
  BY <1>4 DEF Quiet, PendingDays
<1> QED BY <1>t, <1>1, <1>2, <1>3, <1>4, StatisticsWriters

\* Of the days in the list the earliest is saved first, and the numbers of later
\* days are larger: the watermark does not pass them.
LEMMA NoneSkippedInOrderNext ==
  ASSUME IInv, SInv, DInv, [Next]_vars
  PROVE  NoneSkippedInOrder'
<1>t. TypeOK /\ PendingWhileSaving
  BY DEF IInv, SInv
<1>1. CASE SaveTrans
  <2>1. UNCHANGED <<daily, counted>>
    BY <1>1 DEF SaveTrans, history
  <2> SUFFICES ASSUME NEW c \in Channels, NEW t \in trans'[c],
                      BelowWatermark(t.num, daily[c])
               PROVE  t.num \in counted[c]
    BY <2>1 DEF NoneSkippedInOrder, Numbers
  <2>2. chan \in Channels
    BY <1>1, <1>t DEF SaveTrans, TypeOK, PullRowPc
  <2>3. t \in trans[c] \/ t.num = auto[c]
    <3>1. CASE UNCHANGED trans
      BY <3>1
    <3>2. CASE trans' = [trans EXCEPT ![chan] =
                          InsertTrans(@, [num |-> auto[chan], id |-> Head(rest).id,
                                          block |-> next, day |-> Head(rest).day])]
      <4>1. \/ t \in trans[c]
            \/ c = chan /\ t = [num |-> auto[chan], id |-> Head(rest).id,
                                block |-> next, day |-> Head(rest).day]
        BY <1>t, <2>2, <3>2 DEF TypeOK, InsertTrans
      <4> QED BY <4>1
    <3> QED BY <1>1, <3>1, <3>2 DEF SaveTrans
  <2>4. t.num # auto[c]
    <3>1. DOMAIN daily[c] = Days
      BY <1>t DEF TypeOK
    <3>2. PICK e \in Days : \E m \in daily[c][e] : t.num <= m
      BY <3>1 DEF BelowWatermark
    <3>3. PICK m \in daily[c][e] : t.num <= m
      BY <3>2
    <3>4. m < auto[c] /\ m \in Nat /\ auto[c] \in Nat
      BY <1>t, <3>3 DEF SInv, DailyStored, TypeOK
    <3> QED BY <3>3, <3>4
  <2>5. t.num \in Numbers(trans[c])
    BY <2>3, <2>4 DEF Numbers
  <2> QED BY <2>5 DEF DInv, NoneSkippedInOrder
<1>2. CASE RemoveTrans
  <2>1. \A c \in Channels : trans'[c] \subseteq trans[c]
    BY <1>2, <1>t DEF RemoveTrans, TypeOK
  <2>2. UNCHANGED <<daily, counted>>
    BY <1>2 DEF RemoveTrans, history
  <2> QED BY <2>1, <2>2 DEF DInv, NoneSkippedInOrder, Numbers
<1>3. ASSUME NEW d \in Days, SaveDay(d) PROVE NoneSkippedInOrder'
  <2>1. /\ pc = "statSave" /\ chan \in Channels
        /\ \A e \in Days : pending[e] # {} => d <= e
        /\ daily' = [daily EXCEPT ![chan][d] = pending[d]]
        /\ counted' = [counted EXCEPT ![chan] = @ \union pending[d]]
        /\ UNCHANGED trans
    BY <1>3, <1>t DEF SaveDay, TypeOK
  <2>2. /\ \A c \in Channels : c # chan => daily'[c] = daily[c]
        /\ \A c \in Channels : counted[c] \subseteq counted'[c]
        /\ pending[d] \subseteq counted'[chan]
        /\ \A c \in Channels : DOMAIN daily[c] = Days /\ DOMAIN daily'[c] = Days
        /\ daily'[chan][d] = pending[d]
        /\ \A e \in Days : e # d => daily'[chan][e] = daily[chan][e]
    BY <1>t, <2>1 DEF TypeOK
  <2> SUFFICES ASSUME NEW c \in Channels, NEW t \in trans[c],
                      BelowWatermark(t.num, daily'[c]), t.num \notin counted[c]
               PROVE  t.num \in counted'[c]
    BY <2>1, <2>2 DEF NoneSkippedInOrder, Numbers
  <2>3. t.num \in Numbers(trans[c])
    BY DEF Numbers
  <2>4. ~ BelowWatermark(t.num, daily[c])
    BY <2>3 DEF DInv, NoneSkippedInOrder
  <2>5. c = chan
    BY <2>2, <2>4
  <2>6. PICK m \in pending[d] : t.num <= m
    <3>1. PICK e \in Days : \E m \in daily'[c][e] : t.num <= m
      BY <2>2 DEF BelowWatermark
    <3>2. e = d
      BY <2>2, <2>4, <2>5, <3>1 DEF BelowWatermark
    <3> QED BY <2>2, <2>5, <3>1, <3>2
  <2>7. PICK e \in Days : t.num \in pending[e]
    BY <2>1, <2>3, <2>4, <2>5 DEF SInv, Saving
  <2>8. t.day = e
    <3>1. PICK v \in trans[chan] : v.num = t.num /\ v.day = e
      BY <2>1, <2>7 DEF DInv, PendingDays
    <3> QED BY <2>5, <3>1 DEF SInv, NumberedRows
  <2>9. e <= d
    <3>1. PICK u \in trans[chan] : u.num = m /\ u.day = d
      BY <2>1, <2>6 DEF DInv, PendingDays
    <3>2. t.num \in Nat /\ u.num \in Nat
      BY <1>t, <2>1, <2>5 DEF TypeOK, TransRow
    <3>3. CASE t.num = u.num
      <4>1. t = u
        BY <2>1, <2>5, <3>3 DEF SInv, NumberedRows
      <4>2. e \in Nat /\ e = d
        BY <2>8, <3>1, <4>1, LedgerAssumption
      <4> QED BY <4>2
    <3>4. CASE t.num < u.num
      BY <2>1, <2>5, <2>8, <3>1, <3>4 DEF DInv, DaysInOrder
    <3> QED BY <2>6, <3>1, <3>2, <3>3, <3>4
  <2>10. e = d
    <3>1. d <= e /\ d \in Nat /\ e \in Nat
      BY <2>1, <2>7, LedgerAssumption
    <3> QED BY <2>9, <3>1
  <2> QED BY <2>2, <2>5, <2>7, <2>10
<1>4. CASE UNCHANGED <<trans, daily, counted>>
  BY <1>4 DEF DInv, NoneSkippedInOrder
<1>5. (\E c \in Channels : QueryLatest(c)) \/ Quiet => UNCHANGED <<trans, daily, counted>>
  BY DEF QueryLatest, Quiet, tables, history
<1> QED BY <1>t, <1>1, <1>2, <1>3, <1>4, <1>5, StatisticsWriters

\* When the days follow the chain an interrupted statistics run loses nothing.
THEOREM NoneLostInOrder ==
  ASSUME LedgerInDayOrder
  PROVE  Spec => []NoneSkippedInOrder
<1>1. Init => DInv
  BY DEF Init, DInv, DaysInOrder, PendingDays, NoneSkippedInOrder, Numbers
<1>2. IInv /\ SInv /\ LInv /\ DInv /\ [Next]_vars => DInv'
  BY DaysInOrderNext, PendingDaysNext, NoneSkippedInOrderNext DEF DInv
<1>3. DInv => NoneSkippedInOrder
  BY DEF DInv
<1> QED BY <1>1, <1>2, <1>3, Invariance, StatisticsInvariance, LInvariance, PTL DEF Spec

-----------------------------------------------------------------------------
(* Blocks and their transactions.                                          *)

\* `torn` only grows, and by the block in hand when its saving is cut short.
LEMMA TornSteps ==
  ASSUME TypeOK, [Next]_vars
  PROVE  /\ torn' = torn \/ torn' = TornNow
         /\ pc = "save" => \/ UNCHANGED <<pc, chan, next>>
                           \/ rest = <<>> /\ torn' = torn
                           \/ torn' = TornNow
<1> USE DEF tables, chain, locals, history
<1>1. CASE UNCHANGED vars
  BY <1>1 DEF vars
<1>2. ASSUME NEW f \in Fronts, Grow(f)
      PROVE  UNCHANGED <<torn, pc, chan, next>>
  BY <1>2 DEF Grow
<1>3. CASE StartPull \/ EnterLoop \/ AddBlock \/ Again
  BY <1>3 DEF StartPull, EnterLoop, AddBlock, Again
<1>4. CASE SaveTrans
  BY <1>4 DEF SaveTrans
<1>5. CASE BlockSaved
  BY <1>5 DEF BlockSaved
<1>6. ASSUME NEW f \in Fronts,
             PullRow(f) \/ RequestHeight(f) \/ Fetch(f) \/ FetchBehind(f) \/ RefreshHeight(f)
      PROVE  pc # "save" /\ torn' = torn
  BY <1>6 DEF PullRow, RequestHeight, Fetch, FetchBehind, RefreshHeight
<1>7. CASE Statistics
  BY <1>7 DEF Statistics, StartStatistics, QueryLatest, SaveDay
<1>8. CASE Delete
  BY <1>8 DEF Delete, StartDelete, DeleteByChannelId, RemoveBlocks, RemoveTrans
<1>9. CASE EndTask
  BY <1>9 DEF EndTask
<1>10. CASE Fault
  BY <1>10 DEF Fault, Unanswered, PullFails, StatisticsFails, DeleteFails, Crash, TornNow
<1>11. CASE Settle
  BY <1>11 DEF Settle
<1> QED
  BY <1>1, <1>2, <1>3, <1>4, <1>5, <1>6, <1>7, <1>8, <1>9, <1>10, <1>11 DEF Next, Pull

\* Where envelope i of block b went, which is a transaction with this id: a row
\* of the id's first block in the table up to b, or what is stored begins after it.
Traced(c, b, i, id) ==
  \E a \in 0..b : \E j \in DOMAIN Ledger[c][a + 1] :
    /\ Occurs(c, a, j, id) /\ (a = b => j <= i)
    /\ (\E t \in trans[c] : t.id = id /\ t.block = a) \/ RowsAfter(c, a, j)

AllTraced(c, b) ==
  \A i \in DOMAIN Ledger[c][b + 1] :
    Ledger[c][b + 1][i].tx => Traced(c, b, i, Ledger[c][b + 1][i].id)

TracedUnlessTorn ==
  \A c \in Channels : \A b \in blocks[c] :
    b \in torn[c] \/ (pc = "save" /\ chan = c /\ next = b) \/ AllTraced(c, b)

\* When all envelopes of a block have been passed, each is stored.
LEMMA SavedTraced ==
  ASSUME IInv, LInv, pc = "save", rest = <<>>
  PROVE  AllTraced(chan, next)
<1>1. /\ chan \in Channels /\ next \in Nat /\ next < Len(Ledger[chan])
  BY DEF IInv, TypeOK, PullRowPc, LInv, InHand
<1>2. /\ Block(chan, next) \in Seq(Envelope)
      /\ DOMAIN Ledger[chan][next + 1] = 1..Len(Block(chan, next))
  BY <1>1, BlockType
<1>3. Done = Len(Block(chan, next)) /\ DOMAIN Ledger[chan][next + 1] \subseteq 1..Done
  BY <1>2 DEF Done, Block
<1> SUFFICES ASSUME NEW i \in DOMAIN Ledger[chan][next + 1], Ledger[chan][next + 1][i].tx
             PROVE  Traced(chan, next, i, Ledger[chan][next + 1][i].id)
  BY DEF AllTraced
<1> DEFINE id == Ledger[chan][next + 1][i].id
<1>4. i \in Nat /\ Occurs(chan, next, i, id)
  BY <1>2, <1>3 DEF Occurs
<1>5. PICK t \in trans[chan] : t.id = id
  BY <1>3 DEF LInv, SavedSoFar, Stored, Block
<1> HIDE DEF id
<1>6. t.block \in 0..next
  <2>1. PICK b \in blocks[chan] : t.block <= b
    BY <1>1, <1>5 DEF IInv, TransInOrder, TransOfRecordedBlocks
  <2>2. IsWindow(blocks[chan]) /\ next = Max(blocks[chan])
    BY <1>1 DEF IInv, Windows, NextInOrder
  <2>3. b \in Nat /\ b <= next
    BY <2>1, <2>2, MaxOfWindow
  <2>4. t.block \in Nat
    BY <1>1, <1>5 DEF IInv, TypeOK, TransRow
  <2> QED BY <1>1, <2>1, <2>3, <2>4
<1>7. PICK j \in Nat : OfEnvelope(chan, t, j)
  BY <1>1, <1>5 DEF LInv, FromLedger
<1>8. Occurs(chan, t.block, j, id) /\ (t.block = next => j <= i)
  BY <1>4, <1>5, <1>7 DEF OfEnvelope
<1>9. Traced(chan, next, i, id)
  BY <1>5, <1>6, <1>8 DEF Traced, Occurs
<1> QED BY <1>9 DEF id

\* What was traced stays so: new rows come after it, and deleting takes the
\* oldest rows.
LEMMA TracedKept ==
  ASSUME IInv, SInv, LInv, [Next]_vars,
         NEW c \in Channels, NEW b \in blocks[c], NEW i \in Nat, NEW id,
         ~ (SaveTrans /\ chan = c /\ next = b),
         Traced(c, b, i, id)
  PROVE  Traced(c, b, i, id)'
<1>0. b \in Nat
  BY DEF IInv, TypeOK
<1>1. PICK a \in 0..b : \E j \in DOMAIN Ledger[c][a + 1] :
        /\ Occurs(c, a, j, id) /\ (a = b => j <= i)
        /\ (\E t \in trans[c] : t.id = id /\ t.block = a) \/ RowsAfter(c, a, j)
  BY DEF Traced
<1>2. PICK j \in DOMAIN Ledger[c][a + 1] :
        /\ Occurs(c, a, j, id) /\ (a = b => j <= i)
        /\ (\E t \in trans[c] : t.id = id /\ t.block = a) \/ RowsAfter(c, a, j)
  BY <1>1
<1>3. CASE UNCHANGED trans
  BY <1>1, <1>2, <1>3 DEF Traced, Occurs, RowsAfter
<1>4. CASE SaveTrans
  <2>1. trans[c] \subseteq trans'[c]
    BY <1>4, SaveTransAdds DEF LInv
  <2>2. CASE \E t \in trans[c] : t.id = id /\ t.block = a
    BY <1>1, <1>2, <2>1, <2>2 DEF Traced, Occurs
  <2>3. CASE RowsAfter(c, a, j)
    <3>1. ASSUME NEW t \in trans'[c], t \notin trans[c] PROVE a < t.block
      <4>1. c = chan /\ t.block = next
        BY <1>4, <3>1, SaveTransAdds DEF LInv
      <4>2. pc = "save" /\ next \in Nat
        BY <1>4 DEF SaveTrans, IInv, TypeOK
      <4>3. IsWindow(blocks[c]) /\ next = Max(blocks[c])
        BY <4>1, <4>2 DEF IInv, Windows, NextInOrder
      <4>4. b <= next /\ b # next
        BY <1>4, <4>1, <4>2, <4>3, MaxOfWindow
      <4> QED BY <1>0, <1>1, <4>1, <4>2, <4>4
    <3>2. RowsAfter(c, a, j)'
      BY <2>1, <2>3, <3>1 DEF RowsAfter, Occurs
    <3> QED BY <1>1, <1>2, <3>2 DEF Traced, Occurs
  <2> QED BY <1>2, <2>2, <2>3
<1>5. CASE RemoveTrans
  <2>1. trans'[c] \subseteq trans[c]
    BY <1>5, OldestRemoved
  <2>2. trans[c] # {} => trans'[c] # {}
    BY <1>5, OldestRemoved
  <2>3. CASE RowsAfter(c, a, j)
    <3>1. RowsAfter(c, a, j)'
      BY <2>1, <2>2, <2>3 DEF RowsAfter, Occurs
    <3> QED BY <1>1, <1>2, <3>1 DEF Traced, Occurs
  <2>4. ASSUME NEW t \in trans[c], t.id = id, t.block = a
        PROVE  Traced(c, b, i, id)'
    <3>1. CASE t \in trans'[c]
      BY <1>1, <1>2, <2>4, <3>1 DEF Traced, Occurs
    <3>2. CASE t \notin trans'[c]
      <4>1. PICK k \in Nat : OfEnvelope(c, t, k)
        BY DEF LInv, FromLedger
      <4>2. Occurs(c, a, k, id) /\ k \in DOMAIN Ledger[c][a + 1]
        BY <2>4, <4>1 DEF OfEnvelope, Occurs
      <4>3. a = b => k <= i
        <5>1. j \in Nat
          <6>1. a \in Nat /\ a < Len(Ledger[c])
            BY <1>1, <2>4 DEF LInv, FromLedger
          <6>2. Block(c, a) \in Seq(Envelope) /\ DOMAIN Ledger[c][a + 1] = 1..Len(Block(c, a))
            BY <6>1, BlockType
          <6> QED BY <6>2
        <5>2. k <= j
          BY <1>2, <2>4, <4>1, <5>1 DEF OfEnvelope
        <5> QED BY <1>2, <5>1, <5>2
      <4>4. ASSUME NEW u \in trans'[c]
            PROVE  \/ a < u.block
                   \/ a = u.block /\ \A m \in Nat : Occurs(c, a, m, u.id) => k < m
        <5>1. u \in trans[c] /\ t.num < u.num
          BY <1>5, <2>1, <3>2, OldestRemoved
        <5>2. t.block <= u.block /\ t.block \in Nat /\ u.block \in Nat
          BY <5>1 DEF IInv, TransInOrder, TransInBlockOrder, TypeOK, TransRow
        <5>3. CASE u.block = a
          <6>1. PICK m \in Nat : OfEnvelope(c, u, m)
            BY <5>1 DEF LInv, FromLedger
          <6>2. k < m
            BY <2>4, <4>1, <5>1, <5>3, <6>1 DEF LInv, RowsInOrder
          <6> QED BY <5>3, <6>1, <6>2 DEF OfEnvelope
        <5> QED BY <2>4, <5>2, <5>3
      <4>5. RowsAfter(c, a, k)'
        <5>1. DOMAIN Ledger[c][a + 1] \subseteq Nat
          <6>1. a \in Nat /\ a < Len(Ledger[c])
            BY <1>1, <2>4 DEF LInv, FromLedger
          <6>2. Block(c, a) \in Seq(Envelope) /\ DOMAIN Ledger[c][a + 1] = 1..Len(Block(c, a))
            BY <6>1, BlockType
          <6> QED BY <6>2
        <5> QED BY <2>2, <4>4, <5>1 DEF RowsAfter, Occurs
      <4> QED BY <1>1, <4>2, <4>3, <4>5 DEF Traced, Occurs
    <3> QED BY <3>1, <3>2
  <2> QED BY <1>2, <2>3, <2>4
<1> QED BY <1>3, <1>4, <1>5, Writers

LEMMA TracedUnlessTornNext ==
  ASSUME IInv, SInv, LInv, TracedUnlessTorn, [Next]_vars
  PROVE  TracedUnlessTorn'
<1>t. TypeOK
  BY DEF IInv
<1>1. \A c \in Channels : torn[c] \subseteq torn'[c]
  BY <1>t, TornSteps DEF TornNow, TypeOK
<1>2. ASSUME NEW c \in Channels, NEW b \in blocks[c], AllTraced(c, b),
             ~ (SaveTrans /\ chan = c /\ next = b)
      PROVE  AllTraced(c, b)'
  <2>1. ASSUME NEW i \in DOMAIN Ledger[c][b + 1], Ledger[c][b + 1][i].tx
        PROVE  Traced(c, b, i, Ledger[c][b + 1][i].id)'
    <3>1. Traced(c, b, i, Ledger[c][b + 1][i].id)
      BY <1>2, <2>1 DEF AllTraced
    <3>2. i \in Nat
      <4>1. b \in Nat /\ b < Len(Ledger[c])
        BY <1>t DEF TypeOK, LInv, BlocksOnChain
      <4>2. Block(c, b) \in Seq(Envelope) /\ DOMAIN Ledger[c][b + 1] = 1..Len(Block(c, b))
        BY <4>1, BlockType
      <4> QED BY <2>1, <4>2
    <3> QED BY <1>2, <3>1, <3>2, TracedKept
  <2> QED BY <2>1 DEF AllTraced
<1> SUFFICES ASSUME NEW c \in Channels, NEW b \in blocks'[c]
             PROVE  \/ b \in torn'[c]
                    \/ pc' = "save" /\ chan' = c /\ next' = b
                    \/ AllTraced(c, b)'
  BY DEF TracedUnlessTorn
<1>3. CASE b \in blocks[c]
  <2>1. CASE pc = "save" /\ chan = c /\ next = b
    <3>1. CASE UNCHANGED <<pc, chan, next>>
      BY <2>1, <3>1
    <3>2. CASE rest = <<>>
      <4>1. AllTraced(c, b) /\ ~ SaveTrans
        BY <2>1, <3>2, SavedTraced DEF SaveTrans
      <4> QED BY <1>2, <1>3, <4>1
    <3>3. CASE rest # <<>> /\ torn' = TornNow
      BY <1>t, <2>1, <3>3 DEF TornNow, TypeOK
    <3> QED BY <1>t, <2>1, <3>1, <3>2, <3>3, TornSteps
  <2>2. CASE ~ (pc = "save" /\ chan = c /\ next = b)
    BY <1>1, <1>2, <1>3, <2>2 DEF TracedUnlessTorn, SaveTrans
  <2> QED BY <2>1, <2>2
<1>4. CASE b \notin blocks[c]
  <2>1. CASE AddBlock
    <3>1. c = chan /\ b = next
      BY <1>t, <1>4, <2>1, AddBlockAdds DEF TypeOK
    <3>2. pc' = "save" /\ UNCHANGED <<chan, next>>
      BY <2>1 DEF AddBlock, locals
    <3> QED BY <3>1, <3>2
  <2>2. CASE RemoveBlocks
    BY <1>t, <1>4, <2>2 DEF RemoveBlocks, TypeOK
  <2> QED BY <1>4, <2>1, <2>2, Writers
<1> QED BY <1>3, <1>4

\* A stored block has all its transactions but the oldest ones that were
\* deleted, unless its saving is going on or was cut short.
THEOREM OnlyTornIncomplete == Spec => []OnlyTornBlocksIncomplete
<1>1. Init => TracedUnlessTorn
  BY DEF Init, TracedUnlessTorn
<1>2. IInv /\ SInv /\ LInv /\ TracedUnlessTorn /\ [Next]_vars => TracedUnlessTorn'
  BY TracedUnlessTornNext
<1>3. TracedUnlessTorn => OnlyTornBlocksIncomplete
  <2>1. ASSUME NEW c \in Channels, NEW b, NEW i, NEW id, Traced(c, b, i, id)
        PROVE  Stored(c, id) \/ Deleted(c, b, i, id)
    BY <2>1 DEF Traced, Stored, Deleted
  <2> QED BY <2>1 DEF TracedUnlessTorn, AllTraced, OnlyTornBlocksIncomplete
<1> QED BY <1>1, <1>2, <1>3, Invariance, StatisticsInvariance, LInvariance, PTL DEF Spec

-----------------------------------------------------------------------------
(* What @Transactional on saveBLockInfo says, and when it is so.           *)

\* No exception of the database and no crash cuts the saving of a block short.
Uncut == Faults \cap {"db", "crash"} = {}

\* The delete task never runs.
NoDeletion == pc \notin {"delRows", "delBlock", "delTrans"}

LEMMA NoDeletionNext ==
  ASSUME ~ IsDeleteInfo, NoDeletion, [Next]_vars
  PROVE  NoDeletion'
<1> USE DEF NoDeletion
<1>1. CASE UNCHANGED vars
  BY <1>1 DEF vars
<1>2. CASE Pull
  BY <1>2 DEF Pull, StartPull, PullRow, RequestHeight, EnterLoop, Fetch, FetchBehind,
              AddBlock, SaveTrans, BlockSaved, Again, RefreshHeight, LoopTest
<1>3. CASE Statistics
  BY <1>3 DEF Statistics, StartStatistics, QueryLatest, SaveDay
<1>4. CASE Delete
  BY <1>4 DEF Delete, StartDelete, DeleteByChannelId, RemoveBlocks, RemoveTrans
<1>5. CASE EndTask \/ Fault \/ Settle
  BY <1>5 DEF EndTask, Fault, Unanswered, PullFails, StatisticsFails, DeleteFails,
              Crash, Settle
<1>6. ASSUME NEW f \in Fronts, Grow(f) PROVE NoDeletion'
  BY <1>6 DEF Grow
<1> QED BY <1>1, <1>2, <1>3, <1>4, <1>5, <1>6 DEF Next

\* A block is left only when all its envelopes were passed.
LEMMA LeftWhenSaved ==
  ASSUME Uncut, pc = "save", [Next]_vars
  PROVE  UNCHANGED <<pc, chan, next>> \/ rest = <<>>
<1> USE DEF tables, chain, locals, history
<1>1. CASE UNCHANGED vars
  BY <1>1 DEF vars
<1>2. ASSUME NEW f \in Fronts, Grow(f) PROVE UNCHANGED <<pc, chan, next>>
  BY <1>2 DEF Grow
<1>3. CASE Pull
  BY <1>3 DEF Pull, StartPull, PullRow, RequestHeight, EnterLoop, Fetch, FetchBehind,
              AddBlock, SaveTrans, BlockSaved, Again, RefreshHeight
<1>4. CASE Statistics
  BY <1>4 DEF Statistics, StartStatistics, QueryLatest, SaveDay
<1>5. CASE Delete
  BY <1>5 DEF Delete, StartDelete, DeleteByChannelId, RemoveBlocks, RemoveTrans
<1>6. CASE EndTask \/ Settle
  BY <1>6 DEF EndTask, Settle
<1>7. CASE Fault
  BY <1>7 DEF Fault, Unanswered, PullFails, StatisticsFails, DeleteFails, Crash,
              AsksFront, Uncut
<1> QED BY <1>1, <1>2, <1>3, <1>4, <1>5, <1>6, <1>7 DEF Next

LEMMA BlockSavedWholeNext ==
  ASSUME Uncut, IInv, LInv, NoDeletion, BlockSavedWhole, [Next]_vars
  PROVE  BlockSavedWhole'
<1>1. \A c \in Channels : trans[c] \subseteq trans'[c]
  <2>1. CASE SaveTrans
    BY <2>1, SaveTransAdds DEF LInv
  <2> QED BY <2>1, Writers DEF RemoveTrans, NoDeletion
<1>2. \A c \in Channels : \A b \in Nat : Complete(c, b) => Complete(c, b)'
  BY <1>1 DEF Complete, Stored
<1>3. ASSUME pc = "save", rest = <<>> PROVE Complete(chan, next)
  <2>1. chan \in Channels /\ next \in Nat /\ next < Len(Ledger[chan])
    BY <1>3 DEF IInv, TypeOK, PullRowPc, LInv, InHand
  <2>2. /\ Block(chan, next) \in Seq(Envelope)
        /\ DOMAIN Ledger[chan][next + 1] = 1..Len(Block(chan, next))
    BY <2>1, BlockType
  <2>3. Done = Len(Block(chan, next))
    BY <1>3, <2>2 DEF Done
  <2> QED BY <1>3, <2>2, <2>3 DEF LInv, SavedSoFar, Complete, Block
<1> SUFFICES ASSUME NEW c \in Channels, NEW b \in blocks'[c]
             PROVE  Complete(c, b)' \/ (pc' = "save" /\ chan' = c /\ next' = b)
  BY DEF BlockSavedWhole
<1>4. CASE b \in blocks[c]
  <2>1. b \in Nat
    BY <1>4 DEF IInv, TypeOK
  <2>2. CASE pc = "save" /\ chan = c /\ next = b
    BY <1>2, <1>3, <2>1, <2>2, LeftWhenSaved
  <2> QED BY <1>2, <1>4, <2>1, <2>2 DEF BlockSavedWhole
<1>5. CASE b \notin blocks[c]
  <2>1. CASE AddBlock
    <3>1. c = chan /\ b = next
      BY <1>5, <2>1, AddBlockAdds DEF IInv, TypeOK
    <3>2. pc' = "save" /\ UNCHANGED <<chan, next>>
      BY <2>1 DEF AddBlock, locals
    <3> QED BY <3>1, <3>2
  <2>2. CASE RemoveBlocks
    BY <2>2 DEF RemoveBlocks, NoDeletion
  <2> QED BY <1>5, <2>1, <2>2, Writers
<1> QED BY <1>4, <1>5

\* Without deletion, what the annotation says holds as long as neither a crash
\* nor a failing statement interrupts a pull: failing fronts do no harm.
THEOREM WholeUnlessCut ==
  ASSUME Uncut, ~ IsDeleteInfo
  PROVE  Spec => []BlockSavedWhole
<1>1. Init => NoDeletion /\ BlockSavedWhole
  BY DEF Init, NoDeletion, BlockSavedWhole
<1>2. /\ IInv /\ LInv /\ NoDeletion /\ BlockSavedWhole /\ [Next]_vars
      => NoDeletion' /\ BlockSavedWhole'
  BY NoDeletionNext, BlockSavedWholeNext
<1> QED BY <1>1, <1>2, Invariance, LInvariance, PTL DEF Spec

=============================================================================
