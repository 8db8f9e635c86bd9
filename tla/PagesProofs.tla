---------------------------- MODULE PagesProofs ----------------------------
(***************************************************************************)
(* Proofs about Pages, for any page size, any fronts and whatever the      *)
(* tasks do meanwhile, on top of the invariants of the tasks.              *)
(*                                                                         *)
(* The argument about the lists is about the rank of a row, the number of  *)
(* rows newer than it.  The tasks add above all rows and delete below all  *)
(* that stay (Evolves), so the rank of a row that stays never falls; a row *)
(* that was too far up for the next page has therefore been on an earlier. *)
(***************************************************************************)
EXTENDS Pages, StatisticsProofs, WellFoundedInduction

\* Visitors and registrations leave the tasks alone.
LEMMA PagesLeaveTasks == Visit \/ Register => UNCHANGED vars
BY DEF Visit, Register, OpenList, CountRows, TurnPage, QueryList, OpenPeers, AskPeer,
       WritePeer, SkipPeer, Leave, Report, SavePeer, CommitPeer, RollBack

LEMMA PagesStep == [PagesNext]_<<vars, view>> => [Next]_vars
BY PagesLeaveTasks DEF PagesNext

\* The tasks behave as Scheduler says, whatever pages are opened meanwhile: all of
\* its theorems hold here.
THEOREM TasksUndisturbed == PagesSpec => Spec
<1>1. PagesInit => Init
  BY DEF PagesInit
<1> QED BY <1>1, PagesStep, PTL DEF PagesSpec, Spec

LEMMA TasksInvariant == PagesSpec => [](IInv /\ SInv)
BY TasksUndisturbed, Invariance, StatisticsInvariance, PTL

-----------------------------------------------------------------------------
(* The rows of the peers.                                                  *)

\* What the page has in hand of a peer is the address of its last registration,
\* unless that is not recorded.
HeldAddresses ==
  /\ peers \in [Fronts -> PeerRow \union {NoPeer}]
  /\ saved \in [Fronts -> Addresses \union {NoPeer}]
  /\ held \in [Fronts -> Addresses \union {NoPeer}]
  /\ vpc = "write" => /\ at \in Fronts /\ held[at] # NoPeer
                      /\ asked \in Nat \union {NoHeight}
                      /\ peers[at] # NoPeer
  /\ rpc # "idle" => rfront \in Fronts /\ raddr \in Addresses /\ rheight \in Nat
  /\ \A f \in Fronts : saved[f] # NoPeer /\ held[f] # NoPeer => held[f] = saved[f]
  /\ \A f \in Fronts : held[f] # NoPeer => peers[f] # NoPeer

PeersInv == HeldAddresses /\ AddressLostOnlyByOverlap

LEMMA PeersNext ==
  ASSUME TypeOK, PeersInv, [PagesNext]_<<vars, view>>
  PROVE  PeersInv'
<1> USE DEF PeersInv, HeldAddresses, AddressLostOnlyByOverlap, sync, reg, rows
<1>1. CASE UNCHANGED <<vpc, sync, reg, rows>>
  BY <1>1
<1>2. ASSUME NEW c \in Channels, OpenPeers(c) PROVE PeersInv'
  <2>1. /\ UNCHANGED <<peers, saved, rpc, rfront, raddr, rheight>>
        /\ vpc' = "sync"
        /\ held' = [f \in Fronts |->
                      IF f \in FrontsOf(c) /\ peers[f] # NoPeer THEN peers[f].addr ELSE NoPeer]
    BY <1>2 DEF OpenPeers
  <2>2. \A f \in Fronts : peers[f] # NoPeer => peers[f].addr \in Addresses
    BY DEF PeerRow
  <2>3. held' \in [Fronts -> Addresses \union {NoPeer}]
    BY <2>1, <2>2
  <2>4. \A f \in Fronts : held'[f] # NoPeer => peers[f] # NoPeer /\ held'[f] = peers[f].addr
    BY <2>1
  <2> QED BY <2>1, <2>3, <2>4
<1>3. ASSUME NEW f \in Fronts, AskPeer(f) PROVE PeersInv'
  BY <1>3 DEF AskPeer, TypeOK
<1>4. CASE WritePeer
  <2> DEFINE row == [height |-> IF asked = NoHeight THEN peers[at].height ELSE asked,
                     addr |-> held[at]]
  <2>1. /\ at \in Fronts /\ held[at] \in Addresses /\ held[at] # NoPeer
        /\ UNCHANGED <<saved, rpc, rfront, raddr, rheight>>
        /\ vpc' = "sync"
        /\ held' = [held EXCEPT ![at] = NoPeer]
        /\ peers' = [peers EXCEPT ![at] = row]
    BY <1>4 DEF WritePeer
  <2>2. row \in PeerRow /\ row.addr = held[at] /\ row # NoPeer
    BY <1>4, <2>1, PagesAssumption DEF WritePeer, PeerRow
  <2> HIDE DEF row
  <2> QED BY <2>1, <2>2
<1>5. CASE SkipPeer
  BY <1>5 DEF SkipPeer
<1>6. CASE Leave
  BY <1>6 DEF Leave
<1>7. ASSUME NEW f \in Fronts, NEW a \in Addresses, Report(f, a) PROVE PeersInv'
  BY <1>7 DEF Report, TypeOK
<1>8. CASE SavePeer
  BY <1>8 DEF SavePeer
<1>9. CASE CommitPeer
  <2>1. /\ rfront \in Fronts /\ raddr \in Addresses
        /\ UNCHANGED <<vpc, held, at, asked>>
        /\ rpc' = "idle"
        /\ peers' = [peers EXCEPT ![rfront] = SavedRow(peers[rfront])]
        /\ saved' = [saved EXCEPT ![rfront] =
                       IF held[rfront] = NoPeer THEN raddr ELSE NoPeer]
    BY <1>9 DEF CommitPeer, EndRegistration
  <2>2. /\ SavedRow(peers[rfront]) \in PeerRow
        /\ SavedRow(peers[rfront]).addr = raddr
        /\ SavedRow(peers[rfront]) # NoPeer
    BY <1>9, <2>1, PagesAssumption DEF CommitPeer, SavedRow, PeerRow
  <2> QED BY <2>1, <2>2
<1>10. CASE RollBack
  BY <1>10 DEF RollBack, EndRegistration
<1>11. CASE (\E l \in {"block", "trans"}, c \in Channels : OpenList(l, c))
            \/ TurnPage \/ QueryList
  <2>1. UNCHANGED <<sync, reg, rows>> /\ vpc' # "write"
    BY <1>11 DEF OpenList, CountRows, TurnPage, QueryList
  <2> QED BY <2>1
<1> QED
  BY <1>1, <1>2, <1>3, <1>4, <1>5, <1>6, <1>7, <1>8, <1>9, <1>10, <1>11
     DEF PagesNext, Visit, Register, view

\* Whatever registrations and pages there are, only a page that held the old row
\* makes a peer's row lose the address that was registered last.
THEOREM AddressKept == PagesSpec => []AddressLostOnlyByOverlap
<1>1. PagesInit => PeersInv
  BY DEF PagesInit, PeersInv, HeldAddresses, AddressLostOnlyByOverlap
<1>2. TypeOK /\ PeersInv /\ [PagesNext]_<<vars, view>> => PeersInv'
  BY PeersNext
<1>3. IInv => TypeOK
  BY DEF IInv
<1> QED BY <1>1, <1>2, <1>3, TasksInvariant, PTL DEF PagesSpec, PeersInv

-----------------------------------------------------------------------------
(* Sets of numbers.                                                        *)

\* A set of numbers has a smallest.
LEMMA SmallestOf ==
  ASSUME NEW S, S \subseteq Nat, S # {}
  PROVE  \E x \in S : \A y \in S : x <= y
<1> DEFINE R == { p \in Nat \X Nat : p[1] < p[2] }
<1>1. \A x, y \in Nat : x < y => <<x, y>> \in R
  OBVIOUS
<1>2. IsWellFoundedOn(R, Nat)
  BY NatLessThanWellFounded DEF OpToRel
<1> HIDE DEF R
<1>3. PICK x \in S : \A y \in S : ~ (<<y, x>> \in R)
  BY <1>2, WFMin
<1>4. \A y \in S : x \in Nat /\ y \in Nat /\ ~ (y < x)
  BY <1>1, <1>3
<1>5. \A y \in S : x <= y
  BY <1>4
<1> QED BY <1>5

\* What a step of the tasks does to the numbers of a table: nothing, or it adds
\* one above all, or it leaves an upper part that keeps the newest.
Evolves(R, S) ==
  \/ S = R
  \/ \E n \in Nat : S = R \union {n} /\ \A r \in R : r < n
  \/ /\ S \subseteq R
     /\ \A s \in S : \A r \in R : s < r => r \in S
     /\ \A r \in R : \E s \in S : r <= s

LEMMA EvolvedType ==
  ASSUME NEW R, R \subseteq Nat, IsFiniteSet(R), NEW S, Evolves(R, S)
  PROVE  S \subseteq Nat /\ IsFiniteSet(S)
<1>1. CASE S = R
  BY <1>1
<1>2. ASSUME NEW n \in Nat, S = R \union {n} PROVE S \subseteq Nat /\ IsFiniteSet(S)
  BY <1>2, FS_AddElement
<1>3. CASE S \subseteq R
  <2>1. S \in SUBSET R
    BY <1>3
  <2> QED BY <2>1, FS_Subset
<1> QED BY <1>1, <1>2, <1>3 DEF Evolves

LEMMA RankType ==
  ASSUME NEW R, IsFiniteSet(R), NEW k
  PROVE  Rank(k, R) \in Nat
<1>1. { m \in R : m > k } \in SUBSET R
  OBVIOUS
<1> QED BY <1>1, FS_Subset, FS_CardinalityType DEF Rank

\* The rank of a row that stays never falls.
LEMMA RankRises ==
  ASSUME NEW R, NEW S, R \subseteq Nat, IsFiniteSet(S), Evolves(R, S),
         NEW k \in R \intersect S
  PROVE  Rank(k, R) <= Rank(k, S)
<1>1. { m \in R : m > k } \subseteq { m \in S : m > k }
  BY DEF Evolves
<1>2. IsFiniteSet({ m \in S : m > k })
  <2>1. { m \in S : m > k } \in SUBSET S
    OBVIOUS
  <2> QED BY <2>1, FS_Subset
<1> QED BY <1>1, <1>2, FS_Subset DEF Rank

\* The newer of two rows has the lower rank.
LEMMA RankOrder ==
  ASSUME NEW R, R \subseteq Nat, IsFiniteSet(R), NEW k \in R, NEW m \in R, m < k
  PROVE  Rank(k, R) < Rank(m, R)
<1> DEFINE K == { x \in R : x > k }
           M == { x \in R : x > m }
<1>0. k \in Nat /\ m \in Nat /\ \A x \in R : x \in Nat
  OBVIOUS
<1>1. K \subseteq M /\ k \in M /\ k \notin K /\ M \in SUBSET R
  <2>1. \A x \in R : x > k => x > m
    BY <1>0
  <2>2. k > m /\ ~ (k > k)
    BY <1>0
  <2> QED BY <2>1, <2>2
<1> HIDE DEF K, M
<1>2. IsFiniteSet(M)
  BY <1>1, FS_Subset
<1>3. /\ IsFiniteSet(K) /\ Cardinality(K) <= Cardinality(M)
      /\ Cardinality(K) # Cardinality(M)
  <2>1. K \in SUBSET M /\ K # M
    BY <1>1
  <2> QED BY <1>2, <2>1, FS_Subset
<1>4. Cardinality(K) \in Nat /\ Cardinality(M) \in Nat
  BY <1>2, <1>3, FS_CardinalityType
<1>5. Cardinality(K) < Cardinality(M)
  BY <1>4, <1>3
<1> QED BY <1>5 DEF Rank, K, M

\* At most Cardinality(R) - n rows of R have n newer ones.
LEMMA FewOfHighRank ==
  ASSUME NEW R, R \subseteq Nat, IsFiniteSet(R), NEW n \in Nat,
         NEW Z, Z \subseteq R, \A k \in Z : Rank(k, R) >= n
  PROVE  Z = {} \/ Cardinality(Z) + n <= Cardinality(R)
<1> SUFFICES ASSUME Z # {} PROVE Cardinality(Z) + n <= Cardinality(R)
  OBVIOUS
<1> DEFINE ranks == { Rank(k, R) : k \in Z }
<1>1. ranks \subseteq Nat /\ ranks # {}
  BY RankType
<1>2. PICK x \in ranks : \A y \in ranks : x <= y
  BY <1>1, SmallestOf
<1>3. PICK z \in Z : \A k \in Z : Rank(z, R) <= Rank(k, R)
  BY <1>2
<1> DEFINE U == { m \in R : m > z }
<1>4. U \intersect Z = {}
  <2> SUFFICES ASSUME NEW m \in U, m \in Z PROVE FALSE
    OBVIOUS
  <2>1. Rank(m, R) < Rank(z, R)
    BY RankOrder
  <2> QED BY <1>3, <2>1, RankType
<1>5. U \in SUBSET R /\ Cardinality(U) >= n
  BY DEF Rank
<1> HIDE DEF U
<1>6. IsFiniteSet(U) /\ IsFiniteSet(Z) /\ IsFiniteSet(U \union Z) /\ U \union Z \in SUBSET R
  BY <1>5, FS_Subset
<1>7. Cardinality(U \union Z) = Cardinality(U) + Cardinality(Z)
  <2>1. Cardinality(U \intersect Z) = 0
    BY <1>4, FS_EmptySet
  <2>2. Cardinality(U \union Z) = Cardinality(U) + Cardinality(Z) - Cardinality(U \intersect Z)
    BY <1>6, FS_Union
  <2>3. Cardinality(U) \in Nat /\ Cardinality(Z) \in Nat
    BY <1>6, FS_CardinalityType
  <2> QED BY <2>1, <2>2, <2>3
<1>8. Cardinality(U \union Z) <= Cardinality(R)
  BY <1>6, FS_Subset
<1>9. /\ Cardinality(U) \in Nat /\ Cardinality(Z) \in Nat /\ Cardinality(R) \in Nat
      /\ Cardinality(U \union Z) \in Nat
  BY <1>6, FS_CardinalityType
<1> QED BY <1>5, <1>7, <1>8, <1>9

-----------------------------------------------------------------------------
(* What the tasks do to the numbers of a table.                            *)

LEMMA BlocksEvolve ==
  ASSUME IInv, [Next]_vars, NEW c \in Channels
  PROVE  Evolves(blocks[c], blocks'[c])
<1>1. CASE UNCHANGED blocks
  BY <1>1 DEF Evolves
<1>2. CASE AddBlock
  <2>1. /\ chan \in Channels /\ next \in Nat
        /\ blocks[chan] = {} \/ next = NumberAfter(blocks[chan])
        /\ blocks' = [blocks EXCEPT ![chan] = @ \union {next}]
        /\ IsWindow(blocks[chan])
    BY <1>2, AddBlockAdds DEF IInv, Windows
  <2>2. \A b \in blocks[chan] : b < next
    BY <2>1, MaxOfWindow DEF NumberAfter
  <2>3. blocks'[c] = blocks[c] \/ (c = chan /\ blocks'[c] = blocks[c] \union {next})
    BY <2>1 DEF IInv, TypeOK
  <2> QED BY <2>1, <2>2, <2>3 DEF Evolves
<1>3. CASE RemoveBlocks
  <2>1. /\ chan \in Channels
        /\ blocks' = [blocks EXCEPT ![chan] = @ \ RemovableBlocks(@, BlockRetainMax)]
    BY <1>3 DEF IInv, TypeOK, PullRowPc, RemoveBlocks
  <2> DEFINE left == blocks[chan] \ RemovableBlocks(blocks[chan], BlockRetainMax)
  <2>2. blocks'[c] = blocks[c] \/ (c = chan /\ blocks'[c] = left)
    BY <2>1 DEF IInv, TypeOK
  <2>3. CASE left # blocks[chan]
    <3>1. blocks[chan] # {} /\ IsWindow(blocks[chan]) /\ BlockRetainMax \in Nat \ {0}
      BY <2>1, <2>3, ScheduleAssumption DEF IInv, Windows
    <3>2. /\ Max(blocks[chan]) \in left
          /\ left # blocks[chan] => \E low \in left : left = { n \in blocks[chan] : n >= low }
      <4> DEFINE Facts(S, rest0) ==
            /\ Max(S) \in rest0
            /\ rest0 # S => \E low \in rest0 : /\ rest0 = { n \in S : n >= low }
                                             /\ low + BlockRetainMax <= Max(S) + 1
      <4>1. Facts(blocks[chan], left)
        BY <3>1, RemoveFromWindow
      <4> HIDE DEF left
      <4> QED BY <4>1
    <3> HIDE DEF left
    <3>3. PICK low \in left : left = { n \in blocks[chan] : n >= low }
      BY <2>3, <3>2
    <3>4. \A n \in blocks[chan] : n \in Nat /\ n <= Max(blocks[chan])
      BY <3>1, MaxOfWindow
    <3>5. \A s \in left : \A r \in blocks[chan] : s < r => r \in left
      <4> TAKE s \in left
      <4> TAKE r \in blocks[chan]
      <4> HAVE s < r
      <4>1. s \in Nat /\ r \in Nat /\ low \in Nat /\ s >= low
        BY <3>3, <3>4
      <4>2. r >= low
        BY <4>1
      <4> QED BY <3>3, <4>2
    <3> QED BY <2>2, <3>2, <3>3, <3>4, <3>5 DEF Evolves
  <2>4. CASE left = blocks[chan]
    BY <2>2, <2>4 DEF Evolves
  <2> QED BY <2>3, <2>4
<1> QED BY <1>1, <1>2, <1>3, Writers

LEMMA TransEvolve ==
  ASSUME IInv, SInv, [Next]_vars, NEW c \in Channels
  PROVE  Evolves(Numbers(trans[c]), Numbers(trans'[c]))
<1>1. CASE trans'[c] = trans[c]
  BY <1>1 DEF Evolves
<1>2. CASE SaveTrans /\ trans'[c] # trans[c]
  <2> DEFINE row == [num |-> auto[chan], id |-> Head(rest).id, block |-> next,
                     day |-> Head(rest).day]
  <2>1. chan \in Channels /\ auto[chan] \in Nat
    BY <1>2 DEF SaveTrans, IInv, TypeOK, PullRowPc
  <2>2. trans' = [trans EXCEPT ![chan] = InsertTrans(@, row)]
    BY <1>2 DEF SaveTrans
  <2>3. row.num = auto[chan]
    OBVIOUS
  <2> HIDE DEF row
  <2>4. c = chan /\ trans'[c] = trans[c] \union {row}
    BY <1>2, <2>1, <2>2 DEF IInv, TypeOK, InsertTrans
  <2>5. Numbers(trans'[c]) = Numbers(trans[c]) \union {auto[chan]}
    BY <2>3, <2>4 DEF Numbers
  <2>6. \A n \in Numbers(trans[c]) : n < auto[chan]
    BY <2>1, <2>4 DEF Numbers, IInv, TransInOrder
  <2> QED BY <2>1, <2>5, <2>6 DEF Evolves
<1>3. CASE RemoveTrans /\ trans'[c] # trans[c]
  <2>1. trans'[c] \subseteq trans[c] /\ trans[c] # {}
    BY <1>3, OldestRemoved
  <2>2. PICK u \in trans'[c] : \A t \in trans[c] : t.num <= u.num
    BY <1>3, <2>1, OldestRemoved
  <2>3. \A t \in trans[c] : t.num \in Nat
    BY DEF IInv, TypeOK, TransRow
  <2>4. Numbers(trans'[c]) \subseteq Numbers(trans[c])
    BY <2>1 DEF Numbers
  <2>5. \A r \in Numbers(trans[c]) : \E s \in Numbers(trans'[c]) : r <= s
    BY <2>2 DEF Numbers
  <2>6. \A s \in Numbers(trans'[c]) : \A r \in Numbers(trans[c]) :
          s < r => r \in Numbers(trans'[c])
    <3>1. ASSUME NEW v \in trans'[c], NEW t \in trans[c], v.num < t.num
          PROVE  t \in trans'[c]
      <4>1. v.num \in Nat /\ t.num \in Nat /\ ~ (t.num < v.num)
        BY <2>1, <2>3, <3>1
      <4> QED BY <1>3, <4>1, OldestRemoved
    <3> QED BY <3>1 DEF Numbers
  <2> QED BY <2>4, <2>5, <2>6 DEF Evolves
<1> QED BY <1>1, <1>2, <1>3, Writers

\* The numbers of a list are natural numbers, and finitely many.
LEMMA RowsType ==
  ASSUME IInv, SInv, NEW l \in {"block", "trans"}, NEW c \in Channels
  PROVE  Rows(l, c) \subseteq Nat /\ IsFiniteSet(Rows(l, c))
<1>1. CASE l = "block"
  <2>1. IsWindow(blocks[c]) /\ blocks[c] \subseteq Nat
    BY DEF IInv, Windows, TypeOK
  <2>2. IsFiniteSet(blocks[c])
    <3>1. CASE blocks[c] = {}
      BY <3>1, FS_EmptySet
    <3>2. CASE blocks[c] # {}
      <4>1. PICK lo \in Nat, hi \in Nat : blocks[c] = lo..hi
        BY <2>1, <3>2 DEF IsWindow
      <4> QED BY <4>1, FS_Interval
    <3> QED BY <3>1, <3>2
  <2> QED BY <1>1, <2>1, <2>2 DEF Rows
<1>2. CASE l = "trans"
  <2>1. Numbers(trans[c]) \in SUBSET Nat
    BY DEF IInv, TypeOK, TransRow, Numbers
  <2>2. auto[c] \in Nat /\ \A n \in Numbers(trans[c]) : n <= auto[c]
    <3>1. auto[c] \in Nat /\ \A t \in trans[c] : t.num < auto[c]
      BY DEF IInv, TypeOK, TransInOrder
    <3>2. \A n \in Numbers(trans[c]) : n < auto[c]
      BY <3>1 DEF Numbers
    <3> QED BY <2>1, <3>1, <3>2
  <2>3. IsFiniteSet(Numbers(trans[c]))
    BY <2>1, <2>2, FS_BoundedSetOfNaturals
  <2> QED BY <1>2, <2>1, <2>3 DEF Rows
<1> QED BY <1>1, <1>2

\* The same after a step.
NextRows(l, c) == IF l = "block" THEN blocks'[c] ELSE Numbers(trans'[c])

LEMMA RowsEvolve ==
  ASSUME IInv, SInv, [Next]_vars, NEW l \in {"block", "trans"}, NEW c \in Channels
  PROVE  Evolves(Rows(l, c), NextRows(l, c))
<1>1. CASE l = "block"
  BY <1>1, BlocksEvolve DEF Rows, NextRows
<1>2. CASE l = "trans"
  BY <1>2, TransEvolve DEF Rows, NextRows
<1> QED BY <1>1, <1>2

-----------------------------------------------------------------------------
(* The lists.                                                              *)

GapFree(N) == \A lo, hi \in N : lo..hi \subseteq N

\* The difference of the largest and the smallest number is one less than the
\* number of rows, and more only by the numbers missing in between.
LEMMA TransCountShort ==
  ASSUME IInv, SInv, NEW c \in Channels, trans[c] # {}
  PROVE  LET N == Numbers(trans[c])
             total == TransCountByMinMax(trans[c])
         IN /\ total \in Nat /\ Cardinality(N) \in Nat
            /\ Cardinality(N) <= total + 1
            /\ GapFree(N) => Cardinality(N) = total + 1
<1> DEFINE N == Numbers(trans[c])
           total == TransCountByMinMax(trans[c])
<1>1. N \subseteq Nat /\ N # {} /\ IsFiniteSet(N)
  BY RowsType DEF Rows, Numbers
<1>2. PICK hi \in N : \A n \in N : hi >= n
  <2>1. PICK u \in trans[c] : \A t \in trans[c] : t.num <= u.num
    BY DEF SInv, NumberedRows
  <2>2. u.num \in N /\ \A n \in N : n <= u.num
    BY <2>1 DEF Numbers
  <2> QED BY <1>1, <2>2
<1>3. PICK lo \in N : \A n \in N : lo <= n
  BY <1>1, SmallestOf
<1>4. total = Max(N) - Min(N)
  BY DEF TransCountByMinMax
<1> HIDE DEF N, total
<1>5. Max(N) = hi
  <2>1. \A m \in N : (\A n \in N : m >= n) => m = hi
    BY <1>1, <1>2
  <2> QED BY <1>2, <2>1 DEF Max
<1>6. Min(N) = lo
  <2>1. \A m \in N : (\A n \in N : m <= n) => m = lo
    BY <1>1, <1>3
  <2> QED BY <1>3, <2>1 DEF Min
<1>7. lo \in Nat /\ hi \in Nat /\ lo <= hi /\ N \in SUBSET (lo..hi)
  BY <1>1, <1>2, <1>3
<1>8. IsFiniteSet(lo..hi) /\ Cardinality(lo..hi) = (hi - lo) + 1
  BY <1>7, FS_Interval
<1>9. Cardinality(N) <= Cardinality(lo..hi) /\ Cardinality(N) \in Nat
  BY <1>1, <1>7, <1>8, FS_Subset, FS_CardinalityType
<1>10. GapFree(N) => N = lo..hi
  BY <1>2, <1>3, <1>7 DEF GapFree
<1>11. total \in Nat /\ total + 1 = (hi - lo) + 1
  BY <1>4, <1>5, <1>6, <1>7
<1> QED BY <1>8, <1>9, <1>10, <1>11 DEF N, total

\* trans_number identifies a row.
LEMMA RowPerNumber ==
  ASSUME IInv, SInv, NEW c \in Channels
  PROVE  Cardinality(trans[c]) = Cardinality(Numbers(trans[c]))
<1> DEFINE row == [n \in Numbers(trans[c]) |-> CHOOSE t \in trans[c] : t.num = n]
<1>1. \A n \in Numbers(trans[c]) : row[n] \in trans[c] /\ row[n].num = n
  BY DEF Numbers
<1>2. \A t \in trans[c] : t.num \in Numbers(trans[c]) /\ row[t.num] = t
  <2>1. \A t \in trans[c] : t.num \in Numbers(trans[c])
    BY DEF Numbers
  <2>2. \A t, u \in trans[c] : t.num = u.num => t = u
    BY DEF SInv, NumberedRows
  <2> HIDE DEF row
  <2> QED BY <1>1, <2>1, <2>2
<1>3. row \in [Numbers(trans[c]) -> trans[c]]
  BY <1>1
<1> HIDE DEF row
<1>4. row \in Bijection(Numbers(trans[c]), trans[c])
  BY <1>1, <1>2, <1>3 DEF Bijection, Injection, Surjection, IsInjective
<1>5. IsFiniteSet(Numbers(trans[c]))
  BY RowsType DEF Rows
<1>6. ExistsBijection(Numbers(trans[c]), trans[c])
  BY <1>4 DEF ExistsBijection
<1> QED BY <1>5, <1>6, FS_Bijection

\* How far queryCountOfTranByMinus is off: it never counts more than one row too
\* few, and exactly one too few whenever no number is missing; numbers used up by
\* ignored inserts make it count too many.
THEOREM TransCountOneShort ==
  Spec => [](\A c \in Channels : trans[c] # {} =>
               LET total == TransCountByMinMax(trans[c])
               IN /\ Cardinality(trans[c]) <= total + 1
                  /\ GapFree(Numbers(trans[c])) => Cardinality(trans[c]) = total + 1)
<1>1. IInv /\ SInv =>
        \A c \in Channels : trans[c] # {} =>
          LET total == TransCountByMinMax(trans[c])
          IN /\ Cardinality(trans[c]) <= total + 1
             /\ GapFree(Numbers(trans[c])) => Cardinality(trans[c]) = total + 1
  BY TransCountShort, RowPerNumber
<1> QED BY <1>1, Invariance, StatisticsInvariance, PTL

\* The count by minus of a list is short by one at most, if it is of transactions.
Short(l) == IF l = "trans" THEN 1 ELSE 0

LEMMA CountByMinusCounts ==
  ASSUME IInv, SInv, NEW l \in {"block", "trans"}, NEW c \in Channels
  PROVE  /\ CountByMinus(l, c) \in Nat
         /\ Cardinality(Rows(l, c)) \in Nat
         /\ Cardinality(Rows(l, c)) <= CountByMinus(l, c) + Short(l)
<1>1. CASE Rows(l, c) = {}
  BY <1>1, FS_EmptySet DEF CountByMinus, Short
<1>2. CASE l = "block" /\ blocks[c] # {}
  <2>1. PICK lo \in Nat, hi \in Nat : lo <= hi /\ blocks[c] = lo..hi
    BY <1>2 DEF IInv, Windows, IsWindow
  <2>2. Max(blocks[c]) = hi /\ Min(blocks[c]) = lo
    BY <2>1, EndsOfWindow
  <2>3. Cardinality(blocks[c]) = (hi - lo) + 1
    BY <2>1, FS_Interval
  <2>4. CountByMinus(l, c) = (hi + 1) - lo /\ Rows(l, c) = blocks[c]
    BY <1>2, <2>2 DEF CountByMinus, BlockCountByMinMax, Rows
  <2> QED BY <1>2, <2>1, <2>3, <2>4 DEF Short
<1>3. CASE l = "trans" /\ Numbers(trans[c]) # {}
  <2>1. trans[c] # {} /\ Rows(l, c) = Numbers(trans[c])
    BY <1>3 DEF Numbers, Rows
  <2>2. CountByMinus(l, c) = TransCountByMinMax(trans[c])
    BY <1>3, <2>1 DEF CountByMinus
  <2> QED BY <1>3, <2>1, <2>2, TransCountShort DEF Short
<1> QED BY <1>1, <1>2, <1>3 DEF Rows

Walking == {"list", "turn", "done"}

\* How many rows of the list are on the pages that are done with.
Turned == IF vpc = "list" THEN (page - 1) * PageSize ELSE page * PageSize

LEMMA TurnedType == page \in Nat \ {0} => Turned \in Nat
<1> SUFFICES ASSUME NEW p \in Nat, NEW q \in Nat PROVE p * q \in Nat
  BY PagesAssumption DEF Turned
<1> QED OBVIOUS

\* Of the numbers at the start, those that stay and rank among the rows turned are
\* seen; and none can come again, because newer rows are numbered above them.
WalkInv ==
  vpc \in Walking =>
    /\ vlist \in {"block", "trans"} /\ vchan \in Channels
    /\ page \in Nat \ {0}
    /\ \A k \in start : \E r \in Rows(vlist, vchan) : k <= r
    /\ start \subseteq Nat /\ seen \subseteq Nat
    /\ vpc # "done" => \A k \in start \intersect Rows(vlist, vchan) :
                         Rank(k, Rows(vlist, vchan)) < Turned => k \in seen
    /\ SeenWithoutGap

\* Rows that evolve keep it.
LEMMA WalkOn ==
  ASSUME IInv, SInv, WalkInv, [Next]_vars, UNCHANGED <<vpc, list>>
  PROVE  WalkInv'
<1> SUFFICES ASSUME vpc \in Walking PROVE WalkInv'
  BY DEF WalkInv
<1>1. /\ vlist \in {"block", "trans"} /\ vchan \in Channels
      /\ page \in Nat \ {0}
      /\ start \subseteq Nat /\ seen \subseteq Nat
      /\ UNCHANGED <<vpc, vlist, vchan, page, start, seen>>
  BY DEF WalkInv, list
<1> PICK l \in {"block", "trans"} : l = vlist
  BY <1>1
<1> PICK c \in Channels : c = vchan
  BY <1>1
<1> DEFINE R == Rows(l, c)
           S == NextRows(l, c)
<1>2. Rows(vlist, vchan) = R /\ Rows(vlist, vchan)' = S
  BY <1>1 DEF Rows, NextRows
<1>3. R \subseteq Nat /\ IsFiniteSet(R)
  BY RowsType
<1>4. Evolves(R, S)
  BY RowsEvolve
<1>5. /\ \A k \in start : \E r \in R : k <= r
      /\ vpc # "done" => \A k \in start \intersect R : Rank(k, R) < Turned => k \in seen
      /\ \A k \in start \intersect R : \A m \in seen : m < k => k \in seen
  BY <1>2 DEF WalkInv, SeenWithoutGap, Walking
<1> HIDE DEF R, S
<1>6. S \subseteq Nat /\ IsFiniteSet(S)
  BY <1>3, <1>4, EvolvedType
<1>7. \A k \in start : \E s \in S : k <= s
  <2> TAKE k \in start
  <2>1. PICK r \in R : k <= r
    BY <1>5
  <2>2. PICK s \in S : r <= s
    BY <1>3, <1>4 DEF Evolves
  <2>3. k \in Nat /\ r \in Nat /\ s \in Nat
    BY <1>1, <1>3, <1>6
  <2> QED BY <2>1, <2>2, <2>3
<1>8. \A k \in start : k \in S => k \in R
  <2> SUFFICES ASSUME NEW k \in start, NEW n \in Nat, \A r \in R : r < n PROVE k # n
    BY <1>4 DEF Evolves
  <2>1. PICK r \in R : k <= r
    BY <1>5
  <2>2. k \in Nat /\ r \in Nat /\ r < n
    BY <1>1, <1>3
  <2> QED BY <2>1, <2>2
<1>9. ASSUME NEW k \in start \intersect S, Rank(k, S) < Turned, vpc # "done"
      PROVE  k \in seen
  <2>1. Rank(k, R) <= Rank(k, S)
    BY <1>3, <1>4, <1>6, <1>8, RankRises
  <2>2. Rank(k, R) \in Nat /\ Rank(k, S) \in Nat
    BY <1>3, <1>6, RankType
  <2>3. Turned \in Nat
    BY <1>1, PagesAssumption, TurnedType
  <2> QED BY <1>5, <1>8, <1>9, <2>1, <2>2, <2>3
<1>10. Turned' = Turned
  BY <1>1 DEF Turned
<1>11. SeenWithoutGap'
  BY <1>1, <1>2, <1>5, <1>8 DEF SeenWithoutGap
<1> QED BY <1>1, <1>2, <1>7, <1>9, <1>10, <1>11 DEF WalkInv

LEMMA WalkOpen ==
  ASSUME IInv, SInv, NEW l \in {"block", "trans"}, NEW c \in Channels, OpenList(l, c)
  PROVE  WalkInv'
<1>1. /\ vlist' = l /\ vchan' = c /\ page' = 1
      /\ start' = Rows(l, c) /\ seen' = {}
      /\ UNCHANGED <<blocks, trans>>
  BY DEF OpenList, CountRows, vars, tables
<1>2. Rows(vlist, vchan)' = Rows(l, c)
  BY <1>1 DEF Rows
<1>3. Rows(l, c) \subseteq Nat /\ IsFiniteSet(Rows(l, c))
  BY RowsType
<1>4. \A k \in start' : \E r \in Rows(vlist, vchan)' : k <= r
  BY <1>1, <1>2, <1>3
<1>5. vpc' # "done" => Turned' = 0
  <2>1. vpc' \in {"list", "done"}
    BY DEF OpenList, CountRows
  <2> QED BY <1>1, <2>1, PagesAssumption DEF Turned
<1>6. \A k \in Rows(l, c) : Rank(k, Rows(l, c)) \in Nat
  BY <1>3, RankType
<1>7. SeenWithoutGap'
  BY <1>1 DEF SeenWithoutGap
<1> QED BY <1>1, <1>2, <1>3, <1>4, <1>5, <1>6, <1>7 DEF WalkInv

LEMMA WalkTurn ==
  ASSUME WalkInv, TurnPage
  PROVE  WalkInv'
<1>1. /\ vpc = "turn" /\ vpc' \in {"list", "done"}
      /\ page' = page + 1
      /\ UNCHANGED <<vlist, vchan, start, seen, blocks, trans>>
  BY DEF TurnPage, CountRows, vars, tables
<1>2. Rows(vlist, vchan)' = Rows(vlist, vchan)
  BY <1>1 DEF Rows
<1>3. page \in Nat \ {0}
  BY <1>1 DEF WalkInv, Walking
<1>4. vpc' # "done" => Turned' = Turned
  <2>1. (page + 1) - 1 = page
    BY <1>3
  <2> QED BY <1>1, <2>1 DEF Turned
<1> QED
  BY <1>1, <1>2, <1>3, <1>4 DEF WalkInv, Walking, SeenWithoutGap

\* A page is read: whoever is newer than a row on it is on it, or ranks among the
\* rows turned and was seen.
LEMMA WalkRead ==
  ASSUME IInv, SInv, WalkInv, QueryList
  PROVE  /\ WalkInv'
         /\ \A k \in start \intersect Rows(vlist, vchan) :
              Rank(k, Rows(vlist, vchan)) < page * PageSize => k \in seen'
<1>1. /\ vpc = "list" /\ vpc' \in {"turn", "done"}
      /\ seen' = seen \union PageOf(Rows(vlist, vchan), page)
      /\ UNCHANGED <<vlist, vchan, page, start, blocks, trans>>
  BY DEF QueryList, vars, tables
<1>2. Rows(vlist, vchan)' = Rows(vlist, vchan)
  BY <1>1 DEF Rows
<1>3. /\ vlist \in {"block", "trans"} /\ vchan \in Channels
      /\ page \in Nat \ {0} /\ start \subseteq Nat /\ seen \subseteq Nat
      /\ SeenWithoutGap
  BY <1>1 DEF WalkInv, Walking
<1> DEFINE R == Rows(vlist, vchan)
<1>4. R \subseteq Nat /\ IsFiniteSet(R)
  BY <1>3, RowsType
<1>5. \A k \in start \intersect R : Rank(k, R) < (page - 1) * PageSize => k \in seen
  BY <1>1 DEF WalkInv, Walking, Turned
<1>6. (page - 1) * PageSize \in Nat /\ page * PageSize \in Nat
  <2>1. page - 1 \in Nat /\ page \in Nat /\ PageSize \in Nat
    BY <1>3, PagesAssumption
  <2>2. \A p, q \in Nat : p * q \in Nat
    OBVIOUS
  <2> QED BY <2>1, <2>2
<1>7. \A k \in PageOf(R, page) : k \in R /\ (page - 1) * PageSize <= Rank(k, R)
                                 /\ Rank(k, R) < page * PageSize
  BY DEF PageOf
<1>8. \A k \in R : Rank(k, R) < page * PageSize =>
        Rank(k, R) < (page - 1) * PageSize \/ k \in PageOf(R, page)
  BY <1>4, <1>6, RankType DEF PageOf
<1>9. \A k \in start \intersect R : \A m \in seen : m < k => k \in seen
  BY <1>1, <1>3 DEF SeenWithoutGap
<1> HIDE DEF R
<1>10. \A k \in start \intersect R : Rank(k, R) < page * PageSize => k \in seen'
  BY <1>1, <1>5, <1>8 DEF R
<1>11. \A k \in start \intersect R : \A m \in seen' : m < k => k \in seen'
  <2> SUFFICES ASSUME NEW k \in start \intersect R, NEW m \in PageOf(R, page), m < k
               PROVE  k \in seen'
    BY <1>1, <1>9 DEF R
  <2>1. Rank(k, R) < Rank(m, R) /\ Rank(m, R) < page * PageSize
    BY <1>4, <1>7, RankOrder
  <2>2. Rank(k, R) \in Nat /\ Rank(m, R) \in Nat
    BY <1>4, RankType
  <2>3. Rank(k, R) < page * PageSize
    BY <1>6, <2>1, <2>2
  <2> QED BY <1>10, <2>3
<1>12. seen' \subseteq Nat
  BY <1>1, <1>3, <1>4, <1>7 DEF R
<1>13. SeenWithoutGap'
  BY <1>1, <1>2, <1>11 DEF SeenWithoutGap, R
<1>14. vpc' # "done" => Turned' = page * PageSize
  BY <1>1 DEF Turned
<1>15. \A k \in start : \E r \in R : k <= r
  BY <1>1 DEF WalkInv, Walking, R
<1>16. WalkInv'
  BY <1>1, <1>2, <1>3, <1>10, <1>12, <1>13, <1>14, <1>15 DEF WalkInv, R
<1> QED BY <1>10, <1>16 DEF R

\* All other steps.
LEMMA WalkElse ==
  ASSUME [PagesNext]_<<vars, view>>
  PROVE  \/ UNCHANGED <<vpc, list>>
         \/ \E l \in {"block", "trans"}, c \in Channels : OpenList(l, c)
         \/ TurnPage
         \/ QueryList
         \/ vpc' \notin Walking
BY DEF PagesNext, Visit, Register, view, OpenPeers, AskPeer, WritePeer, SkipPeer, Leave,
       Report, SavePeer, CommitPeer, RollBack, Walking

LEMMA WalkNext ==
  ASSUME IInv, SInv, WalkInv, [PagesNext]_<<vars, view>>
  PROVE  WalkInv'
<1>1. CASE UNCHANGED <<vpc, list>>
  BY <1>1, PagesStep, WalkOn
<1>2. CASE vpc' \notin Walking
  BY <1>2 DEF WalkInv
<1> QED BY <1>1, <1>2, WalkOpen, WalkTurn, WalkRead, WalkElse

\* Whatever is pulled or deleted between two pages, the visitor passes over nothing.
THEOREM NoGapSeen == PagesSpec => []SeenWithoutGap
<1>1. PagesInit => WalkInv
  BY DEF PagesInit, WalkInv, Walking
<1>2. IInv /\ SInv /\ WalkInv /\ [PagesNext]_<<vars, view>> => WalkInv'
  BY WalkNext
<1>3. WalkInv => SeenWithoutGap
  BY DEF WalkInv, Walking, SeenWithoutGap
<1> QED BY <1>1, <1>2, <1>3, TasksInvariant, PTL DEF PagesSpec

-----------------------------------------------------------------------------
(* The end of a list.                                                      *)

\* What the total of a page says of the rows there when it was counted.
TotalInv ==
  vpc \in Walking =>
    /\ count \in Nat
    /\ asOf \subseteq Nat /\ IsFiniteSet(asOf)
    /\ vpc = "list" => Cardinality(asOf) <= count + Short(vlist)
    /\ MissedOnlyByGrowth

\* No more are added to a set than the difference shows.
LEMMA Growth ==
  ASSUME NEW R, IsFiniteSet(R), NEW A, IsFiniteSet(A)
  PROVE  /\ Cardinality(R) \in Nat /\ Cardinality(A) \in Nat /\ Cardinality(R \ A) \in Nat
         /\ Cardinality(R) <= Cardinality(A) + Cardinality(R \ A)
<1>1. IsFiniteSet(R \ A) /\ IsFiniteSet(R \intersect A)
  <2>1. R \ A \in SUBSET R /\ R \intersect A \in SUBSET R
    OBVIOUS
  <2> QED BY <2>1, FS_Subset
<1>2. Cardinality(R \intersect A) <= Cardinality(A)
  <2>1. R \intersect A \in SUBSET A
    OBVIOUS
  <2> QED BY <2>1, FS_Subset
<1>3. Cardinality((R \ A) \union (R \intersect A)) =
        Cardinality(R \ A) + Cardinality(R \intersect A)
        - Cardinality((R \ A) \intersect (R \intersect A))
  BY <1>1, FS_Union
<1>4. /\ (R \ A) \union (R \intersect A) = R
      /\ (R \ A) \intersect (R \intersect A) = {}
  OBVIOUS
<1>5. Cardinality((R \ A) \intersect (R \intersect A)) = 0
  BY <1>4, FS_EmptySet
<1>6. /\ Cardinality(R) \in Nat /\ Cardinality(A) \in Nat /\ Cardinality(R \ A) \in Nat
      /\ Cardinality(R \intersect A) \in Nat
  BY <1>1, FS_CardinalityType
<1>7. Cardinality(R) = Cardinality(R \ A) + Cardinality(R \intersect A)
  BY <1>3, <1>4, <1>5, <1>6
<1> QED BY <1>2, <1>6, <1>7

LEMMA TotalCount ==
  ASSUME IInv, SInv, NEW l \in {"block", "trans"}, NEW c \in Channels, NEW p,
         CountRows(l, c, p)
  PROVE  TotalInv'
<1>1. /\ vlist' = l /\ count' = CountByMinus(l, c)
      /\ asOf' = Rows(l, c) /\ shown' = Rows(l, c)
      /\ vpc' = IF count' > 0 THEN "list" ELSE "done"
  BY DEF CountRows
<1>2. Rows(l, c) \subseteq Nat /\ IsFiniteSet(Rows(l, c))
  BY RowsType
<1>3. count' \in Nat /\ Cardinality(asOf') \in Nat /\ Cardinality(asOf') <= count' + Short(l)
  BY <1>1, CountByMinusCounts
<1>4. ASSUME vpc' = "done"
      PROVE  Cardinality((start' \intersect shown') \ seen')
               <= Cardinality(shown' \ asOf') + Short(l)
  <2>1. count' = 0
    BY <1>1, <1>3, <1>4
  <2>2. (start' \intersect shown') \ seen' \in SUBSET asOf' /\ shown' \ asOf' = {}
    BY <1>1
  <2>3. Cardinality((start' \intersect shown') \ seen') <= Cardinality(asOf')
    BY <1>1, <1>2, <2>2, FS_Subset
  <2>4. Cardinality((start' \intersect shown') \ seen') \in Nat
    BY <1>1, <1>2, <2>2, FS_Subset, FS_CardinalityType
  <2>5. Cardinality(shown' \ asOf') = 0
    BY <2>2, FS_EmptySet
  <2>6. Short(l) \in Nat
    BY DEF Short
  <2> QED BY <1>3, <2>1, <2>3, <2>4, <2>5, <2>6
<1>5. MissedOnlyByGrowth'
  BY <1>1, <1>4 DEF MissedOnlyByGrowth, Short
<1> QED BY <1>1, <1>2, <1>3, <1>5 DEF TotalInv

\* The last page: what is not seen has page * PageSize newer ones.
LEMMA TotalRead ==
  ASSUME IInv, SInv, WalkInv, TotalInv, QueryList
  PROVE  TotalInv'
<1> DEFINE R == Rows(vlist, vchan)
           unseen == (start \intersect R) \ seen'
           n == page * PageSize
<1>1. /\ vpc = "list" /\ vpc' = IF n >= count THEN "done" ELSE "turn"
      /\ shown' = R
      /\ UNCHANGED <<vlist, vchan, page, count, start, asOf>>
  BY DEF QueryList
<1>2. /\ vlist \in {"block", "trans"} /\ vchan \in Channels
      /\ page \in Nat \ {0}
  BY <1>1 DEF WalkInv, Walking
<1>3. /\ count \in Nat /\ asOf \subseteq Nat /\ IsFiniteSet(asOf)
      /\ Cardinality(asOf) <= count + Short(vlist)
  BY <1>1 DEF TotalInv, Walking
<1>4. R \subseteq Nat /\ IsFiniteSet(R)
  BY <1>2, RowsType
<1>5. n \in Nat
  <2>1. \A p, q \in Nat : p * q \in Nat
    OBVIOUS
  <2> QED BY <1>2, <2>1, PagesAssumption
<1>6. \A k \in start \intersect R : Rank(k, R) < n => k \in seen'
  BY WalkRead
<1> HIDE DEF R, n
<1>7. unseen \subseteq R /\ \A k \in unseen : Rank(k, R) >= n
  <2>1. \A k \in R : Rank(k, R) \in Nat
    BY <1>4, RankType
  <2> QED BY <1>5, <1>6, <2>1
<1>8. unseen = {} \/ Cardinality(unseen) + n <= Cardinality(R)
  BY <1>4, <1>5, <1>7, FewOfHighRank
<1> HIDE DEF unseen
<1>9. /\ Cardinality(R) \in Nat /\ Cardinality(asOf) \in Nat /\ Cardinality(R \ asOf) \in Nat
      /\ Cardinality(R) <= Cardinality(asOf) + Cardinality(R \ asOf)
  BY <1>3, <1>4, Growth
<1>10. Cardinality(unseen) \in Nat
  <2>1. unseen \in SUBSET R
    BY <1>7
  <2> QED BY <1>4, <2>1, FS_Subset, FS_CardinalityType
<1>11. Short(vlist) \in Nat
  BY DEF Short
<1>12. ASSUME n >= count PROVE Cardinality(unseen) <= Cardinality(R \ asOf) + Short(vlist)
  <2>1. CASE unseen = {}
    BY <2>1, <1>9, <1>11, FS_EmptySet
  <2>2. CASE Cardinality(unseen) + n <= Cardinality(R)
    BY <2>2, <1>3, <1>5, <1>9, <1>10, <1>11, <1>12
  <2> QED BY <1>8, <2>1, <2>2
<1>13. MissedOnlyByGrowth'
  BY <1>1, <1>12 DEF MissedOnlyByGrowth, Short, unseen
<1> QED BY <1>1, <1>3, <1>13 DEF TotalInv

LEMMA TotalNext ==
  ASSUME IInv, SInv, WalkInv, TotalInv, [PagesNext]_<<vars, view>>
  PROVE  TotalInv'
<1>1. CASE UNCHANGED <<vpc, list>>
  BY <1>1 DEF TotalInv, MissedOnlyByGrowth, list
<1>2. CASE vpc' \notin Walking
  BY <1>2 DEF TotalInv
<1>3. ASSUME NEW l \in {"block", "trans"}, NEW c \in Channels, OpenList(l, c)
      PROVE  TotalInv'
  BY <1>3, TotalCount DEF OpenList
<1>4. CASE TurnPage
  <2>1. vlist \in {"block", "trans"} /\ vchan \in Channels /\ CountRows(vlist, vchan, page + 1)
    BY <1>4 DEF TurnPage, WalkInv, Walking
  <2> QED BY <2>1, TotalCount
<1> QED BY <1>1, <1>2, <1>3, <1>4, TotalRead, WalkElse

\* When the total is reached, no more is missing than was added since it was
\* counted, and one more of transactions.
THEOREM MissesOnlyGrowth == PagesSpec => []MissedOnlyByGrowth
<1>1. PagesInit => WalkInv /\ TotalInv
  BY DEF PagesInit, WalkInv, TotalInv, Walking
<1>2. IInv /\ SInv /\ WalkInv /\ TotalInv /\ [PagesNext]_<<vars, view>> => WalkInv' /\ TotalInv'
  BY WalkNext, TotalNext
<1>3. TotalInv => MissedOnlyByGrowth
  BY DEF TotalInv, Walking, MissedOnlyByGrowth
<1> QED BY <1>1, <1>2, <1>3, TasksInvariant, PTL DEF PagesSpec

-----------------------------------------------------------------------------
(* The chart.                                                              *)

LEMMA WeekOfDates ==
  ASSUME NEW today \in Int
  PROVE  DateList(today, COUNT_DATE_OF_WEEK, -1) = (today - 6)..today
<1>1. \A d \in (today - 6)..today : today - d \in 0..6 /\ d = today + (today - d) * (-1)
  OBVIOUS
<1>2. \A i \in 0..6 : today + i * (-1) \in (today - 6)..today
  OBVIOUS
<1> QED BY <1>1, <1>2 DEF DateList, COUNT_DATE_OF_WEEK

\* Whatever is stored, and although the dates of the database and of the server may
\* differ by a day, the chart shows each of the last seven days once and truly.
THEOREM ChartShowsWeek == PagesSpec => []ChartTrue
<1>1. ChartTrue
  <2> SUFFICES ASSUME NEW c \in Channels, NEW today \in Dates,
                      NEW curdate \in (today - 1)..(today + 1)
               PROVE  { x \in ListSevenDayOfTrans(daily[c], curdate, today) :
                          x[1] \in (today - 6)..today }
                        = { <<d, IF d \in Days THEN Cardinality(daily[c][d]) ELSE 0>> :
                              d \in (today - 6)..today }
    BY DEF ChartTrue
  <2> DEFINE week == (today - 6)..today
             found == ListSevenDayOfTransDaily(daily[c], curdate)
             rest0 == { <<d, 0>> : d \in { e \in week : \A x \in found : x[1] # e } }
             On(d) == IF d \in Days THEN Cardinality(daily[c][d]) ELSE 0
  <2>1. today \in Int /\ curdate \in Int /\ curdate <= today + 1
    BY PagesAssumption
  <2>2. ListSevenDayOfTrans(daily[c], curdate, today) = found \union rest0
    BY <2>1, WeekOfDates DEF ListSevenDayOfTrans
  <2>3. \A x \in found : x[1] \in Days /\ daily[c][x[1]] # {} /\ x = <<x[1], On(x[1])>>
    BY DEF ListSevenDayOfTransDaily
  <2>4. \A d \in week : d \in Days /\ daily[c][d] # {} => <<d, On(d)>> \in found
    <3>1. \A d \in week : d >= curdate - 7
      BY <2>1
    <3> QED BY <3>1 DEF ListSevenDayOfTransDaily
  <2>5. \A d \in week : ~ (d \in Days /\ daily[c][d] # {}) => On(d) = 0
    BY FS_EmptySet
  <2> HIDE DEF found, On
  <2>6. \A d \in week : (\A x \in found : x[1] # d) => On(d) = 0
    <3>1. \A d \in week : <<d, On(d)>>[1] = d
      OBVIOUS
    <3> QED BY <2>4, <2>5, <3>1
  <2>7. \A x \in found \union rest0 : x[1] \in week => x = <<x[1], On(x[1])>>
    BY <2>3, <2>6
  <2>8. \A d \in week : <<d, On(d)>> \in found \union rest0
    <3> SUFFICES ASSUME NEW d \in week, <<d, On(d)>> \notin found
                 PROVE  <<d, On(d)>> \in rest0
      OBVIOUS
    <3>1. \A x \in found : x[1] # d
      BY <2>3
    <3> QED BY <2>6, <3>1
  <2>9. { x \in found \union rest0 : x[1] \in week } = { <<d, On(d)>> : d \in week }
    <3>1. \A d \in week : <<d, On(d)>>[1] = d
      OBVIOUS
    <3> QED BY <2>7, <2>8, <3>1
  <2> QED BY <2>2, <2>9 DEF On
<1> QED BY <1>1, PTL

=============================================================================
