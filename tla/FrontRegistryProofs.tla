------------------------ MODULE FrontRegistryProofs ------------------------
(***************************************************************************)
(* Proofs about FrontRegistry, for any requests, readers, fronts and       *)
(* faults.                                                                 *)
(*                                                                         *)
(* The invariant says that a channel is usable, that is, in tb_channel     *)
(* with its two tables, before any row can name it: whatever a request has *)
(* found, holds pending or has committed names usable channels only.       *)
(* Channels and tables are never removed, so a usable channel stays so.    *)
(***************************************************************************)
EXTENDS FrontRegistry, TLAPS

Usable(c) ==
  /\ \E row \in channels : row.id = c
  /\ \A kind \in Kinds : <<c, kind>> \in tables

\* The rows that name a channel name a usable one.
RowsUsable ==
  /\ \A m \in maps : Usable(m.channel)
  /\ \A p \in peers : Usable(p.channel)

\* The same for what a request has found and holds pending.
NamesUsable(r) ==
  /\ known[r] # 0 => Usable(known[r])
  /\ \A m \in pend[r].maps : Usable(m.channel)
  /\ \A p \in pend[r].peers : Usable(p.channel)

\* How far a request has come with the channel it registers.
Prepared(r) ==
  /\ pc[r] = "commitDDL" => \E row \in pend[r].channels : row.id = channelId[r]
  /\ pc[r] \in {"block", "trans"} => \E row \in channels : row.id = channelId[r]
  /\ pc[r] = "trans" => <<channelId[r], "block">> \in tables
  /\ pc[r] \in {"map", "peers", "clear", "commit"} => Usable(channelId[r])

IInv ==
  /\ TypeOK
  /\ RowsUsable
  /\ \A r \in Requests : NamesUsable(r) /\ Prepared(r)

-----------------------------------------------------------------------------
(* Type correctness.                                                       *)

LEMMA InitType == Init => TypeOK
<1> SUFFICES ASSUME Init PROVE TypeOK
  OBVIOUS
<1>1. raced \in BOOLEAN
  BY DEF Init
<1>2. pend \in [Requests -> Pending]
  BY DEF Init, Nothing, Pending
<1> QED
  BY <1>1, <1>2 DEF Init, TypeOK, NewPc

\* The steps of newFront up to CREATE TABLE.
LEMMA NewFrontType ==
  ASSUME TypeOK, NEW r \in Requests,
         \/ \E a \in Addrs : NewFront(r, a)
         \/ InsertFront(r) \/ InsertIgnored(r) \/ KnownChannel(r) \/ AddChannel(r)
  PROVE  TypeOK'
<1> USE DEF TypeOK, NewPc, RemovePc, Goto, committed, ids, reading, history
<1>1. ASSUME NEW a \in Addrs, NewFront(r, a) PROVE TypeOK'
  <2>1. PICK c \in QueryChannelId(a) : known' = [known EXCEPT ![r] = c]
    BY <1>1 DEF NewFront
  <2>2. c \in Nat
    BY <2>1 DEF QueryChannelId, PeerRow
  <2>3. together' \in SUBSET (Requests \X Requests)
    BY <1>1 DEF NewFront
  <2> QED BY <1>1, <2>1, <2>2, <2>3, FrontsReportAssumption DEF NewFront
<1>2. CASE InsertFront(r)
  <2>1. addr[r] \in Addrs
    BY <1>2 DEF InsertFront
  <2> DEFINE row == [id |-> nextFront, addr |-> addr[r]]
  <2>2. row \in FrontRow
    BY <2>1 DEF FrontRow
  <2>3. pend' = [pend EXCEPT ![r].fronts = {row}]
    BY <1>2 DEF InsertFront
  <2>4. pend' \in [Requests -> Pending]
    <3> HIDE DEF row
    <3> QED BY <2>2, <2>3 DEF Pending
  <2> QED BY <1>2, <2>4 DEF InsertFront
<1>3. CASE InsertIgnored(r)
  BY <1>3, RegistryAssumption DEF InsertIgnored
<1>4. CASE KnownChannel(r)
  BY <1>4 DEF KnownChannel
<1>5. CASE AddChannel(r)
  <2>1. addr[r] \in Addrs
    BY <1>5 DEF AddChannel
  <2>2. NameOf[addr[r]] \in Names
    BY <2>1, FrontsReportAssumption
  <2> DEFINE row == [id |-> nextChannel, name |-> NameOf[addr[r]], by |-> r]
  <2>3. row \in ChannelRow
    BY <2>2 DEF ChannelRow
  <2>4. pend' = [pend EXCEPT ![r].channels = {row}]
    BY <1>5 DEF AddChannel
  <2>5. pend' \in [Requests -> Pending]
    <3> HIDE DEF row
    <3> QED BY <2>3, <2>4 DEF Pending
  <2> QED BY <1>5, <2>5 DEF AddChannel
<1> QED BY <1>1, <1>2, <1>3, <1>4, <1>5

\* The steps of newFront from CREATE TABLE on.
LEMMA SaveType ==
  ASSUME TypeOK, NEW r \in Requests,
         \/ ImplicitCommit(r) \/ \E kind \in Kinds : CreateTable(r, kind)
         \/ SaveMap(r) \/ SavePeers(r) \/ ClearMapList(r) \/ Commit(r)
  PROVE  TypeOK'
<1> USE DEF TypeOK, NewPc, RemovePc, Goto, committed, ids, locals, reading, history
<1>0. Nothing \in Pending
  BY DEF Nothing, Pending
<1>1. CASE ImplicitCommit(r)
  BY <1>0, <1>1 DEF ImplicitCommit, CommitRows, Pending
<1>2. ASSUME NEW kind \in Kinds, CreateTable(r, kind) PROVE TypeOK'
  BY <1>2 DEF CreateTable, Kinds
<1>3. CASE SaveMap(r)
  <2> DEFINE row == [front |-> frontId[r], channel |-> channelId[r]]
  <2>1. row \in MapRow
    BY DEF MapRow
  <2>2. pend' \in [Requests -> Pending] /\ misled' \in SUBSET MapRow
    BY <1>3, <2>1 DEF SaveMap, Pending
  <2> QED BY <1>3, <2>2 DEF SaveMap
<1>4. CASE SavePeers(r)
  <2>1. addr[r] \in Addrs
    BY <1>4 DEF SavePeers
  <2>2. PeersOf[addr[r]] \in SUBSET Peers
    BY <2>1, FrontsReportAssumption
  <2>3. { [channel |-> channelId[r], peer |-> p] : p \in PeersOf[addr[r]] }
          \in SUBSET PeerRow
    BY <2>2 DEF PeerRow
  <2>4. pend' \in [Requests -> Pending]
    BY <1>4, <2>3 DEF SavePeers, Pending
  <2> QED BY <1>4, <2>4 DEF SavePeers
<1>5. CASE ClearMapList(r)
  BY <1>5 DEF ClearMapList
<1>6. CASE Commit(r)
  <2>1. raced' \in BOOLEAN
    BY <1>6 DEF Commit
  <2> QED BY <1>0, <1>6, <2>1 DEF Commit, CommitRows, Finish, Pending
<1> QED BY <1>1, <1>2, <1>3, <1>4, <1>5, <1>6

\* removeFront, failures and the end of the process.
LEMMA RemoveFailType ==
  ASSUME TypeOK, (\E r \in Requests : Removal(r) \/ Fail(r)) \/ Crash
  PROVE  TypeOK'
<1> USE DEF TypeOK, NewPc, RemovePc, Goto, committed, ids, locals, reading, history
<1>0. Nothing \in Pending
  BY DEF Nothing, Pending
<1>1. ASSUME NEW r \in Requests, NEW id \in { f.id : f \in fronts }, RemoveFront(r, id)
      PROVE  TypeOK'
  <2>1. id \in Nat
    BY <1>1 DEF FrontRow
  <2> QED BY <1>1, <2>1 DEF RemoveFront
<1>2. ASSUME NEW r \in Requests, DeleteFront(r) PROVE TypeOK'
  <2>1. strays' \in SUBSET Nat
    BY <1>2 DEF DeleteFront
  <2> QED BY <1>2, <2>1 DEF DeleteFront
<1>3. ASSUME NEW r \in Requests, DeleteMap(r) PROVE TypeOK'
  <2>1. raced' \in BOOLEAN
    BY <1>3 DEF DeleteMap
  <2> QED BY <1>3, <2>1 DEF DeleteMap
<1>4. ASSUME NEW r \in Requests, ClearAfterRemove(r) PROVE TypeOK'
  <2>1. raced' \in BOOLEAN
    BY <1>4 DEF ClearAfterRemove
  <2> QED BY <1>0, <1>4, <2>1 DEF ClearAfterRemove, Finish
<1>5. ASSUME NEW r \in Requests, Fail(r) PROVE TypeOK'
  <2>1. strays' \in SUBSET Nat
    BY <1>5 DEF Fail
  <2> QED BY <1>0, <1>5, <2>1 DEF Fail, Finish
<1>6. CASE Crash
  <2>1. raced' \in BOOLEAN
    BY <1>6 DEF Crash
  <2> DEFINE cut == { frontId[r] : r \in { q \in Requests : pc[q] = "rmMap" } }
  <2>2. cut \in SUBSET Nat
    OBVIOUS
  <2>3. strays' = strays \union cut
    BY <1>6 DEF Crash
  <2> HIDE DEF cut
  <2>4. strays' \in SUBSET Nat
    BY <2>2, <2>3
  <2> QED BY <1>0, <1>6, <2>1, <2>4 DEF Crash, Running
<1> QED BY <1>1, <1>2, <1>3, <1>4, <1>5, <1>6 DEF Removal

LEMMA ReadingType ==
  ASSUME TypeOK, NEW d \in Readers, Reading(d)
  PROVE  TypeOK'
<1> USE DEF TypeOK, Step, Quiet, committed, ids, locals, history
<1>1. CASE Look(d)        BY <1>1 DEF Look
<1>2. CASE Size(d)        BY <1>2 DEF Size
<1>3. CASE Query(d)       BY <1>3 DEF Query
<1>4. CASE Assign(d)      BY <1>4 DEF Assign
<1>5. CASE Reread(d)      BY <1>5 DEF Reread
<1>6. CASE AssignAgain(d) BY <1>6 DEF AssignAgain
<1>7. CASE Return(d)      BY <1>7 DEF Return
<1>8. CASE PageQuery(d)   BY <1>8 DEF PageQuery
<1>9. CASE PageAssign(d)  BY <1>9 DEF PageAssign
<1> QED
  BY <1>1, <1>2, <1>3, <1>4, <1>5, <1>6, <1>7, <1>8, <1>9 DEF Reading

LEMMA TypeNext == TypeOK /\ [Next]_vars => TypeOK'
<1> SUFFICES ASSUME TypeOK, [Next]_vars PROVE TypeOK'
  OBVIOUS
<1>1. CASE UNCHANGED vars
  BY <1>1 DEF vars, TypeOK
<1>2. ASSUME NEW r \in Requests, Registration(r) PROVE TypeOK'
  BY <1>2, NewFrontType, SaveType DEF Registration
<1> QED
  BY <1>1, <1>2, RemoveFailType, ReadingType DEF Next

-----------------------------------------------------------------------------
(* Channels become usable before they are named.                           *)

\* A usable channel stays usable, and a channel row stays where it is.
LEMMA UsableStays ==
  ASSUME [Next]_vars
  PROVE  /\ channels \subseteq channels' /\ tables \subseteq tables'
         /\ \A c : Usable(c) => Usable(c)'
<1>1. channels \subseteq channels' /\ tables \subseteq tables'
  <2> USE DEF committed
  <2>1. CASE UNCHANGED vars
    BY <2>1 DEF vars
  <2>2. ASSUME NEW r \in Requests, Registration(r)
        PROVE  channels \subseteq channels' /\ tables \subseteq tables'
    BY <2>2 DEF Registration, NewFront, InsertFront, InsertIgnored, KnownChannel,
         AddChannel, ImplicitCommit, CreateTable, SaveMap, SavePeers, ClearMapList,
         Commit, CommitRows
  <2>3. ASSUME NEW r \in Requests, Removal(r) \/ Fail(r)
        PROVE  UNCHANGED <<channels, tables>>
    BY <2>3 DEF Removal, RemoveFront, DeleteFront, DeleteMap, ClearAfterRemove, Fail
  <2>4. ASSUME NEW d \in Readers, Reading(d) PROVE UNCHANGED <<channels, tables>>
    BY <2>4 DEF Reading, Look, Size, Query, Assign, Reread, AssignAgain, Return,
         PageQuery, PageAssign, Quiet
  <2>5. CASE Crash
    BY <2>5 DEF Crash
  <2> QED BY <2>1, <2>2, <2>3, <2>4, <2>5 DEF Next
<1> QED BY <1>1 DEF Usable

LEMMA InitInv == Init => IInv
<1> SUFFICES ASSUME Init PROVE IInv
  OBVIOUS
<1>1. RowsUsable /\ \A r \in Requests : NamesUsable(r) /\ Prepared(r)
  BY DEF Init, RowsUsable, NamesUsable, Prepared, Nothing
<1> QED BY <1>1, InitType DEF IInv

\* A step that leaves request s alone keeps what is said of s.
LEMMA Untouched ==
  ASSUME [Next]_vars, NEW s \in Requests, NamesUsable(s), Prepared(s),
         pc'[s] = pc[s], known'[s] = known[s],
         channelId'[s] = channelId[s], pend'[s] = pend[s]
  PROVE  NamesUsable(s)' /\ Prepared(s)'
<1>1. NamesUsable(s)'
  BY UsableStays DEF NamesUsable
<1>2. Prepared(s)'
  BY UsableStays DEF Prepared
<1> QED BY <1>1, <1>2

\* A step of request r alone: what has to be shown of r for the whole to hold.
Alone(r) ==
  \A s \in Requests : s # r =>
    /\ pc'[s] = pc[s] /\ known'[s] = known[s]
    /\ channelId'[s] = channelId[s] /\ pend'[s] = pend[s]

RowsFrom(r) ==
  /\ \A m \in maps' : m \in maps \/ m \in pend[r].maps
  /\ \A p \in peers' : p \in peers \/ p \in pend[r].peers

LEMMA KeepOthers ==
  ASSUME IInv, [Next]_vars, NEW r \in Requests, Alone(r), RowsFrom(r),
         NamesUsable(r)', Prepared(r)'
  PROVE  RowsUsable' /\ \A s \in Requests : NamesUsable(s)' /\ Prepared(s)'
<1>1. RowsUsable'
  BY UsableStays DEF IInv, RowsUsable, NamesUsable, RowsFrom
<1>2. ASSUME NEW s \in Requests, s # r
      PROVE  NamesUsable(s)' /\ Prepared(s)'
  BY <1>2, Untouched DEF Alone, IInv
<1> QED BY <1>1, <1>2


\* The steps of newFront up to CREATE TABLE.
LEMMA NewFrontStep ==
  ASSUME IInv, [Next]_vars, NEW r \in Requests,
         \/ \E a \in Addrs : NewFront(r, a)
         \/ InsertFront(r) \/ InsertIgnored(r) \/ KnownChannel(r) \/ AddChannel(r)
  PROVE  Alone(r) /\ RowsFrom(r) /\ NamesUsable(r)' /\ Prepared(r)'
<1> USE DEF Goto, committed, ids, reading, history
<1>0. /\ pc \in [Requests -> {"idle", "done"} \union NewPc \union RemovePc]
      /\ known \in [Requests -> Nat] /\ frontId \in [Requests -> Nat]
      /\ channelId \in [Requests -> Nat] /\ pend \in [Requests -> Pending]
      /\ RowsUsable /\ NamesUsable(r) /\ Prepared(r)
  BY DEF IInv, TypeOK
<1>1. ASSUME NEW a \in Addrs, NewFront(r, a)
      PROVE  Alone(r) /\ RowsFrom(r) /\ NamesUsable(r)' /\ Prepared(r)'
  <2>1. PICK c \in QueryChannelId(a) : known' = [known EXCEPT ![r] = c]
    BY <1>1 DEF NewFront
  <2>2. c # 0 => Usable(c)
    BY <1>0, <2>1 DEF QueryChannelId, RowsUsable
  <2>3. c # 0 => Usable(c)'
    BY <2>2, UsableStays
  <2>4. known'[r] = c /\ pend'[r] = pend[r] /\ pc'[r] = "insert"
    BY <1>0, <1>1, <2>1 DEF NewFront
  <2>5. NamesUsable(r)'
    BY <1>0, <2>3, <2>4, UsableStays DEF NamesUsable
  <2>6. Alone(r) /\ RowsFrom(r) /\ Prepared(r)'
    BY <1>0, <1>1, <2>1, <2>4 DEF NewFront, Alone, RowsFrom, Prepared
  <2> QED BY <2>5, <2>6
<1>2. CASE InsertFront(r)
  <2>1. /\ pend'[r].maps = pend[r].maps /\ pend'[r].peers = pend[r].peers
        /\ pc'[r] = "channel" /\ known'[r] = known[r]
    BY <1>0, <1>2 DEF InsertFront, Pending
  <2>2. NamesUsable(r)'
    BY <1>0, <2>1, UsableStays DEF NamesUsable
  <2> QED BY <1>0, <1>2, <2>1, <2>2 DEF InsertFront, Alone, RowsFrom, Prepared
<1>3. CASE InsertIgnored(r)
  <2>1. pc'[r] = "channel" /\ UNCHANGED <<known, pend>>
    BY <1>0, <1>3 DEF InsertIgnored
  <2>2. NamesUsable(r)'
    BY <1>0, <2>1, UsableStays DEF NamesUsable
  <2> QED BY <1>0, <1>3, <2>1, <2>2 DEF InsertIgnored, Alone, RowsFrom, Prepared
<1>4. CASE KnownChannel(r)
  <2>1. pc'[r] = "map" /\ channelId'[r] = known[r] /\ UNCHANGED <<known, pend>>
    BY <1>0, <1>4 DEF KnownChannel
  <2>2. NamesUsable(r)'
    BY <1>0, <2>1, UsableStays DEF NamesUsable
  <2>3. Usable(known[r])'
    BY <1>0, <1>4, UsableStays DEF NamesUsable, KnownChannel
  <2> QED BY <1>0, <1>4, <2>1, <2>2, <2>3 DEF KnownChannel, Alone, RowsFrom, Prepared
<1>5. CASE AddChannel(r)
  <2> DEFINE row == [id |-> nextChannel, name |-> NameOf[addr[r]], by |-> r]
  <2>1. /\ pend'[r].maps = pend[r].maps /\ pend'[r].peers = pend[r].peers
        /\ pend'[r].channels = {row} /\ channelId'[r] = nextChannel
        /\ pc'[r] = "commitDDL" /\ known'[r] = known[r]
    BY <1>0, <1>5 DEF AddChannel, Pending
  <2>2. NamesUsable(r)'
    BY <1>0, <2>1, UsableStays DEF NamesUsable
  <2>3. Alone(r) /\ RowsFrom(r)
    BY <1>0, <1>5 DEF AddChannel, Alone, RowsFrom
  <2>4. \E x \in pend'[r].channels : x.id = channelId'[r]
    BY <2>1
  <2>5. Prepared(r)'
    BY <2>1, <2>4 DEF Prepared
  <2> QED BY <2>2, <2>3, <2>5
<1> QED BY <1>1, <1>2, <1>3, <1>4, <1>5

\* The steps of newFront from CREATE TABLE on.
LEMMA SaveStep ==
  ASSUME IInv, [Next]_vars, NEW r \in Requests,
         \/ ImplicitCommit(r) \/ \E kind \in Kinds : CreateTable(r, kind)
         \/ SaveMap(r) \/ SavePeers(r) \/ ClearMapList(r) \/ Commit(r)
  PROVE  Alone(r) /\ RowsFrom(r) /\ NamesUsable(r)' /\ Prepared(r)'
<1> USE DEF Goto, committed, ids, locals, reading, history
<1>0. /\ pc \in [Requests -> {"idle", "done"} \union NewPc \union RemovePc]
      /\ known \in [Requests -> Nat] /\ frontId \in [Requests -> Nat]
      /\ channelId \in [Requests -> Nat] /\ pend \in [Requests -> Pending]
      /\ RowsUsable /\ NamesUsable(r) /\ Prepared(r)
  BY DEF IInv, TypeOK
<1>1. CASE ImplicitCommit(r)
  <2>1. pend'[r] = Nothing /\ pc'[r] = "block" /\ UNCHANGED <<known, channelId>>
    BY <1>0, <1>1 DEF ImplicitCommit
  <2>2. NamesUsable(r)'
    BY <1>0, <2>1, UsableStays DEF NamesUsable, Nothing
  <2>3. \E row \in channels' : row.id = channelId[r]
    BY <1>0, <1>1 DEF ImplicitCommit, CommitRows, Prepared
  <2>4. Prepared(r)'
    BY <2>1, <2>3 DEF Prepared
  <2> QED BY <1>0, <1>1, <2>2, <2>4 DEF ImplicitCommit, CommitRows, Alone, RowsFrom
<1>2. ASSUME NEW kind \in Kinds, CreateTable(r, kind)
      PROVE  Alone(r) /\ RowsFrom(r) /\ NamesUsable(r)' /\ Prepared(r)'
  <2>1. /\ UNCHANGED <<known, channelId, pend, channels>>
        /\ pc[r] = kind
        /\ pc'[r] = IF kind = "block" THEN "trans" ELSE "map"
        /\ tables' = tables \union {<<channelId[r], kind>>}
    BY <1>0, <1>2 DEF CreateTable
  <2>2. NamesUsable(r)'
    BY <1>0, <2>1, UsableStays DEF NamesUsable
  <2>3. Prepared(r)'
    BY <1>0, <2>1 DEF Prepared, Usable, Kinds
  <2> QED BY <1>0, <1>2, <2>2, <2>3 DEF CreateTable, Alone, RowsFrom
<1>3. CASE SaveMap(r)
  <2> DEFINE row == [front |-> frontId[r], channel |-> channelId[r]]
  <2>1. /\ UNCHANGED <<known, channelId>>
        /\ pend'[r].maps = {row} /\ pend'[r].peers = pend[r].peers
        /\ pc[r] = "map" /\ pc'[r] = "peers"
    BY <1>0, <1>3 DEF SaveMap, Pending
  <2>2. Usable(channelId[r])'
    BY <1>0, <2>1, UsableStays DEF Prepared
  <2>3. NamesUsable(r)'
    BY <1>0, <2>1, <2>2, UsableStays DEF NamesUsable
  <2>4. Prepared(r)'
    BY <2>1, <2>2 DEF Prepared
  <2> QED BY <1>0, <1>3, <2>3, <2>4 DEF SaveMap, Alone, RowsFrom
<1>4. CASE SavePeers(r)
  <2>1. /\ UNCHANGED <<known, channelId>>
        /\ pend'[r].maps = pend[r].maps
        /\ \A p \in pend'[r].peers : p.channel = channelId[r]
        /\ pc[r] = "peers" /\ pc'[r] = "clear"
    BY <1>0, <1>4 DEF SavePeers, Pending
  <2>2. Usable(channelId[r])'
    BY <1>0, <2>1, UsableStays DEF Prepared
  <2>3. NamesUsable(r)'
    BY <1>0, <2>1, <2>2, UsableStays DEF NamesUsable
  <2>4. Prepared(r)'
    BY <2>1, <2>2 DEF Prepared
  <2> QED BY <1>0, <1>4, <2>3, <2>4 DEF SavePeers, Alone, RowsFrom
<1>5. CASE ClearMapList(r)
  <2>1. /\ UNCHANGED <<known, channelId, pend>>
        /\ pc[r] = "clear" /\ pc'[r] = "commit"
    BY <1>0, <1>5 DEF ClearMapList
  <2>2. Usable(channelId[r])' /\ NamesUsable(r)'
    BY <1>0, <2>1, UsableStays DEF Prepared, NamesUsable
  <2> QED BY <1>0, <1>5, <2>1, <2>2 DEF ClearMapList, Alone, RowsFrom, Prepared
<1>6. CASE Commit(r)
  BY <1>0, <1>6 DEF Commit, CommitRows, Finish, Alone, RowsFrom,
     NamesUsable, Prepared, Nothing
<1> QED BY <1>1, <1>2, <1>3, <1>4, <1>5, <1>6

\* removeFront and failures.
LEMMA RemoveFailStep ==
  ASSUME IInv, [Next]_vars, NEW r \in Requests, Removal(r) \/ Fail(r)
  PROVE  Alone(r) /\ RowsFrom(r) /\ NamesUsable(r)' /\ Prepared(r)'
<1> USE DEF Goto, committed, ids, locals, reading, history
<1>0. /\ pc \in [Requests -> {"idle", "done"} \union NewPc \union RemovePc]
      /\ known \in [Requests -> Nat] /\ frontId \in [Requests -> Nat]
      /\ channelId \in [Requests -> Nat] /\ pend \in [Requests -> Pending]
      /\ RowsUsable /\ NamesUsable(r) /\ Prepared(r)
  BY DEF IInv, TypeOK
<1>1. CASE (\E id \in { f.id : f \in fronts } : RemoveFront(r, id))
            \/ DeleteFront(r) \/ DeleteMap(r)
  <2>1. /\ UNCHANGED <<known, channelId, pend>>
        /\ pc'[r] \in {"rmFront", "rmMap", "rmClear"}
        /\ Alone(r) /\ RowsFrom(r)
    BY <1>0, <1>1 DEF RemoveFront, DeleteFront, DeleteMap, Alone, RowsFrom
  <2>2. NamesUsable(r)'
    BY <1>0, <2>1, UsableStays DEF NamesUsable
  <2> QED BY <2>1, <2>2 DEF Prepared
<1>2. CASE ClearAfterRemove(r) \/ Fail(r)
  BY <1>0, <1>2 DEF ClearAfterRemove, Fail, Finish, Alone, RowsFrom,
     NamesUsable, Prepared, Nothing
<1> QED BY <1>1, <1>2 DEF Removal

LEMMA IInvNext == IInv /\ [Next]_vars => IInv'
<1> SUFFICES ASSUME IInv, [Next]_vars PROVE IInv'
  OBVIOUS
<1>1. TypeOK'
  BY TypeNext DEF IInv
<1>2. ASSUME UNCHANGED vars \/ \E d \in Readers : Reading(d)
      PROVE  RowsUsable' /\ \A s \in Requests : NamesUsable(s)' /\ Prepared(s)'
  <2>1. UNCHANGED <<maps, peers, pc, known, channelId, pend>>
    BY <1>2 DEF vars, Reading, Look, Size, Query, Assign, Reread, AssignAgain,
       Return, PageQuery, PageAssign, Quiet, committed, locals
  <2>2. RowsUsable'
    BY <2>1, UsableStays DEF IInv, RowsUsable
  <2> QED BY <2>1, <2>2, Untouched DEF IInv
<1>3. ASSUME NEW r \in Requests, Registration(r) \/ Removal(r) \/ Fail(r)
      PROVE  RowsUsable' /\ \A s \in Requests : NamesUsable(s)' /\ Prepared(s)'
  <2>1. Alone(r) /\ RowsFrom(r) /\ NamesUsable(r)' /\ Prepared(r)'
    BY <1>3, NewFrontStep, SaveStep, RemoveFailStep DEF Registration
  <2> QED BY <2>1, KeepOthers
<1>4. CASE Crash
  <2>1. UNCHANGED <<maps, peers>>
    BY <1>4 DEF Crash, committed
  <2>2. RowsUsable'
    BY <2>1, UsableStays DEF IInv, RowsUsable
  <2>3. \A s \in Requests : NamesUsable(s)' /\ Prepared(s)'
    BY <1>4 DEF Crash, Running, NewPc, RemovePc, NamesUsable, Prepared, Nothing
  <2> QED BY <1>1, <2>2, <2>3 DEF IInv
<1> QED BY <1>1, <1>2, <1>3, <1>4 DEF Next, IInv

THEOREM Invariance == Spec => []IInv
BY InitInv, IInvNext, PTL DEF Spec

-----------------------------------------------------------------------------
(* The theorems.                                                           *)

\* Every variable of the requests and readers, and every table keeps its type;
\* a request past the insert has an address and a front id.
THEOREM RegistryTypeCorrect == Spec => []TypeOK
BY Invariance, PTL DEF IInv

\* Every channel a map row or a peer names has its row and its tables.
THEOREM MappedChannelsUsable == Spec => []ChannelsUsable
<1>1. IInv => ChannelsUsable
  BY DEF IInv, RowsUsable, Usable, ChannelsUsable
<1> QED BY <1>1, Invariance, PTL

=============================================================================
