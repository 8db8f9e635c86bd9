------------------------- MODULE RegistrationProofs -------------------------
(***************************************************************************)
(* Further proofs about FrontRegistry, on top of FrontRegistryProofs: the  *)
(* cached list, the peers and fronts of map rows, channels registered      *)
(* twice.                                                                  *)
(*                                                                         *)
(* Each of them has an invariant of its own. A cached or held list that is *)
(* not the map means that a removal is about to clear the cache            *)
(* (CacheInv). What is removed from tb_front while a map row that names it *)
(* is stored or pending is about to be removed from the map, or counts as  *)
(* a stray (RowsInv). A request that has a map row pending is the only one *)
(* that knows the front of that id, and commits the front's peers with the *)
(* row (PeersInv). A channel is either settled, its peers known to every   *)
(* later request, or in the hands of the request that added it, or dead    *)
(* for ever (ChannelsInv).                                                 *)
(***************************************************************************)
EXTENDS FrontRegistryProofs

-----------------------------------------------------------------------------
(* What a step of one request does to the others.                          *)

\* Nothing of request s changes.
Same(s) ==
  /\ pc'[s] = pc[s] /\ addr'[s] = addr[s] /\ known'[s] = known[s]
  /\ frontId'[s] = frontId[s] /\ channelId'[s] = channelId[s]
  /\ pend'[s] = pend[s]

\* The requests and the database are left alone.
Aside == UNCHANGED <<committed, ids, pc, locals, together, misled>>

\* A step of one request.
Act(r) == Registration(r) \/ Removal(r) \/ Fail(r)

LEMMA OthersSame ==
  ASSUME TypeOK, NEW r \in Requests, Act(r)
  PROVE  \A s \in Requests : s # r => Same(s)
<1> USE DEF TypeOK, Same, Goto, Finish, locals, committed, ids, reading, history
<1>1. CASE Registration(r)
  BY <1>1 DEF Registration, NewFront, InsertFront, InsertIgnored, KnownChannel,
     AddChannel, ImplicitCommit, CreateTable, SaveMap, SavePeers, ClearMapList, Commit
<1>2. CASE Removal(r) \/ Fail(r)
  BY <1>2 DEF Removal, RemoveFront, DeleteFront, DeleteMap, ClearAfterRemove, Fail
<1> QED BY <1>1, <1>2 DEF Act

\* A step is of one request, of the readers, or the end of the process.
LEMMA StepOfOne ==
  ASSUME [Next]_vars
  PROVE  Aside \/ (\E r \in Requests : Act(r)) \/ Crash
<1> USE DEF locals, committed, ids, history
<1>1. CASE UNCHANGED vars
  BY <1>1 DEF vars, Aside
<1>2. ASSUME NEW d \in Readers, Reading(d) PROVE Aside
  BY <1>2 DEF Aside, Reading, Look, Size, Query, Assign, Reread, AssignAgain,
     Return, PageQuery, PageAssign, Quiet
<1> QED BY <1>1, <1>2 DEF Next, Act

-----------------------------------------------------------------------------
(* Rows of the map that are still to be committed.                         *)

\* A map row is pending from SaveMap to the commit; it is of the request's
\* front and channel.
MapPending ==
  \A r \in Requests :
    /\ pc[r] \notin {"peers", "clear", "commit"} => pend[r].maps = {}
    /\ \A m \in pend[r].maps : m.front = frontId[r] /\ m.channel = channelId[r]

LEMMA MapPendingNext ==
  ASSUME TypeOK, MapPending, [Next]_vars
  PROVE  MapPending'
<1>1. CASE Aside
  BY <1>1 DEF Aside, MapPending, locals
<1>2. ASSUME NEW r \in Requests, Act(r) PROVE MapPending'
  <2> SUFFICES /\ pc'[r] \notin {"peers", "clear", "commit"} => pend'[r].maps = {}
               /\ \A m \in pend'[r].maps : m.front = frontId'[r] /\ m.channel = channelId'[r]
    BY <1>2, OthersSame DEF MapPending, Same
  <2> USE DEF Goto, locals, TypeOK, Pending
  <2>1. CASE SaveMap(r)
    BY <2>1 DEF SaveMap
  <2>2. CASE /\ ~ SaveMap(r)
             /\ \/ pend'[r].maps = {}
                \/ /\ pc[r] \in {"peers", "clear", "commit"} => pc'[r] \in {"peers", "clear", "commit"}
                   /\ pend'[r].maps = pend[r].maps
                   /\ pend[r].maps = {} \/ (frontId'[r] = frontId[r] /\ channelId'[r] = channelId[r])
    BY <2>2 DEF MapPending
  <2>3. ASSUME Commit(r) \/ ClearAfterRemove(r) \/ Fail(r) \/ ImplicitCommit(r)
        PROVE  pend'[r].maps = {}
    BY <2>3 DEF Commit, ClearAfterRemove, Fail, ImplicitCommit, Finish, Nothing
  <2>4. ASSUME SavePeers(r) \/ ClearMapList(r)
        PROVE  /\ pend'[r].maps = pend[r].maps
               /\ pc'[r] \in {"clear", "commit"}
               /\ frontId'[r] = frontId[r] /\ channelId'[r] = channelId[r]
    BY <2>4 DEF SavePeers, ClearMapList
  <2>5. ASSUME \/ \E a \in Addrs : NewFront(r, a)
               \/ InsertFront(r) \/ InsertIgnored(r) \/ KnownChannel(r) \/ AddChannel(r)
               \/ \E kind \in Kinds : CreateTable(r, kind)
        PROVE  pend[r].maps = {} /\ pend'[r].maps = pend[r].maps
    BY <2>5 DEF MapPending, NewFront, InsertFront, InsertIgnored, KnownChannel,
       AddChannel, CreateTable, Kinds
  <2>6. ASSUME (\E id \in { f.id : f \in fronts } : RemoveFront(r, id))
               \/ DeleteFront(r) \/ DeleteMap(r)
        PROVE  pend[r].maps = {} /\ pend'[r].maps = pend[r].maps
    BY <2>6 DEF MapPending, RemoveFront, DeleteFront, DeleteMap
  <2> QED BY <1>2, <2>1, <2>2, <2>3, <2>4, <2>5, <2>6 DEF Act, Registration, Removal
<1>3. CASE Crash
  BY <1>3 DEF Crash, MapPending, Nothing
<1> QED BY <1>1, <1>2, <1>3, StepOfOne

-----------------------------------------------------------------------------
(* The cached list.                                                        *)

Clearing == \E r \in Requests : pc[r] = "rmClear"

CacheInv ==
  ~ raced =>
    /\ cache \notin {NoList, maps} => Clearing
    /\ \A d \in Readers : InHand(d) /\ list[d] \notin {NoList, maps} => Clearing

\* Steps that change neither the map, nor the lists, nor a removal about to
\* clear the cache.
LEMMA CacheAside ==
  ASSUME CacheInv, UNCHANGED <<maps, rpc, list>>, cache' \in {cache, NoList},
         raced' = raced, Clearing => Clearing'
  PROVE  CacheInv'
BY DEF CacheInv, InHand

LEMMA CacheRequests ==
  ASSUME TypeOK, MapPending, CacheInv, NEW r \in Requests, Act(r)
  PROVE  CacheInv'
<1> USE DEF Goto, committed, ids, locals, reading, history, TypeOK
<1>0. pc[r] # "rmClear" => (Clearing => Clearing')
  BY OthersSame DEF Clearing, Same
<1>1. CASE Commit(r)
  BY <1>1 DEF Commit, CacheInv, InHand
<1>2. CASE DeleteMap(r)
  <2>1. pc'[r] = "rmClear"
    BY <1>2 DEF DeleteMap
  <2> QED BY <2>1 DEF CacheInv, Clearing
<1>3. CASE ClearAfterRemove(r)
  BY <1>3 DEF ClearAfterRemove, CacheInv, InHand
<1>4. CASE ImplicitCommit(r)
  <2>1. maps' = maps
    BY <1>4 DEF ImplicitCommit, CommitRows, MapPending
  <2> QED BY <1>0, <1>4, <2>1, CacheAside DEF ImplicitCommit
<1>5. CASE \/ \E a \in Addrs : NewFront(r, a)
           \/ InsertFront(r) \/ InsertIgnored(r) \/ KnownChannel(r) \/ AddChannel(r)
  <2>1. /\ UNCHANGED <<maps, rpc, list, cache, raced>> /\ pc[r] # "rmClear"
    BY <1>5 DEF NewFront, InsertFront, InsertIgnored, KnownChannel, AddChannel
  <2> QED BY <1>0, <2>1, CacheAside
<1>6. CASE \/ \E kind \in Kinds : CreateTable(r, kind)
           \/ SaveMap(r) \/ SavePeers(r) \/ ClearMapList(r)
  <2>1. /\ UNCHANGED <<maps, rpc, list, raced>> /\ cache' \in {cache, NoList}
        /\ pc[r] # "rmClear"
    BY <1>6 DEF CreateTable, Kinds, SaveMap, SavePeers, ClearMapList
  <2> QED BY <1>0, <2>1, CacheAside
<1>7. CASE (\E id \in { f.id : f \in fronts } : RemoveFront(r, id)) \/ DeleteFront(r)
  <2>1. /\ UNCHANGED <<maps, rpc, list, cache, raced>> /\ pc[r] # "rmClear"
    BY <1>7 DEF RemoveFront, DeleteFront
  <2> QED BY <1>0, <2>1, CacheAside
<1>8. CASE Fail(r)
  <2>1. /\ UNCHANGED <<maps, rpc, list, cache, raced>> /\ pc[r] # "rmClear"
    BY <1>8 DEF Fail
  <2> QED BY <1>0, <2>1, CacheAside
<1> QED
  BY <1>1, <1>2, <1>3, <1>4, <1>5, <1>6, <1>7, <1>8 DEF Act, Registration, Removal

LEMMA CacheReading ==
  ASSUME TypeOK, CacheInv, NEW d \in Readers, Reading(d)
  PROVE  CacheInv'
<1> USE DEF Step, Quiet, committed, locals, history, TypeOK
<1>1. UNCHANGED <<maps, pc, raced>> /\ (Clearing <=> Clearing')
  BY DEF Reading, Look, Size, Query, Assign, Reread, AssignAgain, Return,
     PageQuery, PageAssign, Clearing
<1>2. CASE Look(d) \/ Size(d)
  BY <1>1, <1>2 DEF Look, Size, CacheInv, InHand
<1>3. CASE Query(d) \/ PageQuery(d)
  BY <1>1, <1>3 DEF Query, PageQuery, CacheInv, InHand
<1>4. CASE Assign(d) \/ AssignAgain(d) \/ PageAssign(d)
  <2>1. InHand(d) /\ cache' = list[d]
    BY <1>4 DEF Assign, AssignAgain, PageAssign, InHand
  <2> QED BY <1>1, <1>4, <2>1 DEF Assign, AssignAgain, PageAssign, CacheInv, InHand
<1>5. CASE Reread(d)
  BY <1>1, <1>5 DEF Reread, CacheInv, InHand
<1>6. CASE Return(d)
  BY <1>1, <1>6 DEF Return, CacheInv, InHand
<1> QED BY <1>2, <1>3, <1>4, <1>5, <1>6 DEF Reading

LEMMA CacheNext ==
  ASSUME TypeOK, MapPending, CacheInv, [Next]_vars
  PROVE  CacheInv'
<1>1. CASE UNCHANGED vars
  BY <1>1 DEF vars, CacheInv, InHand, Clearing
<1>2. CASE Crash
  BY <1>2 DEF Crash, CacheInv, InHand
<1> QED BY <1>1, <1>2, CacheRequests, CacheReading DEF Next, Act

\* The cached list is stale only after a read that overlapped a change.
THEOREM CacheStaleByOverlap == Spec => []CacheStaleOnlyByOverlap
<1>1. Init => MapPending /\ CacheInv
  BY DEF Init, MapPending, CacheInv, Nothing, InHand
<1>2. TypeOK /\ MapPending /\ CacheInv /\ [Next]_vars => (MapPending /\ CacheInv)'
  BY MapPendingNext, CacheNext
<1>3. CacheInv => CacheStaleOnlyByOverlap
  BY DEF CacheInv, CacheStaleOnlyByOverlap, Clearing, Running, RemovePc
<1> QED BY <1>1, <1>2, <1>3, RegistryTypeCorrect, PTL DEF Spec

-----------------------------------------------------------------------------
(* The fronts of map rows.                                                 *)

\* A map row that is still to be committed has its front, or strays knows.
PendingHaveFronts ==
  \A r \in Requests : \A m \in pend[r].maps \ misled :
    \/ \E f \in fronts \union pend[r].fronts : f.id = m.front
    \/ m.front \in strays

RowsInv == PendingHaveFronts /\ MapRowsHaveFronts

\* Only a commit and a removal write the map or remove fronts.
LEMMA RowsRegistration ==
  ASSUME TypeOK, MapPending, RowsInv, NEW r \in Requests, Registration(r)
  PROVE  RowsInv'
<1> USE DEF Goto, committed, ids, locals, reading, history
<1>0. \A s \in Requests : s # r => Same(s)
  BY OthersSame DEF Act
<1>1. strays' = strays /\ misled \subseteq misled' /\ fronts \subseteq fronts'
  BY DEF Registration, NewFront, InsertFront, InsertIgnored, KnownChannel, AddChannel,
     ImplicitCommit, CreateTable, SaveMap, SavePeers, ClearMapList, Commit, CommitRows
<1>2. \/ maps' = maps
      \/ /\ maps' = maps \union pend[r].maps
         /\ fronts' = fronts \union pend[r].fronts
  BY DEF Registration, NewFront, InsertFront, InsertIgnored, KnownChannel, AddChannel,
     ImplicitCommit, CreateTable, SaveMap, SavePeers, ClearMapList, Commit, CommitRows
<1>3. \A s \in Requests : pc[s] = "rmMap" => pc'[s] = "rmMap" /\ frontId'[s] = frontId[s]
  <2>1. pc[r] # "rmMap"
    BY DEF Registration, NewFront, InsertFront, InsertIgnored, KnownChannel, AddChannel,
       ImplicitCommit, CreateTable, SaveMap, SavePeers, ClearMapList, Commit, Kinds
  <2> QED BY <1>0, <2>1 DEF Same
<1>4. MapRowsHaveFronts'
  BY <1>1, <1>2, <1>3 DEF RowsInv, MapRowsHaveFronts, PendingHaveFronts
<1>5. \A m \in pend'[r].maps \ misled' :
        \/ \E f \in fronts' \union pend'[r].fronts : f.id = m.front
        \/ m.front \in strays
  <2>1. CASE SaveMap(r)
    <3> DEFINE row == [front |-> frontId[r], channel |-> channelId[r]]
    <3>1. pend'[r].maps = {row} /\ pend'[r].fronts = pend[r].fronts /\ fronts' = fronts
      BY <2>1 DEF SaveMap, TypeOK, Pending
    <3>2. row \notin misled' => \E f \in fronts \union pend[r].fronts : f.id = row.front
      BY <2>1 DEF SaveMap
    <3> HIDE DEF row
    <3> QED BY <3>1, <3>2
  <2>2. CASE InsertFront(r)
    <3>1. pend[r].maps = {} /\ pend'[r].maps = pend[r].maps
      BY <2>2 DEF InsertFront, MapPending, TypeOK, Pending
    <3> QED BY <3>1
  <2>3. CASE ImplicitCommit(r) \/ Commit(r)
    BY <2>3 DEF ImplicitCommit, Commit, Finish, Nothing, TypeOK
  <2>4. CASE AddChannel(r) \/ SavePeers(r)
    <3>1. pend'[r].maps = pend[r].maps /\ pend'[r].fronts = pend[r].fronts
      BY <2>4 DEF AddChannel, SavePeers, TypeOK, Pending
    <3> QED BY <1>1, <3>1 DEF RowsInv, PendingHaveFronts
  <2>5. CASE (\E a \in Addrs : NewFront(r, a)) \/ InsertIgnored(r) \/ KnownChannel(r)
             \/ (\E kind \in Kinds : CreateTable(r, kind)) \/ ClearMapList(r)
    <3>1. pend' = pend
      BY <2>5 DEF NewFront, InsertIgnored, KnownChannel, CreateTable, ClearMapList
    <3> QED BY <1>1, <3>1 DEF RowsInv, PendingHaveFronts
  <2> QED BY <2>1, <2>2, <2>3, <2>4, <2>5 DEF Registration
<1>6. PendingHaveFronts'
  BY <1>0, <1>1, <1>5 DEF RowsInv, PendingHaveFronts, Same
<1> QED BY <1>4, <1>6 DEF RowsInv

LEMMA RowsRemoval ==
  ASSUME TypeOK, MapPending, RowsInv, NEW r \in Requests, Removal(r) \/ Fail(r)
  PROVE  RowsInv'
<1> USE DEF Goto, committed, ids, locals, reading, history
<1>0. \A s \in Requests : s # r => Same(s)
  BY OthersSame DEF Act
<1>1. CASE \E id \in { f.id : f \in fronts } : RemoveFront(r, id)
  <2>1. UNCHANGED <<fronts, maps, pend, misled, strays>> /\ pc[r] = "idle"
    BY <1>1 DEF RemoveFront
  <2> QED BY <1>0, <2>1 DEF RowsInv, PendingHaveFronts, MapRowsHaveFronts, Same
<1>2. CASE DeleteFront(r)
  <2>1. /\ UNCHANGED <<maps, pend, misled, frontId>> /\ pc'[r] = "rmMap"
        /\ strays \subseteq strays'
        /\ \A f \in fronts : f \in fronts' \/ f.id = frontId[r]
        /\ \A s \in Requests : Registering(s) /\ frontId[s] = frontId[r] =>
             frontId[r] \in strays'
    BY <1>2 DEF DeleteFront, TypeOK
  <2>2. \A s \in Requests : pc[s] = "rmMap" => pc'[s] = "rmMap"
    BY <1>0, <2>1 DEF Same
  <2>3. MapRowsHaveFronts'
    BY <2>1, <2>2 DEF RowsInv, MapRowsHaveFronts
  <2>4. \A s \in Requests : \A m \in pend[s].maps : Registering(s) /\ m.front = frontId[s]
    BY DEF MapPending, Registering, NewPc, TypeOK
  <2>5. PendingHaveFronts'
    BY <2>1, <2>4 DEF RowsInv, PendingHaveFronts
  <2> QED BY <2>3, <2>5 DEF RowsInv
<1>3. CASE DeleteMap(r)
  <2>1. /\ UNCHANGED <<fronts, pend, misled, strays, frontId>>
        /\ maps' = { m \in maps : m.front # frontId[r] }
    BY <1>3 DEF DeleteMap
  <2> QED BY <1>0, <2>1 DEF RowsInv, PendingHaveFronts, MapRowsHaveFronts, Same
<1>4. CASE ClearAfterRemove(r) \/ Fail(r)
  <2>1. /\ UNCHANGED <<fronts, maps, misled>> /\ strays \subseteq strays'
        /\ pc[r] = "rmMap" => frontId[r] \in strays'
        /\ pend'[r] = Nothing
    BY <1>4 DEF ClearAfterRemove, Fail, Finish, TypeOK
  <2> QED BY <1>0, <2>1 DEF RowsInv, PendingHaveFronts, MapRowsHaveFronts, Same, Nothing
<1> QED BY <1>1, <1>2, <1>3, <1>4 DEF Removal

LEMMA RowsNext ==
  ASSUME TypeOK, MapPending, RowsInv, [Next]_vars
  PROVE  RowsInv'
<1>1. CASE UNCHANGED vars \/ \E d \in Readers : Reading(d)
  <2>1. UNCHANGED <<fronts, maps, pc, frontId, pend, misled, strays>>
    BY <1>1 DEF vars, Reading, Look, Size, Query, Assign, Reread, AssignAgain, Return,
       PageQuery, PageAssign, Quiet, committed, locals, history
  <2> QED BY <2>1 DEF RowsInv, PendingHaveFronts, MapRowsHaveFronts
<1>2. CASE Crash
  <2>1. /\ UNCHANGED <<fronts, maps, misled>> /\ strays \subseteq strays'
        /\ \A r \in Requests : pend'[r] = Nothing
        /\ \A r \in Requests : pc[r] = "rmMap" => frontId[r] \in strays'
    BY <1>2 DEF Crash, committed
  <2> QED BY <2>1 DEF RowsInv, PendingHaveFronts, MapRowsHaveFronts, Nothing
<1> QED BY <1>1, <1>2, RowsRegistration, RowsRemoval DEF Next

\* However removals, registrations, failures and restarts interleave, a map row
\* outlives its front only where a removal was cut short or overlapped a
\* registration of the front, or the map row names another front than it should.
THEOREM MapRowsKeepFronts == Spec => []MapRowsHaveFronts
<1>1. Init => MapPending /\ RowsInv
  BY DEF Init, MapPending, RowsInv, PendingHaveFronts, MapRowsHaveFronts, Nothing
<1>2. TypeOK /\ MapPending /\ RowsInv /\ [Next]_vars => (MapPending /\ RowsInv)'
  BY MapPendingNext, RowsNext
<1>3. RowsInv => MapRowsHaveFronts
  BY DEF RowsInv
<1> QED BY <1>1, <1>2, <1>3, RegistryTypeCorrect, PTL DEF Spec

-----------------------------------------------------------------------------
(* The peers of mapped fronts.                                             *)

\* The rows of tb_front, those not yet committed included.
AllFronts == fronts \union UNION { pend[s].fronts : s \in Requests }

FrontIds ==
  /\ \A f \in AllFronts : f.id < nextFront
  /\ \A f, g \in AllFronts : f.id = g.id => f = g

MapsListed ==
  \A m \in maps \ misled :
    /\ m.front < nextFront
    /\ \A f \in AllFronts : f.id = m.front =>
         \A p \in PeersOf[f.addr] : [channel |-> m.channel, peer |-> p] \in peers

\* The front of a pending map row is the one its request registers.
PendingFront ==
  \A r \in Requests : \A m \in pend[r].maps \ misled :
    /\ m.front < nextFront
    /\ \A f \in AllFronts : f.id = m.front => f.addr = addr[r]

PendingPeers ==
  \A r \in Requests : pc[r] \in {"clear", "commit"} =>
    \A p \in PeersOf[addr[r]] : [channel |-> channelId[r], peer |-> p] \in pend[r].peers

PeersInv == FrontIds /\ MapsListed /\ PendingFront /\ PendingPeers

\* Only InsertFront makes a front row, under a new id; ids, peers and the rows
\* known to be misled are never taken back.
LEMMA FrontsStep ==
  ASSUME TypeOK, [Next]_vars
  PROVE  /\ nextFront <= nextFront' /\ peers \subseteq peers' /\ misled \subseteq misled'
         /\ \A f \in AllFronts' :
              f \in AllFronts \/ (f.id = nextFront /\ nextFront' = nextFront + 1)
         /\ \A f, g \in AllFronts' : f \notin AllFronts /\ g \notin AllFronts => f = g
<1> USE DEF TypeOK, Goto, locals, committed, ids, history
<1>1. CASE Aside
  BY <1>1 DEF Aside, AllFronts
<1>2. CASE Crash
  BY <1>2 DEF Crash, AllFronts, Nothing
<1>3. ASSUME NEW r \in Requests, Act(r)
      PROVE  /\ nextFront <= nextFront' /\ peers \subseteq peers' /\ misled \subseteq misled'
             /\ \A f \in AllFronts' :
                  f \in AllFronts \/ (f.id = nextFront /\ nextFront' = nextFront + 1)
             /\ \A f, g \in AllFronts' : f \notin AllFronts /\ g \notin AllFronts => f = g
  <2>1. \A s \in Requests : s # r => pend'[s] = pend[s]
    BY <1>3, OthersSame DEF Same
  <2>2. CASE InsertFront(r)
    <3> DEFINE row == [id |-> nextFront, addr |-> addr[r]]
    <3>1. row.id = nextFront
      OBVIOUS
    <3>2. pend' = [pend EXCEPT ![r].fronts = {row}]
      BY <2>2 DEF InsertFront
    <3> HIDE DEF row
    <3>3. pend'[r].fronts = {row}
      BY <3>2 DEF Pending
    <3>4. UNCHANGED <<fronts, peers, misled>> /\ nextFront' = nextFront + 1
      BY <2>2 DEF InsertFront
    <3>5. AllFronts' \subseteq AllFronts \union {row}
      BY <2>1, <3>3, <3>4 DEF AllFronts
    <3> QED BY <3>1, <3>4, <3>5
  <2>3. CASE /\ nextFront <= nextFront' /\ peers \subseteq peers' /\ misled \subseteq misled'
             /\ fronts' \subseteq fronts \union pend[r].fronts
             /\ pend'[r].fronts \subseteq pend[r].fronts
    BY <2>1, <2>3 DEF AllFronts
  <2>4. CASE \/ \E a \in Addrs : NewFront(r, a)
             \/ InsertIgnored(r) \/ KnownChannel(r)
    BY <2>3, <2>4 DEF NewFront, InsertIgnored, KnownChannel
  <2>5. CASE AddChannel(r)
    BY <2>3, <2>5 DEF AddChannel, Pending
  <2>6. CASE ImplicitCommit(r) \/ Commit(r)
    BY <2>3, <2>6 DEF ImplicitCommit, Commit, CommitRows, Finish, Nothing
  <2>7. CASE SaveMap(r)
    BY <2>3, <2>7 DEF SaveMap, Pending
  <2>8. CASE SavePeers(r)
    BY <2>3, <2>8 DEF SavePeers, Pending
  <2>9. CASE (\E kind \in Kinds : CreateTable(r, kind)) \/ ClearMapList(r)
    BY <2>3, <2>9 DEF CreateTable, ClearMapList
  <2>10. CASE Removal(r) \/ Fail(r)
    BY <2>3, <2>10 DEF Removal, RemoveFront, DeleteFront, DeleteMap, ClearAfterRemove,
       Fail, Finish, Nothing
  <2> QED BY <1>3, <2>2, <2>4, <2>5, <2>6, <2>7, <2>8, <2>9, <2>10 DEF Act, Registration
<1> QED BY <1>1, <1>2, <1>3, StepOfOne

\* A number below the next front id is the id of no new front.
LEMMA NoNewFront ==
  ASSUME TypeOK, [Next]_vars, NEW n \in Nat, n < nextFront, NEW f \in AllFronts', f.id = n
  PROVE  f \in AllFronts
<1>1. f \in AllFronts \/ f.id = nextFront
  BY FrontsStep
<1> QED BY <1>1 DEF TypeOK

LEMMA FrontIdsNext ==
  ASSUME TypeOK, FrontIds, [Next]_vars
  PROVE  FrontIds'
<1>1. nextFront \in Nat /\ nextFront' \in Nat /\ \A f \in AllFronts : f.id \in Nat
  BY TypeNext DEF TypeOK, AllFronts, Pending, FrontRow
<1>2. \A f \in AllFronts' : f.id < nextFront'
  BY <1>1, FrontsStep DEF FrontIds
<1>3. \A f, g \in AllFronts' : f.id = g.id => f = g
  BY <1>1, FrontsStep DEF FrontIds
<1> QED BY <1>2, <1>3 DEF FrontIds

\* What comes into the map was pending, and the peers of its front come with it.
LEMMA MapsListedNext ==
  ASSUME TypeOK, MapPending, PeersInv, [Next]_vars
  PROVE  MapsListed'
<1> USE DEF TypeOK, Goto, locals, committed, ids, history
<1>1. nextFront \in Nat /\ nextFront' \in Nat /\ nextFront <= nextFront'
      /\ peers \subseteq peers' /\ misled \subseteq misled'
  BY TypeNext, FrontsStep
<1> SUFFICES ASSUME NEW m \in maps' \ misled'
             PROVE  /\ m.front < nextFront'
                    /\ \A f \in AllFronts' : f.id = m.front =>
                         \A p \in PeersOf[f.addr] : [channel |-> m.channel, peer |-> p] \in peers'
  BY DEF MapsListed
<1>2. CASE m \in maps
  <2>1. /\ m.front \in Nat /\ m.front < nextFront
        /\ \A f \in AllFronts : f.id = m.front =>
             \A p \in PeersOf[f.addr] : [channel |-> m.channel, peer |-> p] \in peers
    BY <1>1, <1>2 DEF PeersInv, MapsListed, MapRow
  <2>2. \A f \in AllFronts' : f.id = m.front => f \in AllFronts
    BY <2>1, NoNewFront
  <2> QED BY <1>1, <2>1, <2>2
<1>3. ASSUME NEW r \in Requests, Commit(r), m \in pend[r].maps
      PROVE  /\ m.front < nextFront'
             /\ \A f \in AllFronts' : f.id = m.front =>
                  \A p \in PeersOf[f.addr] : [channel |-> m.channel, peer |-> p] \in peers'
  <2>1. /\ m.front \in Nat /\ m.front < nextFront
        /\ \A f \in AllFronts : f.id = m.front => f.addr = addr[r]
    BY <1>1, <1>3 DEF PeersInv, PendingFront, Pending, MapRow
  <2>2. \A f \in AllFronts' : f.id = m.front => f \in AllFronts
    BY <2>1, NoNewFront
  <2>3. m.channel = channelId[r] /\ pc[r] = "commit"
    BY <1>3 DEF MapPending, Commit
  <2>4. \A p \in PeersOf[addr[r]] : [channel |-> m.channel, peer |-> p] \in peers'
    BY <1>3, <2>3 DEF PeersInv, PendingPeers, Commit, CommitRows
  <2> QED BY <1>1, <2>1, <2>2, <2>4
<1>4. m \in maps \/ \E r \in Requests : Commit(r) /\ m \in pend[r].maps
  <2>1. CASE Aside \/ Crash
    BY <2>1 DEF Aside, Crash
  <2>2. ASSUME NEW r \in Requests, Act(r)
        PROVE  m \in maps \/ (Commit(r) /\ m \in pend[r].maps)
    <3>1. CASE Registration(r)
      BY <3>1 DEF Registration, NewFront, InsertFront, InsertIgnored, KnownChannel,
         AddChannel, ImplicitCommit, CreateTable, SaveMap, SavePeers, ClearMapList,
         Commit, CommitRows, MapPending
    <3>2. CASE Removal(r) \/ Fail(r)
      BY <3>2 DEF Removal, RemoveFront, DeleteFront, DeleteMap, ClearAfterRemove, Fail
    <3> QED BY <2>2, <3>1, <3>2 DEF Act
  <2> QED BY <2>1, <2>2, StepOfOne
<1> QED BY <1>2, <1>3, <1>4

\* SaveMap finds its front row, or the row counts as misled.
LEMMA PendingFrontNext ==
  ASSUME TypeOK, MapPending, PeersInv, [Next]_vars
  PROVE  PendingFront'
<1> USE DEF TypeOK, Goto, locals, committed, ids, history
<1>1. nextFront \in Nat /\ nextFront' \in Nat /\ nextFront <= nextFront' /\ misled \subseteq misled'
  BY TypeNext, FrontsStep
<1> SUFFICES ASSUME NEW s \in Requests, NEW m \in pend'[s].maps, m \notin misled'
             PROVE  /\ m.front < nextFront'
                    /\ \A f \in AllFronts' : f.id = m.front => f.addr = addr'[s]
  BY DEF PendingFront
<1>2. CASE m \in pend[s].maps /\ addr'[s] = addr[s]
  <2>1. /\ m.front \in Nat /\ m.front < nextFront
        /\ \A f \in AllFronts : f.id = m.front => f.addr = addr[s]
    BY <1>1, <1>2 DEF PeersInv, PendingFront, Pending, MapRow
  <2>2. \A f \in AllFronts' : f.id = m.front => f \in AllFronts
    BY <2>1, NoNewFront
  <2> QED BY <1>1, <1>2, <2>1, <2>2
<1>3. CASE SaveMap(s)
  <2> DEFINE row == [front |-> frontId[s], channel |-> channelId[s]]
  <2>1. /\ pend' = [pend EXCEPT ![s].maps = {row}]
        /\ misled' = IF \E f \in fronts \union pend[s].fronts :
                          f.id = frontId[s] /\ f.addr = addr[s]
                     THEN misled ELSE misled \union {row}
        /\ UNCHANGED <<fronts, addr, nextFront>>
    BY <1>3 DEF SaveMap
  <2>2. row.front = frontId[s]
    OBVIOUS
  <2> HIDE DEF row
  <2>3. m = row
    BY <2>1 DEF Pending
  <2>4. PICK g \in AllFronts : g.id = frontId[s] /\ g.addr = addr[s]
    BY <2>1, <2>3 DEF AllFronts
  <2>5. \A x \in Requests : pend'[x].fronts = pend[x].fronts
    BY <2>1 DEF Pending
  <2>6. AllFronts' = AllFronts
    BY <2>1, <2>5 DEF AllFronts
  <2> QED BY <2>1, <2>2, <2>3, <2>4, <2>6 DEF PeersInv, FrontIds
<1>4. (m \in pend[s].maps /\ addr'[s] = addr[s]) \/ SaveMap(s)
  <2>1. CASE Aside
    BY <2>1 DEF Aside
  <2>2. CASE Crash
    BY <2>2 DEF Crash, Nothing
  <2>3. ASSUME NEW r \in Requests, Act(r), r # s
        PROVE  m \in pend[s].maps /\ addr'[s] = addr[s]
    BY <2>3, OthersSame DEF Same
  <2>4. ASSUME Act(s) PROVE (m \in pend[s].maps /\ addr'[s] = addr[s]) \/ SaveMap(s)
    <3>1. CASE \E a \in Addrs : NewFront(s, a)
      BY <3>1 DEF NewFront, MapPending
    <3>2. CASE \/ InsertFront(s) \/ InsertIgnored(s) \/ KnownChannel(s) \/ AddChannel(s)
               \/ \E kind \in Kinds : CreateTable(s, kind)
               \/ SavePeers(s) \/ ClearMapList(s)
      BY <3>2 DEF InsertFront, InsertIgnored, KnownChannel, AddChannel, CreateTable,
         SavePeers, ClearMapList, Pending
    <3>3. CASE ImplicitCommit(s) \/ Commit(s) \/ ClearAfterRemove(s) \/ Fail(s)
      BY <3>3 DEF ImplicitCommit, Commit, ClearAfterRemove, Fail, Finish, Nothing
    <3>4. CASE (\E id \in { f.id : f \in fronts } : RemoveFront(s, id))
               \/ DeleteFront(s) \/ DeleteMap(s)
      BY <3>4 DEF RemoveFront, DeleteFront, DeleteMap
    <3> QED BY <2>4, <3>1, <3>2, <3>3, <3>4 DEF Act, Registration, Removal
  <2> QED BY <2>1, <2>2, <2>3, <2>4, StepOfOne
<1> QED BY <1>2, <1>3, <1>4

LEMMA PendingPeersNext ==
  ASSUME TypeOK, PendingPeers, [Next]_vars
  PROVE  PendingPeers'
<1> USE DEF TypeOK, Goto, locals, committed, ids, history
<1>1. CASE Aside
  BY <1>1 DEF Aside, PendingPeers
<1>2. CASE Crash
  BY <1>2 DEF Crash, PendingPeers, Running, NewPc
<1>3. ASSUME NEW r \in Requests, Act(r) PROVE PendingPeers'
  <2> SUFFICES ASSUME pc'[r] \in {"clear", "commit"}, NEW p \in PeersOf[addr'[r]]
               PROVE  [channel |-> channelId'[r], peer |-> p] \in pend'[r].peers
    BY <1>3, OthersSame DEF PendingPeers, Same
  <2>1. CASE SavePeers(r)
    BY <2>1 DEF SavePeers, Pending
  <2>2. CASE ClearMapList(r)
    BY <2>2 DEF ClearMapList, PendingPeers
  <2>3. CASE Registration(r) /\ ~ SavePeers(r) /\ ~ ClearMapList(r)
    BY <2>3 DEF Registration, NewFront, InsertFront, InsertIgnored, KnownChannel,
       AddChannel, ImplicitCommit, CreateTable, SaveMap, Commit, Finish, Kinds
  <2>4. CASE Removal(r) \/ Fail(r)
    BY <2>4 DEF Removal, RemoveFront, DeleteFront, DeleteMap, ClearAfterRemove, Fail, Finish
  <2> QED BY <1>3, <2>1, <2>2, <2>3, <2>4 DEF Act
<1> QED BY <1>1, <1>2, <1>3, StepOfOne

\* The peers of a mapped front are listed under the front's channel, unless the
\* map row names another front than the one that was registered.
THEOREM MappedFrontsHavePeers == Spec => []PeersOfMappedFronts
<1>1. Init => MapPending /\ PeersInv
  BY DEF Init, MapPending, PeersInv, FrontIds, MapsListed, PendingFront, PendingPeers,
     AllFronts, Nothing
<1>2. TypeOK /\ MapPending /\ PeersInv /\ [Next]_vars => (MapPending /\ PeersInv)'
  BY MapPendingNext, FrontIdsNext, MapsListedNext, PendingFrontNext, PendingPeersNext
     DEF PeersInv
<1>3. PeersInv => PeersOfMappedFronts
  BY DEF PeersInv, MapsListed, PeersOfMappedFronts, AllFronts
<1> QED BY <1>1, <1>2, <1>3, RegistryTypeCorrect, PTL DEF Spec

-----------------------------------------------------------------------------
(* Fronts without a map row.                                               *)

\* A front is registered, or a request has it in hand.
Owned(f) ==
  \/ \E m \in maps : m.front = f.id
  \/ \E r \in Requests : Running(r) /\ frontId[r] = f.id

\* What a request holds of its front, and that it commits no front without the
\* map row.
Holding(r) ==
  /\ pc[r] \in {"idle", "insert"} => frontId[r] = 0
  /\ pc[r] \notin NewPc \ {"insert"} => pend[r].fronts = {}
  /\ \A f \in pend[r].fronts : f.id = frontId[r]
  /\ pc[r] \in {"peers", "clear", "commit"} => pend[r].maps # {}

\* A front row is in one place only.
Separate ==
  /\ \A f \in AllFronts : f.id # 0
  /\ \A r \in Requests : \A f \in pend[r].fronts :
       /\ f \notin fronts
       /\ \A s \in Requests \ {r} : f \notin pend[s].fronts

\* A removal is of a committed front, which does not come back.
Removed(r) ==
  pc[r] \in RemovePc =>
    /\ frontId[r] < nextFront
    /\ \A s \in Requests : \A f \in pend[s].fronts : f.id # frontId[r]
    /\ pc[r] # "rmFront" => \A f \in fronts : f.id # frontId[r]

OwnersInv ==
  /\ FrontIds /\ MapPending /\ Separate
  /\ \A r \in Requests : Holding(r) /\ Removed(r)

\* Front rows are inserted, committed, rolled back or removed.
LEMMA FrontsMove ==
  ASSUME TypeOK, NEW r \in Requests, Act(r)
  PROVE  \/ /\ fronts' = fronts
            /\ \E f \in FrontRow : f.id = nextFront /\ pend'[r].fronts = {f}
            /\ InsertFront(r)
         \/ /\ fronts' = fronts \union pend[r].fronts /\ pend'[r].fronts = {}
            /\ ImplicitCommit(r) \/ Commit(r)
         \/ fronts' \subseteq fronts /\ pend'[r].fronts \subseteq pend[r].fronts
<1> USE DEF TypeOK, Goto, locals, committed
<1>1. CASE InsertFront(r)
  <2> DEFINE row == [id |-> nextFront, addr |-> addr[r]]
  <2>1. row \in FrontRow /\ row.id = nextFront
    BY <1>1 DEF InsertFront, FrontRow, NewPc
  <2>2. pend' = [pend EXCEPT ![r].fronts = {row}] /\ fronts' = fronts
    BY <1>1 DEF InsertFront
  <2> HIDE DEF row
  <2>3. pend'[r].fronts = {row}
    BY <2>2 DEF Pending
  <2> QED BY <1>1, <2>1, <2>2, <2>3
<1>2. CASE ImplicitCommit(r) \/ Commit(r)
  BY <1>2 DEF ImplicitCommit, Commit, CommitRows, Finish, Nothing
<1>3. CASE \/ \E a \in Addrs : NewFront(r, a)
           \/ InsertIgnored(r) \/ KnownChannel(r)
           \/ \E kind \in Kinds : CreateTable(r, kind)
           \/ ClearMapList(r)
  BY <1>3 DEF NewFront, InsertIgnored, KnownChannel, CreateTable, ClearMapList
<1>4. CASE AddChannel(r)
  BY <1>4 DEF AddChannel, Pending
<1>5. CASE SaveMap(r)
  BY <1>5 DEF SaveMap, Pending
<1>6. CASE SavePeers(r)
  BY <1>6 DEF SavePeers, Pending
<1>7. CASE Removal(r) \/ Fail(r)
  BY <1>7 DEF Removal, RemoveFront, DeleteFront, DeleteMap, ClearAfterRemove,
     Fail, Finish, Nothing
<1> QED BY <1>1, <1>2, <1>3, <1>4, <1>5, <1>6, <1>7 DEF Act, Registration

LEMMA HoldingNext ==
  ASSUME TypeOK, MapPending, [Next]_vars, NEW t \in Requests, Holding(t)
  PROVE  Holding(t)'
<1> USE DEF Holding, NewPc, RemovePc, Goto, locals, committed, TypeOK
<1>1. CASE Aside
  BY <1>1 DEF Aside
<1>2. CASE Crash
  BY <1>2 DEF Crash, Running, Nothing
<1>3. ASSUME NEW r \in Requests, Act(r), r # t PROVE Holding(t)'
  BY <1>3, OthersSame DEF Same
<1>4. ASSUME Act(t) PROVE Holding(t)'
  <2>1. CASE InsertFront(t)
    <3> DEFINE row == [id |-> nextFront, addr |-> addr[t]]
    <3>1. row.id = nextFront
      OBVIOUS
    <3>2. /\ pend' = [pend EXCEPT ![t].fronts = {row}]
          /\ pc'[t] = "channel" /\ frontId'[t] = nextFront
      BY <2>1 DEF InsertFront
    <3> HIDE DEF row
    <3>3. pend'[t].fronts = {row}
      BY <3>2 DEF Pending
    <3> QED BY <3>1, <3>2, <3>3
  <2>2. CASE SaveMap(t)
    <3> DEFINE row == [front |-> frontId[t], channel |-> channelId[t]]
    <3>1. pend' = [pend EXCEPT ![t].maps = {row}] /\ pc[t] = "map"
          /\ pc'[t] = "peers" /\ frontId'[t] = frontId[t]
      BY <2>2 DEF SaveMap
    <3> HIDE DEF row
    <3>2. pend'[t].maps = {row} /\ pend'[t].fronts = pend[t].fronts
      BY <3>1 DEF Pending
    <3> QED BY <3>1, <3>2
  <2>3. CASE AddChannel(t)
    <3>1. /\ pend'[t].fronts = pend[t].fronts /\ frontId'[t] = frontId[t]
          /\ pc[t] = "channel" /\ pc'[t] = "commitDDL"
      BY <2>3 DEF AddChannel, Pending
    <3> QED BY <3>1
  <2>4. CASE SavePeers(t)
    <3>1. /\ pend'[t].fronts = pend[t].fronts /\ frontId'[t] = frontId[t]
          /\ pend'[t].maps = pend[t].maps
          /\ pc[t] = "peers" /\ pc'[t] = "clear"
      BY <2>4 DEF SavePeers, Pending
    <3> QED BY <3>1
  <2>5. CASE ImplicitCommit(t)
    BY <2>5 DEF ImplicitCommit, Nothing
  <2>6. CASE Commit(t) \/ ClearAfterRemove(t) \/ Fail(t)
    BY <2>6 DEF Commit, ClearAfterRemove, Fail, Finish, Nothing
  <2>7. CASE \/ \E a \in Addrs : NewFront(t, a)
             \/ InsertIgnored(t) \/ KnownChannel(t)
             \/ \E kind \in Kinds : CreateTable(t, kind)
             \/ ClearMapList(t)
    BY <2>7 DEF NewFront, InsertIgnored, KnownChannel, CreateTable, ClearMapList, Kinds
  <2>8. CASE (\E id \in { f.id : f \in fronts } : RemoveFront(t, id))
             \/ DeleteFront(t) \/ DeleteMap(t)
    BY <2>8 DEF RemoveFront, DeleteFront, DeleteMap
  <2> QED BY <1>4, <2>1, <2>2, <2>3, <2>4, <2>5, <2>6, <2>7, <2>8
             DEF Act, Registration, Removal
<1> QED BY <1>1, <1>2, <1>3, <1>4, StepOfOne

LEMMA SeparateNext ==
  ASSUME TypeOK, FrontIds, Separate, [Next]_vars
  PROVE  Separate'
<1>0. /\ nextFront \in Nat \ {0}
      /\ \A f \in fronts : f \in AllFronts
      /\ \A s \in Requests : \A f \in pend[s].fronts : f \in AllFronts
      /\ \A f \in AllFronts : f.id \in Nat /\ f.id < nextFront
  BY DEF TypeOK, AllFronts, FrontIds, Pending, FrontRow
<1>1. \A f \in AllFronts' : f.id # 0
  BY <1>0, FrontsStep DEF Separate
<1>2. CASE Aside
  BY <1>1, <1>2 DEF Aside, Separate, committed, locals
<1>3. CASE Crash
  BY <1>1, <1>3 DEF Crash, Separate, Nothing
<1>4. ASSUME NEW r \in Requests, Act(r) PROVE Separate'
  <2>1. \A s \in Requests \ {r} : pend'[s] = pend[s]
    BY <1>4, OthersSame DEF Same
  <2>2. ASSUME fronts' = fronts, NEW f \in FrontRow, f.id = nextFront, pend'[r].fronts = {f}
        PROVE  Separate'
    <3>1. f \notin AllFronts
      BY <1>0, <2>2
    <3> QED BY <1>0, <1>1, <2>1, <2>2, <3>1 DEF Separate
  <2>3. CASE fronts' = fronts \union pend[r].fronts /\ pend'[r].fronts = {}
    BY <1>1, <2>1, <2>3 DEF Separate
  <2>4. CASE fronts' \subseteq fronts /\ pend'[r].fronts \subseteq pend[r].fronts
    BY <1>1, <2>1, <2>4 DEF Separate
  <2> QED BY <1>4, <2>2, <2>3, <2>4, FrontsMove
<1> QED BY <1>2, <1>3, <1>4, StepOfOne

LEMMA RemovedNext ==
  ASSUME TypeOK, FrontIds, Separate, [Next]_vars, NEW t \in Requests, Removed(t)
  PROVE  Removed(t)'
<1>0. /\ nextFront \in Nat /\ nextFront' \in Nat /\ nextFront <= nextFront'
      /\ frontId[t] \in Nat
      /\ \A f \in fronts : f \in AllFronts
      /\ \A s \in Requests : \A f \in pend[s].fronts : f \in AllFronts
  BY TypeNext, FrontsStep DEF TypeOK, AllFronts
<1>1. CASE Aside
  BY <1>1 DEF Aside, Removed, committed, ids, locals
<1>2. CASE Crash
  BY <1>2 DEF Crash, Removed, Running, RemovePc
<1>3. ASSUME NEW r \in Requests, Act(r),
             frontId'[t] = frontId[t], pc[t] \in RemovePc,
             pc'[t] # "rmFront" => pc[t] # "rmFront"
      PROVE  Removed(t)'
  <2>1. \A s \in Requests \ {r} : pend'[s] = pend[s]
    BY <1>3, OthersSame DEF Same
  <2>2. frontId[t] < nextFront
    BY <1>3 DEF Removed
  <2>3. \A s \in Requests : \A f \in pend'[s].fronts : f.id # frontId[t]
    BY <1>0, <1>3, <2>1, <2>2, FrontsMove DEF Removed
  <2>4. pc[t] # "rmFront" => \A f \in fronts' : f.id # frontId[t]
    BY <1>3, FrontsMove DEF Removed
  <2> QED BY <1>0, <1>3, <2>2, <2>3, <2>4 DEF Removed
<1>4. ASSUME NEW r \in Requests, Act(r), r # t PROVE Removed(t)'
  BY <1>3, <1>4, OthersSame DEF Same, Removed
<1>5. ASSUME Act(t), pc'[t] \in RemovePc PROVE Removed(t)'
  <2> USE DEF TypeOK, Goto, committed, ids, locals
  <2>1. CASE \E id \in { f.id : f \in fronts } : RemoveFront(t, id)
    <3>1. PICK g \in fronts : /\ frontId'[t] = g.id /\ pc'[t] = "rmFront"
                              /\ UNCHANGED <<fronts, pend, nextFront>>
      BY <2>1 DEF RemoveFront
    <3>2. g.id < nextFront
      BY <1>0 DEF FrontIds
    <3>3. \A s \in Requests : \A f \in pend[s].fronts : f.id # g.id
      BY <1>0 DEF FrontIds, Separate
    <3> QED BY <3>1, <3>2, <3>3 DEF Removed
  <2>2. CASE DeleteFront(t)
    BY <2>2 DEF DeleteFront, Removed, RemovePc
  <2>3. CASE DeleteMap(t)
    BY <2>3 DEF DeleteMap, Removed, RemovePc
  <2>4. CASE ClearAfterRemove(t) \/ Fail(t) \/ Commit(t)
    BY <1>5, <2>4 DEF ClearAfterRemove, Fail, Commit, Finish, RemovePc
  <2>5. CASE Registration(t) /\ ~ Commit(t)
    BY <1>5, <2>5 DEF Registration, NewFront, InsertFront, InsertIgnored, KnownChannel,
       AddChannel, ImplicitCommit, CreateTable, SaveMap, SavePeers, ClearMapList, RemovePc
  <2> QED BY <1>5, <2>1, <2>2, <2>3, <2>4, <2>5 DEF Act, Removal
<1>6. ASSUME pc'[t] \notin RemovePc PROVE Removed(t)'
  BY <1>6 DEF Removed
<1> QED BY <1>1, <1>2, <1>4, <1>5, <1>6, StepOfOne

\* What may end a request without its front and its map row being together: an
\* error after the front row was inserted, or the end of the process.
Broken == Crash \/ \E r \in Requests : Fail(r) /\ pc[r] # "insert"

\* Every other step keeps the owner of a front, or hands the front on.
LEMMA OwnedNext ==
  ASSUME TypeOK, OwnersInv, [Next]_vars, ~ Broken, NEW f \in fronts',
         f \in fronts => Owned(f)
  PROVE  Owned(f)'
<1> USE DEF Goto, committed, locals, TypeOK, NewPc, RemovePc
<1>0. f \in fronts => f.id # 0
  BY DEF OwnersInv, Separate, AllFronts
<1>1. CASE Aside
  BY <1>1 DEF Aside, Owned, Running
<1>2. ASSUME NEW r \in Requests, Act(r), f \in fronts, NEW m \in maps, m.front = f.id
      PROVE  Owned(f)'
  <2>1. CASE m \in maps'
    BY <1>2, <2>1 DEF Owned
  <2>2. CASE m \notin maps'
    <3>1. DeleteMap(r) /\ m.front = frontId[r]
      <4>1. CASE Registration(r)
        BY <1>2, <2>2, <4>1 DEF Registration, NewFront, InsertFront, InsertIgnored,
           KnownChannel, AddChannel, ImplicitCommit, CreateTable, SaveMap, SavePeers,
           ClearMapList, Commit, CommitRows
      <4>2. CASE Removal(r) \/ Fail(r)
        BY <1>2, <2>2, <4>2 DEF Removal, RemoveFront, DeleteFront, DeleteMap,
           ClearAfterRemove, Fail
      <4> QED BY <1>2, <4>1, <4>2 DEF Act
    <3> QED BY <1>2, <3>1 DEF DeleteMap, OwnersInv, Removed
  <2> QED BY <2>1, <2>2
<1>3. ASSUME NEW r \in Requests, Act(r), f \in fronts, NEW s \in Requests,
             Running(s), frontId[s] = f.id
      PROVE  Owned(f)'
  <2>1. CASE s # r
    BY <1>3, <2>1, OthersSame DEF Same, Owned, Running
  <2>2. CASE s = r
    <3>1. pc[r] # "insert"
      BY <1>0, <1>3, <2>2 DEF OwnersInv, Holding
    <3>2. CASE Commit(r)
      <4>1. PICK m \in pend[r].maps : m.front = frontId[r]
        BY <3>2 DEF OwnersInv, Holding, MapPending, Commit
      <4> QED BY <1>3, <2>2, <3>2, <4>1 DEF Commit, CommitRows, Owned
    <3>3. CASE ClearAfterRemove(r)
      BY <1>3, <2>2, <3>3 DEF ClearAfterRemove, OwnersInv, Removed
    <3>4. CASE Fail(r)
      BY <3>1, <3>4 DEF Broken
    <3>5. CASE Registration(r) /\ ~ Commit(r)
      <4>1. pc'[r] \in NewPc /\ frontId'[r] = frontId[r]
        BY <1>3, <2>2, <3>1, <3>5 DEF Registration, NewFront, InsertFront, InsertIgnored,
           KnownChannel, AddChannel, ImplicitCommit, CreateTable, SaveMap, SavePeers,
           ClearMapList, Running, Kinds
      <4> QED BY <1>3, <2>2, <4>1 DEF Owned, Running
    <3>6. CASE Removal(r) /\ ~ ClearAfterRemove(r)
      <4>1. pc'[r] \in RemovePc /\ frontId'[r] = frontId[r]
        BY <1>3, <2>2, <3>6 DEF Removal, RemoveFront, DeleteFront, DeleteMap, Running
      <4> QED BY <1>3, <2>2, <4>1 DEF Owned, Running
    <3> QED BY <1>3, <3>2, <3>3, <3>4, <3>5, <3>6 DEF Act
  <2> QED BY <2>1, <2>2
<1>4. ASSUME NEW r \in Requests, Act(r), f \notin fronts PROVE Owned(f)'
  <2>1. /\ fronts' = fronts \union pend[r].fronts
        /\ ImplicitCommit(r) \/ Commit(r)
    BY <1>4, FrontsMove
  <2>2. f.id = frontId[r]
    BY <1>4, <2>1 DEF OwnersInv, Holding
  <2>3. CASE ImplicitCommit(r)
    BY <2>2, <2>3 DEF ImplicitCommit, Owned, Running
  <2>4. CASE Commit(r)
    <3>1. PICK m \in pend[r].maps : m.front = frontId[r]
      BY <2>4 DEF OwnersInv, Holding, MapPending, Commit
    <3> QED BY <2>2, <2>4, <3>1 DEF Commit, CommitRows, Owned
  <2> QED BY <2>1, <2>3, <2>4
<1> QED BY <1>1, <1>2, <1>3, <1>4, StepOfOne DEF Owned, Broken

LEMMA OwnersInvNext ==
  ASSUME TypeOK, OwnersInv, [Next]_vars
  PROVE  OwnersInv'
BY FrontIdsNext, MapPendingNext, SeparateNext, HoldingNext, RemovedNext DEF OwnersInv

LEMMA OwnersInvInit == Init => OwnersInv
BY DEF Init, OwnersInv, FrontIds, MapPending, Separate, Holding, Removed, AllFronts,
       Nothing, NewPc, RemovePc

\* However registrations and removals interleave, and whichever row a stale
\* LAST_INSERT_ID() maps, a front is left without a map row and without a request
\* that has it in hand only by an error after its insert or by the end of the
\* process.
THEOREM FrontsLostByFailure ==
  Spec => [][\A f \in fronts' : (f \in fronts => Owned(f)) => Owned(f)' \/ Broken]_vars
<1>1. TypeOK /\ OwnersInv /\ [Next]_vars =>
        [\A f \in fronts' : (f \in fronts => Owned(f)) => Owned(f)' \/ Broken]_vars
  BY OwnedNext
<1> QED BY <1>1, OwnersInvInit, OwnersInvNext, RegistryTypeCorrect, PTL DEF Spec

\* So the annotation of newFront, @Transactional, keeps its promise where no
\* front, statement or process fails.
THEOREM WholeWithoutFaults ==
  ASSUME Faults = {}
  PROVE  Spec => []NewFrontWhole
<1>1. NewFrontWhole <=> \A f \in fronts : Owned(f)
  BY DEF NewFrontWhole, Owned
<1>2. Init => NewFrontWhole
  BY DEF Init, NewFrontWhole
<1>3. ~ Broken
  BY DEF Broken, Crash, Fail
<1>4. TypeOK /\ OwnersInv /\ [Next]_vars /\ NewFrontWhole => NewFrontWhole'
  <2> SUFFICES ASSUME TypeOK, OwnersInv, [Next]_vars, NewFrontWhole, NEW f \in fronts'
               PROVE  Owned(f)'
    BY DEF NewFrontWhole, Owned
  <2> QED BY <1>1, <1>3, OwnedNext
<1> QED BY <1>2, <1>4, OwnersInvInit, OwnersInvNext, RegistryTypeCorrect, PTL DEF Spec

-----------------------------------------------------------------------------
(* Channels of the same name.                                              *)

\* Fronts of a channel see a common peer.
SharedPeer ==
  \A a, b \in Addrs : NameOf[a] = NameOf[b] => PeersOf[a] \cap PeersOf[b] # {}

\* The rows of tb_channel, those not yet committed included.
AllChannels == channels \union UNION { pend[s].channels : s \in Requests }

Listed(id, a) == \A p \in PeersOf[a] : [channel |-> id, peer |-> p] \in peers

\* A front of the channel's name finds it by its peers; or the request that
\* added it is still running; or nobody will ever use it.
Settled(c) == \E a \in Addrs : NameOf[a] = c.name /\ Listed(c.id, a)
Held(c)    == Registering(c.by) /\ channelId[c.by] = c.id
Dead(c)    == ~ Settled(c) /\ ~ Held(c)

ChannelRows ==
  /\ \A c \in AllChannels :
       /\ c.id \in Nat \ {0} /\ c.id < nextChannel
       /\ pc[c.by] \notin {"idle", "insert", "channel"}
  /\ \A c, e \in AllChannels : c.id = e.id => c = e
  /\ \A s \in Requests :
       pc[s] \notin NewPc \ {"insert", "channel"} => channelId[s] = 0

PeersPending ==
  \A s \in Requests :
    /\ pc[s] \notin {"clear", "commit"} => pend[s].peers = {}
    /\ \A p \in pend[s].peers : p.channel = channelId[s]

\* A channel in use is settled; one that is not is in one request's hands.
UsedSettled ==
  \A c \in AllChannels :
    /\ \A m \in maps : m.channel = c.id => Settled(c)
    /\ \A p \in peers : p.channel = c.id => Settled(c)
    /\ \A s \in Requests :
         /\ known[s] = c.id => Settled(c)
         /\ channelId[s] = c.id /\ ~ Settled(c) => s = c.by /\ NameOf[addr[s]] = c.name

Overlaps ==
  /\ \A r, s \in Requests : Registering(r) /\ Registering(s) /\ r # s => <<r, s>> \in together
  /\ \A r, s \in Requests : <<r, s>> \in together => <<s, r>> \in together

\* A request about to add a channel overlaps those that added one of that name,
\* and so do any two that have, unless the channel is dead.
Twins ==
  /\ \A c \in AllChannels : \A s \in Requests :
       /\ Registering(s) /\ known[s] = 0 /\ s # c.by /\ NameOf[addr[s]] = c.name
       => <<c.by, s>> \in together \/ Dead(c)
  /\ \A c, e \in AllChannels :
       c # e /\ c.name = e.name => <<c.by, e.by>> \in together \/ Dead(c) \/ Dead(e)

ChannelsInv == ChannelRows /\ PeersPending /\ UsedSettled /\ Overlaps /\ Twins

\* How a request moves, and what it remembers on the way.
LEMMA RequestMoves ==
  ASSUME TypeOK, NEW r \in Requests, Act(r)
  PROVE  /\ pc'[r] # "idle"
         /\ pc'[r] = "channel" => pc[r] = "insert"
         /\ \/ \E a \in Addrs : NewFront(r, a)
            \/ /\ pc'[r] # "insert"
               /\ pc'[r] \in NewPc => /\ pc[r] \in NewPc
                                      /\ known'[r] = known[r] /\ addr'[r] = addr[r]
               /\ known'[r] = known[r] \/ known'[r] = 0
               /\ \/ channelId'[r] = channelId[r] /\ addr'[r] = addr[r]
                     /\ (pc'[r] \in NewPc \/ pc[r] \notin NewPc)
                  \/ KnownChannel(r) \/ AddChannel(r)
                  \/ channelId'[r] = 0
<1> USE DEF TypeOK, Goto, locals, committed, ids, history, NewPc, RemovePc
<1>1. ASSUME NEW a \in Addrs, NewFront(r, a) PROVE pc'[r] = "insert"
  BY <1>1 DEF NewFront
<1>2. CASE InsertFront(r) \/ InsertIgnored(r)
  BY <1>2 DEF InsertFront, InsertIgnored
<1>3. CASE KnownChannel(r) \/ AddChannel(r)
  BY <1>3 DEF KnownChannel, AddChannel
<1>4. CASE ImplicitCommit(r) \/ (\E kind \in Kinds : CreateTable(r, kind)) \/ SaveMap(r)
  BY <1>4 DEF ImplicitCommit, CreateTable, Kinds, SaveMap
<1>5. CASE SavePeers(r) \/ ClearMapList(r)
  BY <1>5 DEF SavePeers, ClearMapList
<1>6. CASE Commit(r) \/ ClearAfterRemove(r) \/ Fail(r)
  BY <1>6 DEF Commit, ClearAfterRemove, Fail, Finish
<1>7. CASE (\E id \in { f.id : f \in fronts } : RemoveFront(r, id))
           \/ DeleteFront(r) \/ DeleteMap(r)
  BY <1>7 DEF RemoveFront, DeleteFront, DeleteMap
<1> QED
  BY <1>1, <1>2, <1>3, <1>4, <1>5, <1>6, <1>7 DEF Act, Registration, Removal

\* Channel rows come from AddChannel, map rows and peers from Commit.
LEMMA RowsStep ==
  ASSUME TypeOK, MapPending, PeersPending, [Next]_vars
  PROVE  /\ nextChannel <= nextChannel' /\ peers \subseteq peers'
         /\ \A c \in AllChannels' :
              \/ c \in AllChannels
              \/ \E r \in Requests :
                   /\ AddChannel(r) /\ nextChannel' = nextChannel + 1
                   /\ c = [id |-> nextChannel, name |-> NameOf[addr[r]], by |-> r]
         /\ \A m \in maps' : m \in maps \/ \E r \in Requests : Commit(r) /\ m \in pend[r].maps
         /\ \A p \in peers' : p \in peers \/ \E r \in Requests : Commit(r) /\ p \in pend[r].peers
<1> USE DEF TypeOK, Goto, locals, committed, ids, history
<1>1. CASE Aside
  BY <1>1 DEF Aside, AllChannels
<1>2. CASE Crash
  BY <1>2 DEF Crash, AllChannels, Nothing
<1>3. ASSUME NEW r \in Requests, Act(r)
      PROVE  /\ nextChannel <= nextChannel' /\ peers \subseteq peers'
             /\ \A c \in AllChannels' :
                  \/ c \in AllChannels
                  \/ /\ AddChannel(r) /\ nextChannel' = nextChannel + 1
                     /\ c = [id |-> nextChannel, name |-> NameOf[addr[r]], by |-> r]
             /\ \A m \in maps' : m \in maps \/ (Commit(r) /\ m \in pend[r].maps)
             /\ \A p \in peers' : p \in peers \/ (Commit(r) /\ p \in pend[r].peers)
  <2>1. \A s \in Requests : s # r => pend'[s] = pend[s]
    BY <1>3, OthersSame DEF Same
  <2>2. CASE AddChannel(r)
    <3> DEFINE row == [id |-> nextChannel, name |-> NameOf[addr[r]], by |-> r]
    <3>1. /\ pend' = [pend EXCEPT ![r].channels = {row}]
          /\ UNCHANGED <<channels, maps, peers>> /\ nextChannel' = nextChannel + 1
      BY <2>2 DEF AddChannel
    <3>2. \A c \in AllChannels' : c \in AllChannels \/ c = row
      <4> HIDE DEF row
      <4>1. pend'[r].channels = {row}
        BY <3>1 DEF Pending
      <4> QED BY <2>1, <3>1, <4>1 DEF AllChannels
    <3> QED BY <2>2, <3>1, <3>2
  <2>3. CASE /\ UNCHANGED <<maps, peers, channels>> /\ nextChannel' = nextChannel
             /\ pend'[r].channels \subseteq pend[r].channels
    BY <2>1, <2>3 DEF AllChannels
  <2>4. CASE \/ \E a \in Addrs : NewFront(r, a)
             \/ InsertIgnored(r) \/ KnownChannel(r)
    BY <2>3, <2>4 DEF NewFront, InsertIgnored, KnownChannel
  <2>5. CASE InsertFront(r)
    BY <2>3, <2>5 DEF InsertFront, Pending
  <2>6. CASE ImplicitCommit(r)
    <3>1. UNCHANGED <<maps, peers>>
      BY <2>6 DEF ImplicitCommit, CommitRows, MapPending, PeersPending
    <3> QED BY <2>1, <2>6, <3>1 DEF ImplicitCommit, CommitRows, AllChannels, Nothing
  <2>7. CASE Commit(r)
    BY <2>1, <2>7 DEF Commit, CommitRows, Finish, AllChannels, Nothing
  <2>8. CASE SaveMap(r)
    BY <2>3, <2>8 DEF SaveMap, Pending
  <2>9. CASE SavePeers(r)
    BY <2>3, <2>9 DEF SavePeers, Pending
  <2>10. CASE (\E kind \in Kinds : CreateTable(r, kind)) \/ ClearMapList(r)
    BY <2>3, <2>10 DEF CreateTable, ClearMapList
  <2>11. CASE Removal(r) \/ Fail(r)
    BY <2>1, <2>11 DEF Removal, RemoveFront, DeleteFront, DeleteMap, ClearAfterRemove,
       Fail, Finish, Nothing, AllChannels
  <2> QED
    BY <1>3, <2>2, <2>4, <2>5, <2>6, <2>7, <2>8, <2>9, <2>10, <2>11 DEF Act, Registration
<1> QED BY <1>1, <1>2, <1>3, StepOfOne

\* After a step that is not of request s, s is as it was or, at the end of the
\* process, done.
LEMMA OthersOrEnd ==
  ASSUME TypeOK, [Next]_vars, NEW s \in Requests
  PROVE  \/ Act(s)
         \/ Same(s)
         \/ Crash /\ pc'[s] \in {"idle", "done"} /\ ~ Registering(s)'
            /\ (pc'[s] = "idle" => pc[s] = "idle")
            /\ known'[s] = 0 /\ channelId'[s] = 0
<1>1. CASE Aside
  BY <1>1 DEF Aside, Same, locals
<1>2. CASE Crash
  BY <1>2 DEF Crash, TypeOK, Running, Registering, NewPc, RemovePc
<1> QED BY <1>1, <1>2, StepOfOne, OthersSame

\* Ids in use are ids of channel rows: none is the next one.
LEMMA IdsBelow ==
  ASSUME IInv, ChannelRows
  PROVE  /\ nextChannel \in Nat \ {0}
         /\ \A m \in maps : m.channel \in Nat \ {0} /\ m.channel < nextChannel
         /\ \A p \in peers : p.channel \in Nat \ {0} /\ p.channel < nextChannel
         /\ \A s \in Requests : /\ known[s] \in Nat /\ known[s] < nextChannel
                                /\ channelId[s] \in Nat /\ channelId[s] < nextChannel
<1>1. nextChannel \in Nat \ {0}
  BY DEF IInv, TypeOK
<1>2. \A x : Usable(x) => x \in Nat \ {0} /\ x < nextChannel
  BY DEF Usable, ChannelRows, AllChannels
<1>3. ASSUME NEW s \in Requests
      PROVE  /\ known[s] \in Nat /\ known[s] < nextChannel
             /\ channelId[s] \in Nat /\ channelId[s] < nextChannel
  <2>1. known[s] \in Nat /\ channelId[s] \in Nat
    BY DEF IInv, TypeOK
  <2>2. known[s] < nextChannel
    BY <1>1, <1>2, <2>1 DEF IInv, NamesUsable
  <2>3. channelId[s] < nextChannel
    <3>1. CASE pc[s] \notin NewPc \ {"insert", "channel"}
      BY <1>1, <3>1 DEF ChannelRows
    <3>2. CASE pc[s] = "commitDDL"
      <4>1. PICK row \in pend[s].channels : row.id = channelId[s]
        BY <3>2 DEF IInv, Prepared
      <4>2. row \in AllChannels
        BY <4>1 DEF AllChannels
      <4> QED BY <4>1, <4>2 DEF ChannelRows
    <3>3. CASE pc[s] \in {"block", "trans"}
      BY <3>3 DEF IInv, Prepared, ChannelRows, AllChannels
    <3>4. CASE pc[s] \in {"map", "peers", "clear", "commit"}
      BY <1>2, <3>4 DEF IInv, Prepared
    <3> QED BY <3>1, <3>2, <3>3, <3>4 DEF NewPc
  <2> QED BY <2>1, <2>2, <2>3
<1> QED BY <1>1, <1>2, <1>3 DEF IInv, RowsUsable

\* The request of a channel row is past adding it, and never starts again.
LEMMA ChannelRowsNext ==
  ASSUME IInv, MapPending, ChannelsInv, [Next]_vars
  PROVE  ChannelRows'
<1>t. TypeOK /\ ChannelRows /\ PeersPending
  BY DEF IInv, ChannelsInv
<1>0. nextChannel \in Nat \ {0} /\ nextChannel' \in Nat /\ nextChannel <= nextChannel'
  BY <1>t, TypeNext, RowsStep DEF TypeOK
<1>1. ASSUME NEW s \in Requests, pc[s] \notin {"idle", "insert", "channel"}
      PROVE  pc'[s] \notin {"idle", "insert", "channel"}
  <2>1. CASE Act(s)
    BY <1>t, <1>1, <2>1, RequestMoves DEF NewFront
  <2> QED BY <1>t, <1>1, <2>1, OthersOrEnd DEF Same
<1>2. \A c \in AllChannels :
        /\ c.id \in Nat \ {0} /\ c.id < nextChannel'
        /\ pc'[c.by] \notin {"idle", "insert", "channel"}
  <2> SUFFICES ASSUME NEW c \in AllChannels
               PROVE  /\ c.id \in Nat \ {0} /\ c.id < nextChannel'
                      /\ pc'[c.by] \notin {"idle", "insert", "channel"}
    OBVIOUS
  <2>1. c.by \in Requests
    BY <1>t DEF TypeOK, AllChannels, Pending, ChannelRow
  <2> QED BY <1>t, <1>0, <1>1, <2>1 DEF ChannelRows
<1>3. ASSUME NEW r \in Requests, AddChannel(r)
      PROVE  pc'[r] = "commitDDL"
  BY <1>t, <1>3 DEF AddChannel, Goto, TypeOK
<1>4. \A c \in AllChannels' :
        /\ c.id \in Nat \ {0} /\ c.id < nextChannel'
        /\ pc'[c.by] \notin {"idle", "insert", "channel"}
  <2> SUFFICES ASSUME NEW c \in AllChannels', c \notin AllChannels
               PROVE  /\ c.id \in Nat \ {0} /\ c.id < nextChannel'
                      /\ pc'[c.by] \notin {"idle", "insert", "channel"}
    BY <1>2
  <2>1. PICK r \in Requests : /\ AddChannel(r) /\ nextChannel' = nextChannel + 1
                              /\ c = [id |-> nextChannel, name |-> NameOf[addr[r]], by |-> r]
    BY <1>t, RowsStep
  <2>2. c.id = nextChannel /\ c.by = r
    BY <2>1
  <2>3. pc'[r] = "commitDDL"
    BY <1>3, <2>1
  <2> QED BY <1>0, <2>1, <2>2, <2>3
<1>5. \A c, e \in AllChannels' : c.id = e.id => c = e
  <2> SUFFICES ASSUME NEW c \in AllChannels', NEW e \in AllChannels', c.id = e.id
               PROVE  c = e
    OBVIOUS
  <2>1. ASSUME NEW x \in AllChannels', x \notin AllChannels
        PROVE  \E r \in Requests : AddChannel(r)
                 /\ x = [id |-> nextChannel, name |-> NameOf[addr[r]], by |-> r]
    BY <1>t, <2>1, RowsStep
  <2>2. \A r, q \in Requests : AddChannel(r) /\ AddChannel(q) => r = q
    BY <1>t DEF AddChannel, Goto, TypeOK
  <2>3. \A x \in AllChannels : x.id \in Nat /\ x.id # nextChannel
    BY <1>t, <1>0 DEF ChannelRows
  <2>4. CASE c \in AllChannels /\ e \in AllChannels
    BY <1>t, <2>4 DEF ChannelRows
  <2>5. CASE c \notin AllChannels /\ e \notin AllChannels
    BY <2>1, <2>2, <2>5
  <2>6. CASE c \in AllChannels /\ e \notin AllChannels
    <3>1. e.id = nextChannel
      BY <2>1, <2>6
    <3> QED BY <2>3, <2>6, <3>1
  <2>7. CASE c \notin AllChannels /\ e \in AllChannels
    <3>1. c.id = nextChannel
      BY <2>1, <2>7
    <3> QED BY <2>3, <2>7, <3>1
  <2> QED BY <2>4, <2>5, <2>6, <2>7
<1>6. ASSUME NEW s \in Requests, pc'[s] \notin NewPc \ {"insert", "channel"}
      PROVE  channelId'[s] = 0
  <2>1. CASE Act(s)
    <3>1. CASE \E a \in Addrs : NewFront(s, a)
      BY <1>t, <3>1 DEF NewFront, ChannelRows, NewPc
    <3>2. CASE KnownChannel(s) \/ AddChannel(s)
      BY <1>t, <1>6, <3>2 DEF KnownChannel, AddChannel, Goto, TypeOK, NewPc
    <3>3. CASE channelId'[s] = channelId[s] /\ (pc'[s] \in NewPc \/ pc[s] \notin NewPc)
      <4>1. CASE pc'[s] = "channel"
        BY <1>t, <2>1, <3>3, <4>1, RequestMoves DEF ChannelRows
      <4>2. CASE pc'[s] = "insert"
        BY <1>t, <2>1, <3>1, <4>2, RequestMoves
      <4> QED BY <1>t, <1>6, <3>3, <4>1, <4>2 DEF ChannelRows
    <3> QED BY <1>t, <2>1, <3>1, <3>2, <3>3, RequestMoves
  <2> QED BY <1>t, <1>6, <2>1, OthersOrEnd DEF Same, ChannelRows
<1> QED BY <1>4, <1>5, <1>6 DEF ChannelRows

LEMMA PeersPendingNext ==
  ASSUME TypeOK, PeersPending, [Next]_vars
  PROVE  PeersPending'
<1> USE DEF TypeOK, Goto, locals, committed, ids, history
<1>1. CASE Aside
  BY <1>1 DEF Aside, PeersPending
<1>2. CASE Crash
  BY <1>2 DEF Crash, PeersPending, Nothing
<1>3. ASSUME NEW r \in Requests, Act(r) PROVE PeersPending'
  <2> SUFFICES /\ pc'[r] \notin {"clear", "commit"} => pend'[r].peers = {}
               /\ \A p \in pend'[r].peers : p.channel = channelId'[r]
    BY <1>3, OthersSame DEF PeersPending, Same
  <2>1. CASE SavePeers(r)
    BY <2>1 DEF SavePeers, Pending
  <2>2. CASE ClearMapList(r)
    BY <2>2 DEF ClearMapList, PeersPending
  <2>3. CASE ImplicitCommit(r) \/ Commit(r) \/ ClearAfterRemove(r) \/ Fail(r)
    BY <2>3 DEF ImplicitCommit, Commit, ClearAfterRemove, Fail, Finish, Nothing
  <2>4. ASSUME \/ \E a \in Addrs : NewFront(r, a)
               \/ InsertFront(r) \/ InsertIgnored(r) \/ KnownChannel(r) \/ AddChannel(r)
               \/ (\E kind \in Kinds : CreateTable(r, kind)) \/ SaveMap(r)
        PROVE  pend'[r].peers = {}
    <3>1. pend[r].peers = {}
      BY <2>4 DEF PeersPending, NewFront, InsertFront, InsertIgnored, KnownChannel,
         AddChannel, CreateTable, Kinds, SaveMap
    <3>2. CASE \/ \E a \in Addrs : NewFront(r, a)
               \/ InsertIgnored(r) \/ KnownChannel(r)
               \/ \E kind \in Kinds : CreateTable(r, kind)
      BY <3>1, <3>2 DEF NewFront, InsertIgnored, KnownChannel, CreateTable
    <3>3. CASE InsertFront(r) \/ AddChannel(r) \/ SaveMap(r)
      BY <3>1, <3>3 DEF InsertFront, AddChannel, SaveMap, Pending
    <3> QED BY <2>4, <3>2, <3>3
  <2>5. ASSUME (\E id \in { f.id : f \in fronts } : RemoveFront(r, id))
               \/ DeleteFront(r) \/ DeleteMap(r)
        PROVE  pend'[r].peers = {}
    BY <2>5 DEF PeersPending, RemoveFront, DeleteFront, DeleteMap
  <2> QED BY <1>3, <2>1, <2>2, <2>3, <2>4, <2>5 DEF Act, Registration, Removal
<1> QED BY <1>1, <1>2, <1>3, StepOfOne

\* A settled channel stays settled.
LEMMA SettledStays ==
  ASSUME TypeOK, MapPending, PeersPending, [Next]_vars, NEW c, Settled(c)
  PROVE  Settled(c)'
BY RowsStep DEF Settled, Listed

\* A commit under a channel that is not settled is by the request that added
\* it, and settles it.
LEMMA CommitSettles ==
  ASSUME TypeOK, PendingPeers, UsedSettled, NEW r \in Requests, Commit(r),
         NEW c \in AllChannels, channelId[r] = c.id, ~ Settled(c)
  PROVE  Settled(c)' /\ Held(c)
<1>1. pc[r] = "commit" /\ addr[r] \in Addrs
  BY DEF Commit, TypeOK, NewPc
<1>2. r = c.by /\ NameOf[addr[r]] = c.name
  BY DEF UsedSettled
<1>3. \A p \in PeersOf[addr[r]] : [channel |-> c.id, peer |-> p] \in pend[r].peers
  BY <1>1 DEF PendingPeers
<1>4. pend[r].peers \subseteq peers'
  BY DEF Commit, CommitRows
<1>5. Settled(c)'
  BY <1>1, <1>2, <1>3, <1>4 DEF Settled, Listed
<1> QED BY <1>1, <1>2, <1>5 DEF Held, Registering, NewPc

LEMMA UsedSettledNext ==
  ASSUME IInv, MapPending, PendingPeers, ChannelsInv, [Next]_vars
  PROVE  UsedSettled'
<1>t. TypeOK /\ ChannelRows /\ PeersPending /\ UsedSettled
  BY DEF IInv, ChannelsInv
<1>1. ASSUME NEW c \in AllChannels, NEW m \in maps', m.channel = c.id PROVE Settled(c)'
  <2>1. CASE m \in maps
    BY <1>t, <1>1, <2>1, SettledStays DEF UsedSettled
  <2>2. ASSUME NEW r \in Requests, Commit(r), m \in pend[r].maps PROVE Settled(c)'
    <3>1. channelId[r] = c.id
      BY <1>1, <2>2 DEF MapPending
    <3> QED BY <1>t, <2>2, <3>1, CommitSettles, SettledStays
  <2> QED BY <1>t, <2>1, <2>2, RowsStep
<1>2. ASSUME NEW c \in AllChannels, NEW p \in peers', p.channel = c.id PROVE Settled(c)'
  <2>1. CASE p \in peers
    BY <1>t, <1>2, <2>1, SettledStays DEF UsedSettled
  <2>2. ASSUME NEW r \in Requests, Commit(r), p \in pend[r].peers PROVE Settled(c)'
    <3>1. channelId[r] = c.id
      BY <1>t, <1>2, <2>2 DEF PeersPending
    <3> QED BY <1>t, <2>2, <3>1, CommitSettles, SettledStays
  <2> QED BY <1>t, <2>1, <2>2, RowsStep
<1>3. ASSUME NEW c \in AllChannels, NEW s \in Requests
      PROVE  /\ known'[s] = c.id => Settled(c)'
             /\ channelId'[s] = c.id /\ ~ Settled(c)' => s = c.by /\ NameOf[addr'[s]] = c.name
  <2>0. c.id \in Nat \ {0} /\ c.id < nextChannel /\ nextChannel \in Nat
    BY <1>t DEF ChannelRows, TypeOK
  <2>1. CASE Same(s)
    BY <1>t, <2>1, SettledStays DEF Same, UsedSettled
  <2>2. CASE known'[s] = 0 /\ channelId'[s] = 0
    BY <2>0, <2>2
  <2>3. ASSUME NEW a \in Addrs, NewFront(s, a)
        PROVE  /\ known'[s] = c.id => Settled(c)'
               /\ channelId'[s] # c.id
    <3>1. channelId'[s] = 0
      BY <1>t, <2>3 DEF NewFront, ChannelRows, NewPc
    <3>2. known'[s] \in QueryChannelId(a)
      BY <1>t, <2>3 DEF NewFront, TypeOK
    <3>3. ASSUME known'[s] = c.id PROVE Settled(c)
      <4>1. \E p \in peers : p.channel = c.id
        BY <2>0, <3>2, <3>3 DEF QueryChannelId
      <4> QED BY <1>t, <4>1 DEF UsedSettled
    <3> QED BY <1>t, <2>0, <3>1, <3>3, SettledStays
  <2>4. CASE Act(s) /\ ~ \E a \in Addrs : NewFront(s, a)
    <3>1. known'[s] = c.id => Settled(c)'
      BY <1>t, <2>0, <2>4, RequestMoves, SettledStays DEF UsedSettled
    <3>2. CASE channelId'[s] = channelId[s] /\ addr'[s] = addr[s]
      BY <1>t, <3>1, <3>2, SettledStays DEF UsedSettled
    <3>3. CASE KnownChannel(s)
      <4>1. channelId'[s] = known[s]
        BY <1>t, <3>3 DEF KnownChannel, TypeOK
      <4> QED BY <1>t, <3>1, <4>1, SettledStays DEF UsedSettled
    <3>4. CASE AddChannel(s)
      <4>1. channelId'[s] = nextChannel
        BY <1>t, <3>4 DEF AddChannel, TypeOK
      <4> QED BY <2>0, <3>1, <4>1
    <3>5. CASE channelId'[s] = 0
      BY <2>0, <3>1, <3>5
    <3> QED BY <1>t, <2>4, <3>2, <3>3, <3>4, <3>5, RequestMoves
  <2> QED BY <1>t, <2>1, <2>2, <2>3, <2>4, OthersOrEnd
<1>4. ASSUME NEW r \in Requests, AddChannel(r), NEW c,
             c = [id |-> nextChannel, name |-> NameOf[addr[r]], by |-> r]
      PROVE  /\ \A m \in maps' : m.channel # c.id
             /\ \A p \in peers' : p.channel # c.id
             /\ \A s \in Requests :
                  /\ known'[s] # c.id
                  /\ channelId'[s] = c.id => s = c.by /\ NameOf[addr'[s]] = c.name
  <2>1. c.id = nextChannel /\ c.by = r /\ c.name = NameOf[addr[r]]
    BY <1>4
  <2>2. UNCHANGED <<maps, peers, known, addr>>
        /\ \A s \in Requests : s # r => channelId'[s] = channelId[s]
    BY <1>t, <1>4 DEF AddChannel, committed, TypeOK
  <2>3. /\ \A m \in maps : m.channel # nextChannel
        /\ \A p \in peers : p.channel # nextChannel
        /\ \A s \in Requests : known[s] # nextChannel /\ channelId[s] # nextChannel
    BY <1>t, IdsBelow
  <2> QED BY <2>1, <2>2, <2>3
<1>5. ASSUME NEW c \in AllChannels'
      PROVE  /\ \A m \in maps' : m.channel = c.id => Settled(c)'
             /\ \A p \in peers' : p.channel = c.id => Settled(c)'
             /\ \A s \in Requests :
                  /\ known'[s] = c.id => Settled(c)'
                  /\ channelId'[s] = c.id /\ ~ Settled(c)' => s = c.by /\ NameOf[addr'[s]] = c.name
  <2>1. CASE c \in AllChannels
    BY <1>1, <1>2, <1>3, <2>1
  <2>2. CASE c \notin AllChannels
    <3>1. PICK r \in Requests : AddChannel(r)
                 /\ c = [id |-> nextChannel, name |-> NameOf[addr[r]], by |-> r]
      BY <1>t, <2>2, RowsStep
    <3> QED BY <1>4, <3>1
  <2> QED BY <2>1, <2>2
<1> QED BY <1>5 DEF UsedSettled

LEMMA OverlapsNext ==
  ASSUME TypeOK, Overlaps, [Next]_vars
  PROVE  Overlaps' /\ together \subseteq together'
<1>1. CASE \E r \in Requests, a \in Addrs : NewFront(r, a)
  BY <1>1 DEF NewFront, Goto, TypeOK, Overlaps, Registering, NewPc
<1>2. CASE together' = together /\ \A s \in Requests : Registering(s)' => Registering(s)
  BY <1>2 DEF Overlaps
<1>3. CASE ~ \E r \in Requests, a \in Addrs : NewFront(r, a)
  <2>1. together' = together
    <3>1. CASE Aside \/ Crash
      BY <3>1 DEF Aside, Crash
    <3>2. ASSUME NEW r \in Requests, Act(r) PROVE together' = together
      BY <1>3, <3>2 DEF Act, Registration, InsertFront, InsertIgnored, KnownChannel,
         AddChannel, ImplicitCommit, CreateTable, SaveMap, SavePeers, ClearMapList, Commit,
         Removal, RemoveFront, DeleteFront, DeleteMap, ClearAfterRemove, Fail, history
    <3> QED BY <3>1, <3>2, StepOfOne
  <2>2. \A s \in Requests : Registering(s)' => Registering(s)
    BY <1>3, OthersOrEnd, RequestMoves DEF Same, Registering
  <2> QED BY <1>2, <2>1, <2>2
<1> QED BY <1>1, <1>3

\* Nobody takes up a dead channel.
LEMMA DeadStays ==
  ASSUME IInv, MapPending, PendingPeers, ChannelsInv, [Next]_vars,
         NEW c \in AllChannels, Dead(c)
  PROVE  Dead(c)'
<1>t. TypeOK /\ ChannelRows /\ PeersPending /\ UsedSettled
  BY DEF IInv, ChannelsInv
<1>0. /\ c.by \in Requests /\ c.id \in Nat \ {0} /\ c.id < nextChannel
      /\ pc[c.by] \notin {"idle", "insert", "channel"}
  BY <1>t DEF TypeOK, AllChannels, Pending, ChannelRow, ChannelRows
<1>1. ~ Settled(c)'
  <2> SUFFICES ASSUME Settled(c)' PROVE FALSE
    OBVIOUS
  <2>1. PICK a \in Addrs : /\ NameOf[a] = c.name
                           /\ \A p \in PeersOf[a] : [channel |-> c.id, peer |-> p] \in peers'
    BY DEF Settled, Listed
  <2>2. PICK p \in PeersOf[a] : [channel |-> c.id, peer |-> p] \notin peers
    BY <2>1 DEF Dead, Settled, Listed
  <2> DEFINE row == [channel |-> c.id, peer |-> p]
  <2>3. row \in peers' /\ row \notin peers /\ row.channel = c.id
    BY <2>1, <2>2
  <2> HIDE DEF row
  <2>4. PICK r \in Requests : Commit(r) /\ row \in pend[r].peers
    BY <1>t, <2>3, RowsStep
  <2>5. channelId[r] = c.id
    BY <1>t, <2>3, <2>4 DEF PeersPending
  <2> QED BY <1>t, <2>4, <2>5, CommitSettles DEF Dead
<1>2. ~ Held(c)'
  <2>1. CASE Same(c.by)
    BY <2>1 DEF Dead, Held, Registering, Same
  <2>2. CASE Act(c.by)
    <3>1. ~ KnownChannel(c.by) /\ ~ AddChannel(c.by) /\ ~ \E a \in Addrs : NewFront(c.by, a)
      BY <1>0 DEF KnownChannel, AddChannel, NewFront
    <3>2. Registering(c.by)' => Registering(c.by)
      BY <1>t, <1>0, <2>2, <3>1, RequestMoves DEF Registering
    <3>3. channelId'[c.by] = channelId[c.by] \/ channelId'[c.by] = 0
      BY <1>t, <1>0, <2>2, <3>1, RequestMoves
    <3> QED BY <1>0, <3>2, <3>3 DEF Dead, Held
  <2>3. CASE ~ Registering(c.by)'
    BY <2>3 DEF Held
  <2> QED BY <1>t, <1>0, <2>1, <2>2, <2>3, OthersOrEnd
<1> QED BY <1>1, <1>2 DEF Dead

\* A request that finds no channel overlaps the one that holds a channel of the
\* name, or that channel is dead: were it settled, a common peer would name it.
LEMMA NewFrontTwins ==
  ASSUME SharedPeer, IInv, ChannelsInv, NEW s \in Requests, NEW a \in Addrs,
         NewFront(s, a), known'[s] = 0, NEW c \in AllChannels, NameOf[a] = c.name
  PROVE  <<c.by, s>> \in together' \/ Dead(c)
<1>t. TypeOK /\ ChannelRows /\ UsedSettled
  BY DEF IInv, ChannelsInv
<1>1. c.by \in Requests
  BY <1>t DEF TypeOK, AllChannels, Pending, ChannelRow
<1>2. \A p \in PeersOf[a] : ChannelsOf(p) = {}
  <2>1. 0 \in QueryChannelId(a)
    BY <1>t DEF NewFront, TypeOK
  <2>2. \A row \in peers : row.channel # 0
    BY <1>t, IdsBelow
  <2> QED BY <2>1, <2>2 DEF QueryChannelId
<1>3. ~ Settled(c)
  <2> SUFFICES ASSUME NEW b \in Addrs, NameOf[b] = c.name, Listed(c.id, b)
               PROVE  FALSE
    BY DEF Settled
  <2>1. PICK p \in PeersOf[a] : p \in PeersOf[b]
    BY DEF SharedPeer
  <2> DEFINE row == [channel |-> c.id, peer |-> p]
  <2>2. row \in peers /\ row.channel = c.id /\ row.peer = p
    BY <2>1 DEF Listed
  <2> HIDE DEF row
  <2>3. c.id \in ChannelsOf(p)
    BY <2>2 DEF ChannelsOf
  <2> QED BY <1>2, <2>1, <2>3
<1>4. Registering(c.by) => <<c.by, s>> \in together'
  BY <1>1 DEF NewFront
<1> QED BY <1>3, <1>4 DEF Dead, Held

LEMMA TwinsNext ==
  ASSUME SharedPeer, IInv, MapPending, PendingPeers, ChannelsInv, [Next]_vars
  PROVE  Twins'
<1>t. TypeOK /\ ChannelRows /\ PeersPending /\ Overlaps /\ Twins
  BY DEF IInv, ChannelsInv
<1>1. together \subseteq together' /\ Overlaps'
  BY <1>t, OverlapsNext
<1>2. \A c \in AllChannels : Dead(c) => Dead(c)'
  BY DeadStays
<1>3. \A c \in AllChannels : c.by \in Requests
  BY <1>t DEF TypeOK, AllChannels, Pending, ChannelRow
<1>4. ASSUME NEW c \in AllChannels, NEW s \in Requests,
             Registering(s)', known'[s] = 0, s # c.by, NameOf[addr'[s]] = c.name
      PROVE  <<c.by, s>> \in together' \/ Dead(c)'
  <2>1. CASE Registering(s) /\ known[s] = 0 /\ addr'[s] = addr[s]
    BY <1>t, <1>1, <1>2, <1>4, <2>1 DEF Twins
  <2>2. ASSUME NEW a \in Addrs, NewFront(s, a)
        PROVE  <<c.by, s>> \in together' \/ Dead(c)'
    <3>1. addr'[s] = a
      BY <1>t, <2>2 DEF NewFront, TypeOK
    <3> QED BY <1>2, <1>4, <2>2, <3>1, NewFrontTwins
  <2>3. CASE Same(s)
    BY <1>4, <2>1, <2>3 DEF Same, Registering
  <2>4. CASE Act(s) /\ ~ \E a \in Addrs : NewFront(s, a)
    BY <1>t, <1>4, <2>1, <2>4, RequestMoves DEF Registering
  <2> QED BY <1>t, <1>4, <2>2, <2>3, <2>4, OthersOrEnd
<1>5. ASSUME NEW r \in Requests, AddChannel(r), NEW c,
             c = [id |-> nextChannel, name |-> NameOf[addr[r]], by |-> r]
      PROVE  /\ \A s \in Requests : Registering(s)' /\ s # c.by => <<c.by, s>> \in together'
             /\ \A e \in AllChannels : e.name = c.name =>
                  \/ <<c.by, e.by>> \in together' /\ <<e.by, c.by>> \in together'
                  \/ Dead(e)'
  <2>1. c.by = r /\ c.name = NameOf[addr[r]]
    BY <1>5
  <2>2. Registering(r) /\ Registering(r)' /\ known[r] = 0 /\ pc[r] = "channel"
    BY <1>t, <1>5 DEF AddChannel, Goto, Registering, NewPc, TypeOK
  <2>3. ASSUME NEW e \in AllChannels, e.name = c.name
        PROVE  \/ <<c.by, e.by>> \in together' /\ <<e.by, c.by>> \in together'
               \/ Dead(e)'
    <3>1. e.by # r
      BY <1>t, <2>2 DEF ChannelRows
    <3>2. <<e.by, r>> \in together \/ Dead(e)
      BY <1>t, <2>1, <2>2, <2>3, <3>1 DEF Twins
    <3>3. <<e.by, r>> \in together => <<r, e.by>> \in together
      BY <1>t, <1>3 DEF Overlaps
    <3> QED BY <1>1, <1>2, <2>1, <3>2, <3>3
  <2>4. \A s \in Requests : Registering(s)' /\ s # r => <<r, s>> \in together'
    BY <1>1, <2>2 DEF Overlaps
  <2> QED BY <2>1, <2>3, <2>4
<1>6. ASSUME NEW c \in AllChannels', c \notin AllChannels
      PROVE  \E r \in Requests : AddChannel(r)
               /\ c = [id |-> nextChannel, name |-> NameOf[addr[r]], by |-> r]
  BY <1>t, <1>6, RowsStep
<1>7. \A r, q \in Requests : AddChannel(r) /\ AddChannel(q) => r = q
  BY <1>t DEF AddChannel, Goto, TypeOK
<1>8. ASSUME NEW c \in AllChannels', NEW s \in Requests,
             Registering(s)', known'[s] = 0, s # c.by, NameOf[addr'[s]] = c.name
      PROVE  <<c.by, s>> \in together' \/ Dead(c)'
  BY <1>4, <1>5, <1>6, <1>8
<1>9. ASSUME NEW c \in AllChannels', NEW e \in AllChannels', c # e, c.name = e.name
      PROVE  <<c.by, e.by>> \in together' \/ Dead(c)' \/ Dead(e)'
  <2>1. CASE c \in AllChannels /\ e \in AllChannels
    BY <1>t, <1>1, <1>2, <1>9, <2>1 DEF Twins
  <2>2. CASE c \notin AllChannels /\ e \notin AllChannels
    BY <1>6, <1>7, <1>9, <2>2
  <2>3. CASE c \in AllChannels /\ e \notin AllChannels
    BY <1>5, <1>6, <1>9, <2>3
  <2>4. CASE c \notin AllChannels /\ e \in AllChannels
    BY <1>5, <1>6, <1>9, <2>4
  <2> QED BY <2>1, <2>2, <2>3, <2>4
<1> QED BY <1>8, <1>9 DEF Twins

\* Where fronts of a channel see a common peer, two channels of the same name
\* in use were registered at the same time.
THEOREM OneChannelPerName ==
  ASSUME SharedPeer
  PROVE  Spec => []OneChannelUnlessConcurrent
<1>1. Init => MapPending /\ PendingPeers /\ ChannelsInv
  BY DEF Init, MapPending, PendingPeers, ChannelsInv, ChannelRows, PeersPending,
     UsedSettled, Overlaps, Twins, AllChannels, Nothing, Registering, NewPc
<1>2. IInv /\ MapPending /\ PendingPeers /\ ChannelsInv /\ [Next]_vars
      => (MapPending /\ PendingPeers /\ ChannelsInv)'
  <2> SUFFICES ASSUME IInv, MapPending, PendingPeers, ChannelsInv, [Next]_vars
               PROVE  (MapPending /\ PendingPeers /\ ChannelsInv)'
    OBVIOUS
  <2>1. TypeOK /\ PeersPending /\ Overlaps
    BY DEF IInv, ChannelsInv
  <2>2. MapPending' /\ PendingPeers' /\ PeersPending' /\ Overlaps'
    BY <2>1, MapPendingNext, PendingPeersNext, PeersPendingNext, OverlapsNext
  <2> QED BY <2>2, ChannelRowsNext, UsedSettledNext, TwinsNext DEF ChannelsInv
<1>3. ChannelsInv => OneChannelUnlessConcurrent
  <2> SUFFICES ASSUME ChannelsInv, NEW c \in channels, NEW e \in channels,
                      c # e, c.name = e.name,
                      { c.id, e.id } \subseteq { m.channel : m \in maps }
               PROVE  <<c.by, e.by>> \in together
    BY DEF OneChannelUnlessConcurrent
  <2>1. c \in AllChannels /\ e \in AllChannels
    BY DEF AllChannels
  <2>2. Settled(c) /\ Settled(e)
    BY <2>1 DEF ChannelsInv, UsedSettled
  <2> QED BY <2>1, <2>2 DEF ChannelsInv, Twins, Dead
<1> QED BY <1>1, <1>2, <1>3, Invariance, PTL DEF Spec

=============================================================================
