--------------------------- MODULE FrontRegistry ---------------------------
(***************************************************************************)
(* Registration and removal of fronts by concurrent web requests           *)
(* (FrontService, ChannelService, TableCreateService, PeerService), and    *)
(* the static list of map rows that FrontChannelService caches.            *)
(*                                                                         *)
(* newFront runs in a transaction: pend[r] holds the rows request r has    *)
(* inserted and not committed, which no other request sees.  CREATE TABLE  *)
(* commits what came before it.  removeFront runs in no transaction.       *)
(* Waiting for row locks is left out, except where it decides whether an   *)
(* INSERT IGNORE inserts: it only takes interleavings away.                *)
(*                                                                         *)
(* Each request is issued once, which bounds the front and channel ids.    *)
(***************************************************************************)
EXTENDS Naturals, FiniteSets

CONSTANTS
  Requests,     \* the web requests to the registry, newFront or removeFront
  Readers,      \* threads that ask for the cached list
  Addrs,        \* ip and port of the fronts there are
  Peers,        \* ip, port and name of the peers there are
  Names,        \* channel names
  NameOf,       \* the channel name each front reports
  PeersOf,      \* the peers each front reports
  LastIds,      \* what LAST_INSERT_ID() may return after an ignored insert
  Faults,       \* the kinds of fault considered: "front", "db", "crash"
  NoList,       \* null
  NoAddr

ASSUME FrontsReportAssumption ==
  /\ NameOf \in [Addrs -> Names]
  /\ PeersOf \in [Addrs -> SUBSET Peers]
  /\ NoAddr \notin Addrs

ASSUME RegistryAssumption ==
  /\ LastIds \in SUBSET Nat
  /\ Faults \in SUBSET {"front", "db", "crash"}

VARIABLES
  fronts,     \* tb_front
  channels,   \* tb_channel; "by" is history, the request that inserted it
  tables,     \* tb_block_N and tb_transaction_N
  maps,       \* tb_front_channel_map
  peers,      \* tb_peer
  nextFront, nextChannel,   \* next AUTO_INCREMENT values
  cache,      \* FrontChannelService.mapList
  pc, addr, known, frontId, channelId, pend,   \* per request
  rpc, list,  \* per reader
  together,   \* history: pairs of newFront requests that ran at the same time
  misled,     \* history: map rows inserted under a stale LAST_INSERT_ID()
  raced,      \* history: a list older than the map was cached after the clear
  strays      \* history: front ids that a removal which was cut short, or overlapped
              \* the front's registration, took from tb_front only

committed == <<fronts, channels, tables, maps, peers>>
ids       == <<nextFront, nextChannel>>
locals    == <<addr, known, frontId, channelId, pend>>
reading   == <<rpc, list>>
history   == <<together, misled, raced, strays>>
vars == <<fronts, channels, tables, maps, peers, nextFront, nextChannel, cache,
          pc, addr, known, frontId, channelId, pend, rpc, list,
          together, misled, raced, strays>>

FrontRow   == [id : Nat, addr : Addrs]
ChannelRow == [id : Nat, name : Names, by : Requests]
MapRow     == [front : Nat, channel : Nat]
PeerRow    == [channel : Nat, peer : Peers]

\* The tables of a channel.
Kinds == {"block", "trans"}

Pending == [fronts : SUBSET FrontRow, channels : SUBSET ChannelRow,
            maps : SUBSET MapRow, peers : SUBSET PeerRow]
Nothing == [fronts |-> {}, channels |-> {}, maps |-> {}, peers |-> {}]

NewPc    == {"insert", "channel", "commitDDL", "block", "trans",
             "map", "peers", "clear", "commit"}
RemovePc == {"rmFront", "rmMap", "rmClear"}

TypeOK ==
  /\ fronts \in SUBSET FrontRow
  /\ channels \in SUBSET ChannelRow
  /\ tables \in SUBSET (Nat \X Kinds)
  /\ maps \in SUBSET MapRow
  /\ peers \in SUBSET PeerRow
  /\ nextFront \in Nat \ {0} /\ nextChannel \in Nat \ {0}
  /\ cache \in {NoList} \union SUBSET MapRow
  /\ pc \in [Requests -> {"idle", "done"} \union NewPc \union RemovePc]
  /\ addr \in [Requests -> Addrs \union {NoAddr}]
  /\ \A r \in Requests : pc[r] \in NewPc => addr[r] # NoAddr
  /\ \A r \in Requests : pc[r] \in NewPc \ {"insert"} => frontId[r] # 0
  /\ known \in [Requests -> Nat]
  /\ frontId \in [Requests -> Nat]
  /\ channelId \in [Requests -> Nat]
  /\ pend \in [Requests -> Pending]
  /\ rpc \in [Readers -> {"idle", "size", "query", "assign", "reread", "again",
                          "return", "pageAssign"}]
  /\ list \in [Readers -> {NoList} \union SUBSET MapRow]
  /\ together \in SUBSET (Requests \X Requests)
  /\ misled \in SUBSET MapRow
  /\ raced \in BOOLEAN
  /\ strays \in SUBSET Nat

Init ==
  /\ fronts = {} /\ channels = {} /\ tables = {} /\ maps = {} /\ peers = {}
  /\ nextFront = 1 /\ nextChannel = 1
  /\ cache = NoList
  /\ pc = [r \in Requests |-> "idle"]
  /\ addr = [r \in Requests |-> NoAddr]
  /\ known = [r \in Requests |-> 0]
  /\ frontId = [r \in Requests |-> 0]
  /\ channelId = [r \in Requests |-> 0]
  /\ pend = [r \in Requests |-> Nothing]
  /\ rpc = [d \in Readers |-> "idle"]
  /\ list = [d \in Readers |-> NoList]
  /\ together = {} /\ misled = {} /\ raced = FALSE /\ strays = {}

Registering(r) == pc[r] \in NewPc
Running(r)     == pc[r] \in NewPc \union RemovePc

Goto(r, label) == pc' = [pc EXCEPT ![r] = label]

\* The request is over; what it had not committed is gone.
Finish(r) ==
  /\ pc' = [pc EXCEPT ![r] = "done"]
  /\ addr' = [addr EXCEPT ![r] = NoAddr]
  /\ known' = [known EXCEPT ![r] = 0]
  /\ frontId' = [frontId EXCEPT ![r] = 0]
  /\ channelId' = [channelId EXCEPT ![r] = 0]
  /\ pend' = [pend EXCEPT ![r] = Nothing]

\* What is committed of the rows pending for r, at a commit.
CommitRows(r) ==
  /\ fronts' = fronts \union pend[r].fronts
  /\ channels' = channels \union pend[r].channels
  /\ maps' = maps \union pend[r].maps
  /\ peers' = peers \union pend[r].peers

\* A list a reader has taken from the database or from the cache, and is about
\* to write to the cache.
InHand(d) == rpc[d] \in {"assign", "again", "pageAssign"}

-----------------------------------------------------------------------------
(* newFront.                                                               *)

\* A front with a row in the map has this address (FrontMapper.getCount).
Exists(a) == \E f \in fronts : f.addr = a /\ \E m \in maps : m.front = f.id

ChannelsOf(p) == { row.channel : row \in { x \in peers : x.peer = p } }

\* Mutant: the loop over the peers ends at one that is not known.
QueryChannelId_FirstOnly(a) ==
  IF \E p \in PeersOf[a] : ChannelsOf(p) = {} THEN {0}
  ELSE { c \in { row.channel : row \in peers } :
           \E p \in PeersOf[a] : ChannelsOf(p) = {c} }

\* queryChannelId: the channel of a peer already known, 0 for null.  Which of
\* the known peers comes first is up to the front.  A peer with rows of two
\* channels makes selectOne throw.
QueryChannelId(a) ==
  IF \A p \in PeersOf[a] : ChannelsOf(p) = {} THEN {0}
  ELSE { c \in { row.channel : row \in peers } :
           \E p \in PeersOf[a] : ChannelsOf(p) = {c} }

\* The front has answered and getCount is zero.  The transaction's snapshot
\* dates from that query, so queryChannelId sees the peers of this moment.
NewFront(r, a) ==
  /\ pc[r] = "idle"
  /\ ~ Exists(a)
  /\ \E c \in QueryChannelId(a) : known' = [known EXCEPT ![r] = c]
  /\ addr' = [addr EXCEPT ![r] = a]
  /\ Goto(r, "insert")
  /\ together' = together \union ({r} \X { s \in Requests : Registering(s) })
                          \union ({ s \in Requests : Registering(s) } \X {r})
  /\ UNCHANGED <<committed, ids, cache, frontId, channelId, pend, reading,
                 misled, raced, strays>>

\* FrontMapper.add, when no row has the address: it waits for other requests
\* that have inserted one.
InsertFront(r) ==
  /\ pc[r] = "insert"
  /\ \A f \in fronts : f.addr # addr[r]
  /\ \A s \in Requests : \A f \in pend[s].fronts : f.addr # addr[r]
  /\ frontId' = [frontId EXCEPT ![r] = nextFront]
  /\ nextFront' = nextFront + 1
  /\ pend' = [pend EXCEPT ![r].fronts = {[id |-> nextFront, addr |-> addr[r]]}]
  /\ Goto(r, "channel")
  /\ UNCHANGED <<committed, nextChannel, cache, addr, known, channelId,
                 reading, history>>

\* Mutant: no check of frontId.
InsertIgnored_Unchecked(r) ==
  /\ pc[r] = "insert"
  /\ \E f \in fronts : f.addr = addr[r]
  /\ \E id \in LastIds :
       /\ frontId' = [frontId EXCEPT ![r] = id]
       /\ Goto(r, "channel")
  /\ nextFront' = nextFront + 1
  /\ UNCHANGED <<committed, nextChannel, cache, addr, known, channelId, pend,
                 reading, history>>

\* FrontMapper.add ignored, because the unmapped row of a registration that
\* failed has the address.  frontId becomes the last id inserted over the same
\* pooled connection, if there is one; 0 is SAVE_FRONT_FAIL, the rollback of
\* which is Fail.
InsertIgnored(r) ==
  /\ pc[r] = "insert"
  /\ \E f \in fronts : f.addr = addr[r]
  /\ \E id \in LastIds \ {0} :
       /\ frontId' = [frontId EXCEPT ![r] = id]
       /\ Goto(r, "channel")
  /\ nextFront' = nextFront + 1
  /\ UNCHANGED <<committed, nextChannel, cache, addr, known, channelId, pend,
                 reading, history>>

\* updatePeerCount of the channel found.
KnownChannel(r) ==
  /\ pc[r] = "channel"
  /\ known[r] # 0
  /\ channelId' = [channelId EXCEPT ![r] = known[r]]
  /\ Goto(r, "map")
  /\ UNCHANGED <<committed, ids, cache, addr, known, frontId, pend, reading, history>>

\* addChannel; tb_channel has no key but its id.
AddChannel(r) ==
  /\ pc[r] = "channel"
  /\ known[r] = 0
  /\ channelId' = [channelId EXCEPT ![r] = nextChannel]
  /\ nextChannel' = nextChannel + 1
  /\ pend' = [pend EXCEPT ![r].channels =
                {[id |-> nextChannel, name |-> NameOf[addr[r]], by |-> r]}]
  /\ Goto(r, "commitDDL")
  /\ UNCHANGED <<committed, nextFront, cache, addr, known, frontId, reading, history>>

\* CREATE TABLE commits the transaction before it creates the table.
ImplicitCommit(r) ==
  /\ pc[r] = "commitDDL"
  /\ CommitRows(r)
  /\ pend' = [pend EXCEPT ![r] = Nothing]
  /\ Goto(r, "block")
  /\ UNCHANGED <<tables, ids, cache, addr, known, frontId, channelId, reading, history>>

\* Mutant: createTransHash is missing.
CreateTable_BlockOnly(r, kind) ==
  /\ pc[r] = kind
  /\ tables' = tables \union {<<channelId[r], kind>>}
  /\ Goto(r, "map")
  /\ UNCHANGED <<fronts, channels, maps, peers, ids, cache, locals, reading, history>>

\* createTbBlock, then createTransHash.
CreateTable(r, kind) ==
  /\ pc[r] = kind
  /\ tables' = tables \union {<<channelId[r], kind>>}
  /\ Goto(r, IF kind = "block" THEN "trans" ELSE "map")
  /\ UNCHANGED <<fronts, channels, maps, peers, ids, cache, locals, reading, history>>

\* newFrontChannel.
SaveMap(r) ==
  /\ pc[r] = "map"
  /\ LET row == [front |-> frontId[r], channel |-> channelId[r]]
     IN /\ pend' = [pend EXCEPT ![r].maps = {row}]
        /\ misled' = IF \E f \in fronts \union pend[r].fronts :
                          f.id = frontId[r] /\ f.addr = addr[r]
                     THEN misled ELSE misled \union {row}
  /\ Goto(r, "peers")
  /\ UNCHANGED <<committed, ids, cache, addr, known, frontId, channelId,
                 reading, together, raced, strays>>

\* Mutant: savePeerInfo returns after its first peer.
SavePeers_One(r) ==
  /\ pc[r] = "peers"
  /\ \E p \in PeersOf[addr[r]] :
       pend' = [pend EXCEPT ![r].peers = {[channel |-> channelId[r], peer |-> p]}]
  /\ Goto(r, "clear")
  /\ UNCHANGED <<committed, ids, cache, addr, known, frontId, channelId,
                 reading, history>>

\* savePeerInfo: the rows it adds; those it updates stay the same but for the
\* height.
SavePeers(r) ==
  /\ pc[r] = "peers"
  /\ pend' = [pend EXCEPT ![r].peers =
                { [channel |-> channelId[r], peer |-> p] : p \in PeersOf[addr[r]] }]
  /\ Goto(r, "clear")
  /\ UNCHANGED <<committed, ids, cache, addr, known, frontId, channelId,
                 reading, history>>

ClearMapList(r) ==
  /\ pc[r] = "clear"
  /\ cache' = NoList
  /\ Goto(r, "commit")
  /\ UNCHANGED <<committed, ids, locals, reading, history>>

\* The transaction commits when newFront has returned, after the clear.
Commit(r) ==
  /\ pc[r] = "commit"
  /\ CommitRows(r)
  /\ raced' = (raced \/ cache # NoList \/ \E d \in Readers : InHand(d))
  /\ Finish(r)
  /\ UNCHANGED <<tables, ids, cache, reading, together, misled, strays>>

-----------------------------------------------------------------------------
(* removeFront.                                                            *)

RemoveFront(r, id) ==
  /\ pc[r] = "idle"
  /\ \E f \in fronts : f.id = id
  /\ \E m \in maps : m.front = id
  /\ frontId' = [frontId EXCEPT ![r] = id]
  /\ Goto(r, "rmFront")
  /\ UNCHANGED <<committed, ids, cache, addr, known, channelId, pend, reading, history>>

DeleteFront(r) ==
  /\ pc[r] = "rmFront"
  /\ fronts' = { f \in fronts : f.id # frontId[r] }
  /\ strays' = IF \E s \in Requests : Registering(s) /\ frontId[s] = frontId[r]
               THEN strays \union {frontId[r]} ELSE strays
  /\ Goto(r, "rmMap")
  /\ UNCHANGED <<channels, tables, maps, peers, ids, cache, locals, reading,
                 together, misled, raced>>

\* Mutant: one row of the front is removed.
DeleteMap_One(r) ==
  /\ pc[r] = "rmMap"
  /\ \E row \in maps : row.front = frontId[r] /\ maps' = maps \ {row}
  /\ raced' = (raced \/ \E d \in Readers : InHand(d))
  /\ Goto(r, "rmClear")
  /\ UNCHANGED <<fronts, channels, tables, peers, ids, cache, locals, reading,
                 together, misled, strays>>

\* removeByFrontId.
DeleteMap(r) ==
  /\ pc[r] = "rmMap"
  /\ maps' = { m \in maps : m.front # frontId[r] }
  /\ raced' = (raced \/ \E d \in Readers : InHand(d))
  /\ Goto(r, "rmClear")
  /\ UNCHANGED <<fronts, channels, tables, peers, ids, cache, locals, reading,
                 together, misled, strays>>

\* Mutant: removeFront does not clear the list.
ClearAfterRemove_Kept(r) ==
  /\ pc[r] = "rmClear"
  /\ raced' = (raced \/ \E d \in Readers : InHand(d) /\ list[d] # maps)
  /\ Finish(r)
  /\ UNCHANGED <<committed, ids, cache, reading, together, misled, strays>>

ClearAfterRemove(r) ==
  /\ pc[r] = "rmClear"
  /\ cache' = NoList
  /\ raced' = (raced \/ \E d \in Readers : InHand(d) /\ list[d] # maps)
  /\ Finish(r)
  /\ UNCHANGED <<committed, ids, reading, together, misled, strays>>

-----------------------------------------------------------------------------
(* The readers of the cached list: requests to fronts and the pull task    *)
(* call getAllMap, the page of all channels calls resetMapList.            *)

Step(d, from, to) == rpc[d] = from /\ rpc' = [rpc EXCEPT ![d] = to]

Quiet == UNCHANGED <<committed, ids, pc, locals, history>>

\* getAllMap: mapList == null.
Look(d) ==
  /\ Step(d, "idle", IF cache = NoList THEN "query" ELSE "size")
  /\ UNCHANGED <<cache, list>> /\ Quiet

\* mapList.size() == 0; it throws when the list has been cleared in between.
Size(d) ==
  /\ Step(d, "size", IF cache = NoList THEN "idle"
                     ELSE IF cache = {} THEN "query" ELSE "return")
  /\ UNCHANGED <<cache, list>> /\ Quiet

\* FrontChannelMapper.getList.
Query(d) ==
  /\ Step(d, "query", "assign")
  /\ list' = [list EXCEPT ![d] = maps]
  /\ UNCHANGED cache /\ Quiet

\* resetMapList assigns the list and returns the static field, which getAllMap
\* assigns again.
Assign(d) ==
  /\ Step(d, "assign", "reread")
  /\ cache' = list[d]
  /\ UNCHANGED list /\ Quiet

Reread(d) ==
  /\ Step(d, "reread", "again")
  /\ list' = [list EXCEPT ![d] = cache]
  /\ UNCHANGED cache /\ Quiet

AssignAgain(d) ==
  /\ Step(d, "again", "return")
  /\ cache' = list[d]
  /\ UNCHANGED list /\ Quiet

Return(d) ==
  /\ Step(d, "return", "idle")
  /\ list' = [list EXCEPT ![d] = NoList]
  /\ UNCHANGED cache /\ Quiet

PageQuery(d) ==
  /\ Step(d, "idle", "pageAssign")
  /\ list' = [list EXCEPT ![d] = maps]
  /\ UNCHANGED cache /\ Quiet

PageAssign(d) ==
  /\ Step(d, "pageAssign", "idle")
  /\ cache' = list[d]
  /\ list' = [list EXCEPT ![d] = NoList]
  /\ Quiet

-----------------------------------------------------------------------------
(* Faults.                                                                 *)

\* An exception in request r: a statement fails, or the front does not answer
\* getBlockNumberFromSpecificFront.  What was not committed is rolled back.
Fail(r) ==
  /\ Running(r)
  /\ \/ "db" \in Faults /\ pc[r] \notin {"clear", "rmClear"}
     \/ "front" \in Faults /\ pc[r] = "peers"
     \/ pc[r] = "insert" /\ 0 \in LastIds /\ \E f \in fronts : f.addr = addr[r]
  /\ Finish(r)
  /\ strays' = IF pc[r] = "rmMap" THEN strays \union {frontId[r]} ELSE strays
  /\ UNCHANGED <<committed, ids, cache, reading, together, misled, raced>>

\* The process dies and is restarted.
Crash ==
  /\ "crash" \in Faults
  /\ \E r \in Requests : Running(r)
  /\ pc' = [r \in Requests |-> IF Running(r) THEN "done" ELSE pc[r]]
  /\ addr' = [r \in Requests |-> NoAddr]
  /\ known' = [r \in Requests |-> 0]
  /\ frontId' = [r \in Requests |-> 0]
  /\ channelId' = [r \in Requests |-> 0]
  /\ pend' = [r \in Requests |-> Nothing]
  /\ cache' = NoList
  /\ rpc' = [d \in Readers |-> "idle"]
  /\ list' = [d \in Readers |-> NoList]
  /\ raced' = FALSE
  /\ strays' = strays \union { frontId[r] : r \in { q \in Requests : pc[q] = "rmMap" } }
  /\ UNCHANGED <<committed, ids, together, misled>>

Registration(r) ==
  \/ \E a \in Addrs : NewFront(r, a)
  \/ InsertFront(r) \/ InsertIgnored(r) \/ KnownChannel(r) \/ AddChannel(r)
  \/ ImplicitCommit(r) \/ \E kind \in Kinds : CreateTable(r, kind)
  \/ SaveMap(r) \/ SavePeers(r) \/ ClearMapList(r) \/ Commit(r)

Removal(r) ==
  \/ \E id \in { f.id : f \in fronts } : RemoveFront(r, id)
  \/ DeleteFront(r) \/ DeleteMap(r) \/ ClearAfterRemove(r)

Reading(d) ==
  \/ Look(d) \/ Size(d) \/ Query(d) \/ Assign(d) \/ Reread(d)
  \/ AssignAgain(d) \/ Return(d) \/ PageQuery(d) \/ PageAssign(d)

Next ==
  \/ \E r \in Requests : Registration(r) \/ Removal(r) \/ Fail(r)
  \/ \E d \in Readers : Reading(d)
  \/ Crash

Spec == Init /\ [][Next]_vars

-----------------------------------------------------------------------------
(* Safety.                                                                 *)

\* A channel that a map row or a peer names is in tb_channel and has both of its
\* tables: the tasks and pages that go by the map find them, whatever failed.
ChannelsUsable ==
  \A c \in { m.channel : m \in maps } \union { p.channel : p \in peers } :
    /\ \E row \in channels : row.id = c
    /\ \A kind \in Kinds : <<c, kind>> \in tables

\* The peers of a mapped front are listed under its channel: the map row and
\* the peers commit together although CREATE TABLE split the transaction.
PeersOfMappedFronts ==
  \A m \in maps \ misled : \A f \in fronts : f.id = m.front =>
    \A p \in PeersOf[f.addr] : [channel |-> m.channel, peer |-> p] \in peers

\* A map row is left without its front, never to be removed again, only if the
\* removal was cut short or overlapped a registration of the front: removeFront
\* refuses the id once the front is gone, and the pull goes on asking it.
MapRowsHaveFronts ==
  \A m \in maps \ misled :
    \/ \E f \in fronts : f.id = m.front
    \/ \E r \in Requests : pc[r] = "rmMap" /\ frontId[r] = m.front
    \/ m.front \in strays

\* Two channels in use have the same name only if they were registered at the
\* same time: no sequence of failures, retries and removals duplicates one.
OneChannelUnlessConcurrent ==
  \A c, e \in channels :
    /\ c # e /\ c.name = e.name
    /\ { c.id, e.id } \subseteq { m.channel : m \in maps }
    => <<c.by, e.by>> \in together

\* When no request runs the cached list is the map, unless a reader held a list
\* taken before the map changed, or from the cache before it was cleared, or
\* filled the cache between newFront's clear and its commit: every other path
\* through newFront, removeFront and their failures leaves the cache right.
CacheStaleOnlyByOverlap ==
  (\A r \in Requests : ~ Running(r)) /\ cache # NoList /\ ~ raced => cache = maps

-----------------------------------------------------------------------------
(* What the code's annotation says and the code does not do.               *)

\* @Transactional on newFront: a registration that has ended has registered the
\* front with its channel, or left no row of it.
NewFrontWhole ==
  \A f \in fronts :
    \/ \E m \in maps : m.front = f.id
    \/ \E r \in Requests : Running(r) /\ frontId[r] = f.id

=============================================================================
