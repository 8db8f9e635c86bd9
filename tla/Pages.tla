------------------------------- MODULE Pages -------------------------------
(***************************************************************************)
(* The web pages that show what the scheduled tasks and the registration   *)
(* of fronts write, while they write it:                                   *)
(*   the lists of blocks and of transactions, newest first, through which  *)
(*     a visitor turns page by page until the total that the last page     *)
(*     came with is reached (BlockController, TransactionController);      *)
(*   the chart of the last seven days (TransDailyService);                 *)
(*   the list of peers, which first writes the height of each peer into    *)
(*     its row (PeerController, PeerService.syncPeerBlockNumber), against  *)
(*     savePeerInfo of a front being registered.                           *)
(*                                                                         *)
(* Pages run on the web server's threads, between any two steps of the     *)
(* scheduler's.  Every statement commits by itself, but for savePeerInfo,  *)
(* which is in newFront's transaction and holds the row until it commits.  *)
(* Each front stands for the peer it reports, as Scheduler has it.         *)
(***************************************************************************)
EXTENDS Scheduler, Integers

CONSTANTS
  PageSize,     \* the pageSize of the requests
  Dates,        \* dates on which the chart is opened
  Addresses,    \* where a peer may be: ip and port
  Apart,        \* bound: lists are not read once peers are registered
  NoPeer,       \* no row, no address
  NoHeight,     \* null
  NoFront

PeerRow == [height : Nat, addr : Addresses]

ASSUME PagesAssumption ==
  /\ PageSize \in Nat \ {0}
  /\ Dates \subseteq Int
  /\ NoPeer \notin Addresses \union PeerRow
  /\ Apart \in BOOLEAN
  /\ NoHeight \notin Nat
  /\ NoFront \notin Fronts

VARIABLES
  vpc,       \* where the visitor is
  vlist,     \* "block" or "trans", the list being read
  vchan,     \* its channel
  page,      \* pageNumber
  count,     \* totalCount of that page
  seen,      \* the numbers on the pages turned so far
  start,     \* history: the numbers in the table when the list was opened
  asOf,      \* history: ... when `count` was taken
  shown,     \* history: ... when the page was
  peers,     \* tb_peer: the row of each front's peer
  held,      \* addresses in the rows syncPeerBlockNumber has still to write back
  at,        \* the peer it is busy with
  asked,     \* latestBlockNumber
  rpc, rfront, raddr, rheight,   \* the registration under way
  saved      \* history: the address the last registration committed; NoPeer
             \* also if a page had the row in hand at that moment

list == <<vlist, vchan, page, count, seen, start, asOf, shown>>
sync == <<held, at, asked>>
reg  == <<rpc, rfront, raddr, rheight>>
rows == <<peers, saved>>
view == <<vpc, list, sync, reg, rows>>

PagesInit ==
  /\ Init
  /\ vpc = "idle" /\ vlist = "block" /\ vchan = NoChannel
  /\ page = 0 /\ count = 0 /\ seen = {} /\ start = {} /\ asOf = {} /\ shown = {}
  /\ peers = [f \in Fronts |-> NoPeer]
  /\ held = [f \in Fronts |-> NoPeer] /\ at = NoFront /\ asked = NoHeight
  /\ rpc = "idle" /\ rfront = NoFront /\ raddr = NoPeer /\ rheight = NoHeight
  /\ saved = [f \in Fronts |-> NoPeer]

-----------------------------------------------------------------------------
(* The lists of blocks and transactions.                                   *)

\* What a list is ordered by: block_number or trans_number.
Rows(l, c) == IF l = "block" THEN blocks[c] ELSE Numbers(trans[c])

\* queryCountOfBlockByMinus, queryCountOfTranByMinus; 0 also for null, which
\* the controllers treat alike.
CountByMinus(l, c) ==
  IF Rows(l, c) = {} THEN 0
  ELSE IF l = "block" THEN BlockCountByMinMax(blocks[c])
  ELSE TransCountByMinMax(trans[c])

Rank(k, table) == Cardinality({ m \in table : m > k })

\* Mutant: the first page is number 0.
PageOf_FromZero(table, p) ==
  { k \in table : p * PageSize <= Rank(k, table) /\ Rank(k, table) < (p + 1) * PageSize }

\* order by ... desc limit (p - 1) * PageSize, PageSize.
PageOf(table, p) ==
  { k \in table : (p - 1) * PageSize <= Rank(k, table) /\ Rank(k, table) < p * PageSize }

\* A page is requested: the controller's first statement counts.
CountRows(l, c, p) ==
  /\ vlist' = l /\ vchan' = c /\ page' = p
  /\ count' = CountByMinus(l, c)
  /\ asOf' = Rows(l, c)
  /\ shown' = Rows(l, c)
  /\ vpc' = IF count' > 0 THEN "list" ELSE "done"
  /\ UNCHANGED <<vars, sync, reg, rows>>

OpenList(l, c) ==
  /\ vpc = "idle"
  /\ Apart => rpc = "idle" /\ \A f \in Fronts : peers[f] = NoPeer
  /\ CountRows(l, c, 1)
  /\ start' = Rows(l, c)
  /\ seen' = {}

TurnPage ==
  /\ vpc = "turn"
  /\ CountRows(vlist, vchan, page + 1)
  /\ UNCHANGED <<start, seen>>

\* Its second statement reads the page; its total says whether there are more.
QueryList ==
  /\ vpc = "list"
  /\ seen' = seen \union PageOf(Rows(vlist, vchan), page)
  /\ shown' = Rows(vlist, vchan)
  /\ vpc' = IF page * PageSize >= count THEN "done" ELSE "turn"
  /\ UNCHANGED <<vars, vlist, vchan, page, count, start, asOf, sync, reg, rows>>

-----------------------------------------------------------------------------
(* The list of peers.                                                      *)

\* countOfPeer, and the list that syncPeerBlockNumber reads.
OpenPeers(c) ==
  /\ vpc = "idle"
  /\ \E f \in FrontsOf(c) : peers[f] # NoPeer
  /\ held' = [f \in Fronts |->
                IF f \in FrontsOf(c) /\ peers[f] # NoPeer THEN peers[f].addr ELSE NoPeer]
  /\ vpc' = "sync"
  /\ UNCHANGED <<vars, list, at, asked, reg, rows>>

\* getPeerBlockNumber; null when no front is reachable.
AskPeer(f) ==
  /\ vpc = "sync"
  /\ held[f] # NoPeer
  /\ at' = f
  /\ \/ asked' = height[f]
     \/ "front" \in Faults /\ asked' = NoHeight
  /\ vpc' = "write"
  /\ UNCHANGED <<vars, list, held, reg, rows>>

\* peerMapper.update: every column that is not null, as it was read before,
\* once no open transaction has written the row.
WritePeer ==
  /\ vpc = "write"
  /\ ~ (rpc = "saved" /\ rfront = at)
  /\ peers' = [peers EXCEPT ![at] =
                 [height |-> IF asked = NoHeight THEN @.height ELSE asked,
                  addr |-> held[at]]]
  /\ held' = [held EXCEPT ![at] = NoPeer]
  /\ at' = NoFront /\ asked' = NoHeight
  /\ vpc' = "sync"
  /\ UNCHANGED <<vars, list, reg, saved>>

\* An exception in the loop's body: the next peer.
SkipPeer ==
  /\ "front" \in Faults \/ "db" \in Faults
  /\ vpc = "write"
  /\ held' = [held EXCEPT ![at] = NoPeer]
  /\ at' = NoFront /\ asked' = NoHeight
  /\ vpc' = "sync"
  /\ UNCHANGED <<vars, list, reg, rows>>

\* The page is there, or the visitor goes away, gets an exception, or the
\* process is restarted.
Leave ==
  /\ vpc # "idle"
  /\ vpc' = "idle"
  /\ vlist' = "block" /\ vchan' = NoChannel /\ page' = 0 /\ count' = 0
  /\ seen' = {} /\ start' = {} /\ asOf' = {} /\ shown' = {}
  /\ held' = [f \in Fronts |-> NoPeer] /\ at' = NoFront /\ asked' = NoHeight
  /\ UNCHANGED <<vars, reg, rows>>

-----------------------------------------------------------------------------
(* The registration of a front whose peer may be known already.            *)

\* newFront reads the peer list, where the peer may have a new address, and
\* savePeerInfo asks for the peer's height.
Report(f, a) ==
  /\ rpc = "idle"
  /\ Apart => vpc \in {"idle", "sync", "write"}
  /\ rfront' = f
  /\ raddr' = a
  /\ rheight' = height[f]
  /\ rpc' = "asked"
  /\ UNCHANGED <<vars, vpc, list, sync, rows>>

\* The row is added or updated, and from now on locked.
SavePeer ==
  /\ rpc = "asked"
  /\ rpc' = "saved"
  /\ UNCHANGED <<vars, vpc, list, sync, rfront, raddr, rheight, rows>>

\* Mutant: the row of a known peer keeps its address.
SavedRow_AddressKept(row) ==
  [height |-> rheight, addr |-> IF row = NoPeer THEN raddr ELSE row.addr]

\* What savePeerInfo leaves of a row: it sets all three columns.
SavedRow(row) == [height |-> rheight, addr |-> raddr]

EndRegistration ==
  /\ rpc' = "idle"
  /\ rfront' = NoFront /\ raddr' = NoPeer /\ rheight' = NoHeight

CommitPeer ==
  /\ rpc = "saved"
  /\ peers' = [peers EXCEPT ![rfront] = SavedRow(@)]
  /\ saved' = [saved EXCEPT ![rfront] = IF held[rfront] = NoPeer THEN raddr ELSE NoPeer]
  /\ EndRegistration
  /\ UNCHANGED <<vars, vpc, list, sync>>

\* An exception or a restart rolls the transaction back.
RollBack ==
  /\ Faults # {}
  /\ rpc # "idle"
  /\ EndRegistration
  /\ UNCHANGED <<vars, vpc, list, sync, rows>>

Visit ==
  \/ \E l \in {"block", "trans"}, c \in Channels : OpenList(l, c)
  \/ TurnPage \/ QueryList
  \/ \E c \in Channels : OpenPeers(c)
  \/ \E f \in Fronts : AskPeer(f)
  \/ WritePeer \/ SkipPeer \/ Leave

Register ==
  \/ \E f \in Fronts, a \in Addresses : Report(f, a)
  \/ SavePeer \/ CommitPeer \/ RollBack

PagesNext ==
  \/ Next /\ UNCHANGED view
  \/ Visit
  \/ Register

PagesSpec == PagesInit /\ [][PagesNext]_<<vars, view>>

-----------------------------------------------------------------------------
(* The chart.                                                              *)

COUNT_DATE_OF_WEEK == 7

\* Mutant: the day seven days ago is left out.
ListSevenDayOfTransDaily_Shorter(table, curdate) ==
  { <<d, Cardinality(table[d])>> :
      d \in { e \in Days : table[e] # {} /\ e > curdate - 7 } }

\* The rows of a channel with trans_day >= DATE_SUB(CURDATE(), INTERVAL 7 DAY).
ListSevenDayOfTransDaily(table, curdate) ==
  { <<d, Cardinality(table[d])>> :
      d \in { e \in Days : table[e] # {} /\ e >= curdate - 7 } }

\* TimeUtils.getDateList
DateList(first, listSize, addFlag) == { first + i * addFlag : i \in 0..(listSize - 1) }

\* listSevenDayOfTrans: an empty entry for each date that has no row.
ListSevenDayOfTrans(table, curdate, today) ==
  LET found == ListSevenDayOfTransDaily(table, curdate)
      dates == DateList(today, COUNT_DATE_OF_WEEK, -1)
  IN found \union { <<d, 0>> : d \in { e \in dates : \A x \in found : x[1] # e } }

-----------------------------------------------------------------------------
(* Properties.                                                             *)

\* Whoever turns the pages of a list passes over nothing: of the numbers there
\* when the list was opened, and there still, none is missing above one that was
\* on a page, whatever is pulled or deleted between two pages
\* (BlockController.queryBlockList, TransactionController.queryTransList).
SeenWithoutGap ==
  vpc \in {"list", "turn", "done"} =>
    \A k \in start \intersect Rows(vlist, vchan) : \A m \in seen : m < k => k \in seen

\* When the total of the last page is reached, no more is missing than was added
\* between counting and reading that page; of transactions, whose count by minus
\* is one short, one more.
MissedOnlyByGrowth ==
  vpc = "done" =>
    Cardinality((start \intersect shown) \ seen)
      <= Cardinality(shown \ asOf) + (IF vlist = "trans" THEN 1 ELSE 0)

\* Each of the last seven days is on the chart once, with what was stored of it,
\* although the database's date and the server's may differ by a day
\* (TransDailyService.listSevenDayOfTrans).
ChartTrue ==
  \A c \in Channels : \A today \in Dates : \A curdate \in (today - 1)..(today + 1) :
    LET week == (today - 6)..today
    IN { x \in ListSevenDayOfTrans(daily[c], curdate, today) : x[1] \in week }
         = { <<d, IF d \in Days THEN Cardinality(daily[c][d]) ELSE 0>> : d \in week }

\* A peer's row has the address of its last registration, unless a page that is
\* listing the peers held the old row when that registration committed: update
\* writes back every column it read (PeerService.syncPeerBlockNumber).
AddressLostOnlyByOverlap ==
  \A f \in Fronts : saved[f] # NoPeer => peers[f] # NoPeer /\ peers[f].addr = saved[f]

=============================================================================
