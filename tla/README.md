# Verification of fabric-node-manager

TLA+ models of the WeBASE fabric node manager (`src/`), checked with TLC, and
theorems about them proved with TLAPS. Paths below are relative to
`src/src/main/java/com/webank/fabric/node/manager/` unless they start with
`src/`; mapper XML is in `src/src/main/resources/mapper/`.

## 1. The system

The node manager is a Spring Boot web application with a MySQL database. It
registers *fronts* (one HTTP service per peer of a Fabric chain), mirrors blocks
and transactions of each *channel* into tables, counts transactions per day, and
offers chain code and account management to a web console. It talks to the chain
only through the fronts.

| component | state | operations | interacts with |
|---|---|---|---|
| Pull (`scheduler/PullBlockInfoTask`, `api/block/BlockService`, `api/transaction/TransactionService`) | `tb_block_N`, `tb_transaction_N` of each channel N | every 30 s after the previous run: for each row of the front-channel list, copy blocks until the height is reached | map cache (the list), fronts (heights, blocks), the two tables |
| Statistics (`scheduler/StatisticsTransDailyTask`, `TransDailyService`) | `tb_trans_daily` | every minute: per channel, count the transactions above the watermark by day, REPLACE the days' rows | `tb_transaction_N` |
| Deletion (`scheduler/DeleteInfoTask`) | none of its own | every minute: per channel, delete blocks, then counted transactions, down to the retention limits | all three tables |
| Map cache (`api/channel/FrontChannelService`) | a static list of `tb_front_channel_map` rows | get (fill when empty), reset, clear | read by every request to a front and by the pull; cleared by the registry |
| Registry (`api/front/FrontService`, `api/channel/ChannelService`, `tablecreate/TableCreateService`, `api/peer/PeerService`) | `tb_front`, `tb_channel`, `tb_front_channel_map`, `tb_peer`, the per-channel tables | newFront, removeFront | fronts, map cache |
| Requests (`api/front/FrontRestManager`) | none | shuffle the fronts of a channel, ask one, go on to the next when one is unreachable | map cache, fronts |
| Chain code (`api/chaincode/ChainCodeService`) | `tb_chain_code` | save, update, delete, deploy, send transaction | requests |
| Accounts, tokens (`api/account`, `token`, `security`) | `tb_account_info`, `tb_token` | login, account and password changes, token creation, renewal, expiry | Spring Security |
| Pages (`api/block/BlockController`, `api/transaction/TransactionController`, `api/peer/PeerController`, `TransDailyService`) | none of their own; listing peers writes `tb_peer` | lists of blocks, transactions and peers, page by page; chart of seven days; overview | the tables of the tasks and of the registry, fronts (heights of peers) |
| Other controllers, configuration, pictures | none | validation, further lists | the services |

What is hard about it:

- **Concurrency.** Web requests run in parallel with each other and with the
  scheduler; services check, then act, without locks. The scheduled tasks
  themselves do not overlap: Spring's default scheduler has one thread, and
  `@Async("mgrAsyncExecutor")` has no effect because nothing enables it. So a
  slow pull delays statistics and deletion.
- **Partial failure.** `saveBLockInfo` is called on `this`, so its
  `@Transactional` does nothing: every statement of the tasks commits by itself
  and a crash, a failing statement or a silent front may come between any two.
- **Stale answers.** Each request picks a random front of the channel; two
  requests of one loop may be answered by fronts that are not equally far.
- **Ordering.** Transactions are deleted by number, counted by day above a
  watermark, and inserted in block order; the three must not get in each other's
  way.
- **Retries.** Unreachable fronts are skipped; POSTs are sent again.

What makes each part correct:

- *Pull and deletion*: a block table is always a gapless window of the chain that
  follows it and loses only its oldest blocks; transactions are stored for stored
  blocks, in chain order, and all of them unless the saving was interrupted.
- *Statistics*: each transaction is counted once; none is skipped or deleted
  before it was counted.
- *Tasks together*: each gets its turn; the tables catch up.
- *Map cache, registry*: the cache converges to the table; a mapped channel has
  its tables; a front or channel is registered once.
- *Chain code*: a deployed chain code stays deployed and unchanged.
- *Pages*: a visitor who turns the pages sees every row that stays; the chart shows
  each day once; listing peers damages no row.
- *Accounts*: no change of an account row undoes another; a status goes with its
  password; a token lives until its logout, its expiry or the next login.

The hazards, each at its line, are listed in `PROJECT.json`.

## 2. Modules

| module | what it is |
|---|---|
| `Mappers` | the SQL statements of `BlockMapper.xml`, `TransHashMapper.xml`, `TransDailyMapper.xml` and the overview of `ChannelMapper.xml` as pure operators on sets of rows |
| `Scheduler` | the three scheduled tasks on their thread, the tables of every channel, the fronts' heights, the faults; all properties |
| `ChainMirror` | the abstract specification of a block table: a window that follows what the fronts publish |
| `TransLife` | the abstract specification of a transaction number's life: given out, stored, counted once or dropped by a run that was cut short, deleted oldest first |
| `SchedulerProofs` | the inductive invariant of `Scheduler` and the theorems about blocks |
| `StatisticsProofs` | on top of it, the watermark, what is counted and deleted, and that `Scheduler` implements `TransLife` |
| `LedgerProofs` | on top of that, the stored rows and the blocks they were read from, and which transactions a block lacks |
| `MCScheduler` | fronts and ledgers for TLC |
| `FrontRegistry` | concurrent `newFront` and `removeFront` requests, their transactions, and the cached list with its readers |
| `FrontRegistryProofs` | the inductive invariant of `FrontRegistry` and the first theorems |
| `RegistrationProofs` | on top of it, the cached list, map rows and their fronts and peers, fronts that lose their map row, doubled channels |
| `MCFrontRegistry` | fronts and peers for TLC |
| `ChainCode` | concurrent requests for the chain codes of a channel, and the POST that goes from front to front |
| `ChainCodeProofs` | the inductive invariant of `ChainCode` and the theorems |
| `MCChainCode` | codes for TLC |
| `Account` | concurrent logins, logouts and requests that carry a token and change accounts |
| `AccountProofs` | the inductive invariant of `Account` and the theorems |
| `MCAccount` | accounts for TLC |
| `Pages` | extends `Scheduler` by visitors of the web pages and by registrations that write the peers' rows |
| `PagesProofs` | theorems about `Pages`, on top of `StatisticsProofs` |
| `MCPages` | a front and a ledger for TLC |

The components meet in few places. `Scheduler` takes the channels and the list of
fronts as constants; how both come about, and that a channel in use has its tables,
is `FrontRegistry`. `ChainCode` takes the number of fronts of its channel as a
constant. `Account` stands apart: what an account may do is decided before a request
reaches the others. No component writes another's tables, but for the list of peers,
which writes rows of the registry. `Pages` composes the tasks with those who read and
write the same tables meanwhile; it adds steps between the tasks' steps and takes none
away (theorem `TasksUndisturbed`).

### Scheduler

`pc` is the program counter of the scheduler thread, `chan`, `top`, `next`,
`rest`, `pending` its local variables (`channelId`, `maxChainBlock`,
`nextBlock`, the envelopes still to be saved, the days still to be saved). A step
makes at most one request to a front or one database write, so faults and other
fronts' progress come between any two of them.

| action | code |
|---|---|
| `StartPull`, `PullRow`, `EndTask` | `PullBlockInfoTask.pullBlockStart`: one `pullBlockByChannelId` per cached row |
| `RequestHeight`, `EnterLoop`, `LoopTest` | `pullBlockByChannelId` up to the first test of the loop condition |
| `InitBlock`, `NextBlockNumbers` | `getNextBlockNumber`; a set, since an empty table makes it ask some front |
| `Fetch`, `FetchBehind`, `Unanswered` | `getBlockByNumber`: a front that has the block, one that does not (error code, exception), none reachable (null, "jump over") |
| `AddBlock` | `addBlockInfo` |
| `SaveTrans`, `BlockSaved` | the loop of `saveBLockInfo`, one envelope at a time |
| `Again`, `RefreshHeight` | the end of the loop body |
| `StartStatistics`, `QueryLatest`, `SaveDay` | `StatisticsTransDailyTask` |
| `StartDelete`, `DeleteByChannelId`, `RemoveBlocks`, `RemoveTrans` | `DeleteInfoTask`, one DELETE per step |
| `PullFails`, `StatisticsFails`, `DeleteFails`, `Crash` | an exception where the code lets one end the row, the task or the loop; the end of the process |
| `Grow`, `Settle` | the chain; the end of the faults (external; `Settle` only where `FaultsCease`) |

A trans table keeps the AUTO_INCREMENT number of each row; an ignored insert uses
up a number, as InnoDB does. A row of `tb_trans_daily` is modelled by the set of
numbers it counts: `trans_count` is its cardinality and `trans_number` its
maximum. `torn`, `counted` and `lost` are history variables which no guard reads.

Assumed of the environment: the number a front reports is the number of blocks in
its ledger (the code compares it with `>` against the next block number); a front
asked for a block it lacks answers with an error code; all fronts of a channel
hold the same chain; the hashes of different blocks differ (`tb_block_N` has the
hash as primary key); the statistics query, which orders by a column it does not
group by, is allowed by the server's `sql_mode` and yields the days in ascending
order. The list of fronts does not change during a run of `Scheduler`; its
changes are the subject of `FrontRegistry`.

### FrontRegistry

Each web request `r` has a program counter `pc[r]` and the locals `addr`, `known`
(`channelId` as `queryChannelId` found it, 0 for null), `frontId` and `channelId`.
`pend[r]` holds the rows it has inserted and not committed. Each reader `d` of the
static `mapList` (`cache`) has its own `rpc[d]` and the `list` in its hand: every
access to the static field is a step.

| action | code |
|---|---|
| `NewFront`, `Exists`, `QueryChannelId` | `FrontService.newFront` up to the insert: the answers of the front, `getCount`, `queryChannelId` |
| `InsertFront`, `InsertIgnored` | `FrontMapper.add`: INSERT IGNORE and the `LAST_INSERT_ID()` after it, and the check of the id |
| `KnownChannel`, `AddChannel` | the branch on `queryChannelId`'s result: `updatePeerCount`, or `addChannel` |
| `ImplicitCommit`, `CreateTable` | `newTableByChannelId`: the commit before the first CREATE TABLE, then each of the two |
| `SaveMap`, `SavePeers`, `ClearMapList`, `Commit` | the rest of `newFront`, and the end of its transaction |
| `RemoveFront`, `DeleteFront`, `DeleteMap`, `ClearAfterRemove` | `removeFront`, which has no transaction |
| `Look`, `Size`, `Query`, `Assign`, `Reread`, `AssignAgain`, `Return` | `getAllMap` with `resetMapList` inside it |
| `PageQuery`, `PageAssign` | `resetMapList` called by `ChannelController.getAllChannel` |
| `Fail`, `Crash` | an exception, which rolls back what is pending; the end of the process, which also empties the cache |

`together`, `misled`, `raced`, `strays` and the `by` of a channel row are history which
no guard reads. `strays` holds the fronts whose removal was cut short after its first
DELETE, or took place while a registration had the front in hand.

Assumed of MySQL: the isolation level is the default, REPEATABLE READ, so the
snapshot of a transaction dates from its first query, `getCount`, and
`queryChannelId` sees the peers of that moment; CREATE TABLE commits the open
transaction before it starts; `LAST_INSERT_ID()` after an ignored insert is the
last id the pooled connection produced, of whatever table, one of `LastIds`. A
request that waits for a row lock is not enabled or is treated as not waiting,
which only adds interleavings. A peer's ip, port and name are one value, and the
copies of the front's ip and port in a map row are left out. Fronts report the same
channel name and peers each time they are asked.

### ChainCode

One channel: every check asks for the channel of the request and both unique keys
start with it, so rows of other channels neither help nor hinder. A submitted code
is a model value; `KeyOf` gives its name and version. What a request submits is not
empty (empty strings leave a column as it is). Fronts are counted and not named,
since `buildFrontUrl` takes them in random order.

| action | code |
|---|---|
| `NewChainCode`, `AddRow` | `newChainCode`: check, insert |
| `UpdateChainCode`, `UpdateName`, `UpdateRow` | `updateChainCode`: two checks, then the row that the first of them read is written whole |
| `DeleteChainCode`, `RemoveRow` | `deleteChainCode` |
| `DeployChainCode`, `DeployName`, `SaveDeployed` | `deployChainCode` before and after its POST |
| `SendTransaction` | `sendTransaction` before its POST |
| `TryFront`, `Answered`, `NextFront`, `NoneLeft`, `SentAgain` | `restTemplateExchange`, and the retry handler of the HTTP client |
| `Rejected` | the checks and unique keys |
| `Fail`, `Crash` | any exception; the end of the process |

A front may carry out what it is asked (`carried`) and answer too late or not at
all. `deployRestTemplate` has a client of its own, without the retry handler.
`carried`, `together` and `deployed` are history. A chain code's id is its name
and version, as the fronts name it. What a front still does with a request after
the node manager has died is left out.

### Account

A web request is one of three things: a login, a logout, or a request that carries
a token (`held`) and, once its account (`who`) is known, may change an account
(`target`). Each statement on a table is a step.

| action | code |
|---|---|
| `Login`, `DropTokens`, `CreateToken` | `loadUserByUsername` with the right password, then `LoginSuccessHandler` |
| `Logout` | `JsonLogoutSuccessHandler`, whose filter comes first and asks for no login |
| `Authenticate`, `DropExpired`, `UpdateExpireTime`, `LoadAccount` | `TokenAuthenticationProvider.authenticate` with `getValueFromToken` in it |
| `CurrentAccount` | `getCurrentAccount`, which calls `getValueFromToken` again |
| `AddAccountRow`, `InsertAccountRow` | `addAccountRow`: checks, insert |
| `UpdateAccountRow`, `SaveUpdate` (with `UpdatedRow`) | `updateAccountRow` up to the query of the row, then its UPDATE; unlike `addAccountRow` it does not check that the role exists |
| `UpdatePassword`, `SavePassword` | `updatePassword` likewise |
| `DeleteAccountRow`, `RemoveAccountRow` | `deleteAccountRow`: check, delete |
| `Tick`, `Fail`, `Crash` | the clock; a check or statement that fails; the end of the process |

`DeleteToken` is the one statement that deletes tokens: by number, by account, and
always what has expired. Renewing a token that is gone updates no row.

Tokens are SHA digests of a random UUID: each is a number not drawn before. The
clocks of the JVM (`expire_time`, `isAfter`) and of MySQL (`NOW()`) agree.
A password stands for its hash. `accountPwd` of a submitted account is `@NotBlank`,
so that an update always sets a password. `login_fail_time` and the description
are left out: `AccountService.login`, which counts failures, has no caller. So are
the tokens of the verification code pictures, which no code reads. Requests are not told
apart by role. `askedPwd`, `askedRole`, `chosen`, `overlapped`, `doubled`, `given`
and `dead` are history.

### Pages

`vpc` is where the visitor is: in a list of blocks or transactions (`vlist`, `vchan`,
`page`, `count`), or while the list of peers is being made (`held`, `at`, `asked`).
`rpc` and `rfront`, `raddr`, `rheight` are a registration. All steps of `Scheduler` come
between any two of these.

| action | code |
|---|---|
| `OpenList`, `TurnPage` (with `CountRows`) | the first statement of `queryBlockList`, `queryTransList`: the count by minus, and whether it is above zero |
| `QueryList` (with `PageOf`) | the second: `order by ... desc limit (pageNumber - 1) * pageSize, pageSize` |
| `OpenPeers` | `queryPeerList` up to the list that `syncPeerBlockNumber` reads |
| `AskPeer`, `WritePeer`, `SkipPeer` | the body of its loop: a front's answer or null, the update with every column that is not null, the exception |
| `Report`, `SavePeer`, `CommitPeer`, `RollBack` | the part of `newFront` that writes a peer's row: what the front reports, the write that locks the row, the end of the transaction |
| `Leave` | the page is there, the visitor is gone, an exception, a restart |
| `ListSevenDayOfTrans` with `ListSevenDayOfTransDaily`, `DateList` | the chart: query, list of dates, merge |

The controllers answer one page; that the visitor asks for the next until the pages reach
`totalCount` is what the web console does (external). A list is a set of numbers, and
the rank of a number is its offset. A count of null, which the controllers treat as 0, is
0. A page with a hash, a block number or a transaction id in its query is not modelled. A
peer's ip and port are one value, and are not empty. A row of the chart is a date and a count, 0 for the empty entry
that the merge adds. The dates of the JVM (`LocalDate.now()`) and of MySQL (`CURDATE()`) may
differ by a day. `start`, `asOf`, `shown` and `saved` are history. Where `saved` is
`NoPeer` the property about addresses says nothing: no registration yet, or the
last one committed while a page held the row.

## 3. Runs

| run | asks | instance |
|---|---|---|
| `SchedulerPull` | is a block table a gapless window of the chain, are transactions complete and in order | 1 channel, 2 fronts, 4 blocks, an envelope that is no transaction, a transaction id that occurs twice, 1 block and 1 transaction retained, deletion span 1, all faults (1.3 million states) |
| `SchedulerStatistics` | does every transaction number live once: counted once, and before it is deleted | 2 channels, client days that do not follow the chain (even within a block), retention 1, database faults and crashes (646 000 states) |
| `SchedulerLiveness` | do the tasks catch up once faults cease | 1 channel, 2 fronts, 3 blocks, crashes and silent fronts (39 000 states) |
| `SchedulerTornBlock` | is a block saved with its transactions or not at all, as `@Transactional` says? No | database errors |
| `SchedulerDailyCount` | does a day's row count the transactions of the day? No | no faults |
| `SchedulerTransCount` | is the count by minus a count of rows? No | no faults |
| `FrontRegistry` | does every mixture of registrations, removals, failures and restarts leave usable channels, and is the cache right afterwards | 3 requests, 1 reader, 2 fronts of one channel of which the second sees a peer more, all faults (1.6 million states up to symmetry of the requests) |
| `FrontRegistryWhole` | is a front registered with its channel or not at all, as `@Transactional` says? No | 1 reader and 2 requests, silent fronts |
| `ChainCode` | what do overlapping requests do to a deployment, how often is a request carried out, and does every request end | 3 requests, 2 fronts, 2 names, one chain code saved before, all faults (558 000 states) |
| `ChainCodeOverlap` | is a deployed chain code never updated or deleted? No | 2 requests |
| `Account` | what do overlapping requests do to an account and to its token | 3 requests, 2 accounts with a token each, 2 passwords, a role and a role id of no role, tokens that live one tick of three, all faults (2.4 million states up to symmetry of the requests) |
| `Pages` | what do visitors see of tables that are being filled, counted and emptied, and what does listing peers do to a registration | 1 channel, 1 front, 4 blocks with an id that occurs twice, pages of one row, retention 1, two addresses, silent fronts (2.2 million states) |

Properties of the passing runs of `Scheduler`, and what it would take to break them:

- `TypeOK`: one per module; not vacuous here, since the first block of an empty
  table is computed by a subtraction.
- `BlocksContiguous`: paging takes `max - min + 1` for the number of rows. Broken by a
  deletion that removes from the wrong side, by a
  pull that restarts from a height and not from the table.
- `TransOfRecordedBlocks`: `addBlockInfo` silently declines a block that is not
  the next one, and its caller stores the transactions anyway. It never happens,
  because no other task adds to the table during the loop.
- `TransInBlockOrder`: `trans_number` follows the chain across crashes, ignored
  inserts and deletions.
- `OnlyTornBlocksIncomplete`: a stored block lacks transactions only if its
  saving was interrupted, or if they were deleted: then they come before every
  stored row in the ledger. That an interrupted block does lack some is the finding
  `BlockSavedWhole`. A repeated transaction id counts for its first block in the
  table, since the second insert is ignored.
- `MirrorsChain`: `Scheduler` implements `ChainMirror`.
- `NoDoubleCount`, `NoneSkipped`, `NoneSkippedInOrder`: the watermark is the maximum
  over all days of a channel, and days are saved one by
  one. A run that is cut short may have raised it past transactions of a later
  day it has not saved. They are then never counted (`lost`). With days in chain
  order that cannot happen; with clients' timestamps out of order it can, and it
  is the only way to skip one.
- `LivesOnce`: `Scheduler` implements `TransLife`. A step of a task takes the numbers
  of one channel one step further in their lives: what is counted was stored and
  never counted before, what is deleted was counted or dropped, lies at least
  `TransRetainMax` below a stored number, and below all that stay. Broken when
  deletion does not look at the watermark, or counts rows from the wrong end.
- `OverviewShowsBlock`: the overview joins the transaction table on the watermark's
  row. Deletion may take that row away, but only when `TransRetainMax` newer ones
  have come in since the last count.
- `CatchesUp`, `EveryTransCounted`, `RetentionReached`: the tasks share a thread.

Of `FrontRegistry`:

- `TypeOK`: a request past its insert has an address and a front id that is not 0;
  broken when the check of the id is dropped.
- `ChannelsUsable`: no map row and no peer names a channel without its row and its
  two tables, although CREATE TABLE splits the transaction. Broken by creating
  tables after the map row, or by leaving one out.
- `PeersOfMappedFronts`: map row and peers become visible together. Map rows that a
  stale `LAST_INSERT_ID()` gave a front of another address (`misled`) are excluded.
- `MapRowsHaveFronts`: a map row does not outlive its front. It does after a failure or
  restart between the two DELETEs of a removal, and when the front was removed while
  a second registration of its address had it in hand and committed its map row
  afterwards; then `removeFront` refuses the id for ever. Each of these is in the run, and
  the property says that there is no further way. Broken by a removal that deletes
  one of several map rows of the front.
- `OneChannelUnlessConcurrent`: retries and failures do not double a channel; only
  two registrations at the same time do. The code has nothing that prevents this.
- `CacheStaleOnlyByOverlap`: an idle system has the right cache unless a reader had
  a list in hand when the map changed or the cache was cleared, or filled the cache
  between `newFront`'s clear and its commit (`raced`). Each of these is possible in
  the code and leaves a stale list until the next clear; the property says there
  is no further way.

Of `ChainCode`:

- `DeployedRowOnChain`: a row marked deployed shows a code that some front carried
  out. An update that overlaps a deployment writes back the status it read, and it
  is this that keeps the property: it takes the mark away when it changes the
  code. The mutant that writes the submitted columns only breaks it.
- `DeploymentStays`, `DeployedOnce`: a deployment is lost or repeated only if another
  request for the row overlapped it. The window is as long as the POST: 30 s for
  every front that is silent.
- `CarriedOutAtMost`: a deployment that fronts carry out and do not answer is carried
  out at most once on each front; a transaction once more than the HTTP client repeats
  it. Broken when the round does not take out the front it has asked.
- `EveryRequestEnds`: the round over the fronts ends.
- `TypeOK`: fronts and retries are not counted below zero.

Of `Account`:

- `NormalMeansOwnPassword`: status 2 stands only with a password that its owner
  submitted. Rows are written whole and out of date, a row of somebody else's
  making included, but the status is always the one that goes with the password
  in the same row. Broken when `updateAccountRow` leaves the status as it is.
- `ChangesLostOnlyByOverlap`: the row shows what was last asked for with success,
  unless two requests were changing the account at the same time. Two such
  requests may undo each other's password, role or status; nothing prevents it.
- `OneTokenUnlessOverlap`: two logins at the same time leave two tokens, nothing else
  does: not a deleted and re-created account, not a renewal.
- `LoginTokenWorks`: the token that a login answered is there until it is logged out,
  found to have expired, or replaced. A token that one request found expired while
  another, a moment earlier, found it valid and renewed it is deleted all the same;
  it counts as found to have expired (`dead`).
- `TypeOK`: a request that will write an account has read a row of it.

Of `Pages`:

- `SeenWithoutGap`: pages are counted by offset while blocks are added above and
  deleted below, between the pages and between the two statements of each. Rows
  shift towards later pages only, so that a row may be seen twice but none that
  stays is passed over. Broken by an offset that starts one page too far, and it
  would be by a deletion from the top.
- `MissedOnlyByGrowth`: how many are missing below the last page. The total comes
  from the count by minus, which for blocks is exact because there are no gaps, and for
  transactions one short: the oldest stays unseen. Beyond that only as many are missing
  as were added after counting.
- `ChartTrue`: the query reaches a day further back than the list of dates it is
  merged with, and its today is the database's. A day must be there once, with its
  row's count if it has a row.
- `AddressLostOnlyByOverlap`: `syncPeerBlockNumber` writes back the address it read
  before it asked the fronts. It undoes a registration that committed meanwhile;
  nothing else does.

**Bounds.** Three or four blocks are enough to have a first block above zero (the
limit `PullBlockInitCnts` is 2), a block added to a filled table, one deleted and
one added after a deletion; retention and span of 1 and 0 make deletion loop
several times over so few rows; two fronts give every pair of different heights.
The heights are bounded by the length of the ledger. Nothing else is bounded:
`trans_number` is limited by the ledger because a block is saved only once.

For `FrontRegistry` three requests are a registration that fails, its retry and
a concurrent one, or a removal and two registrations; two fronts of the same
channel are needed for the branch where the channel is known, and the peer that
only one of them sees for that where it is found by another peer. `LastIds` is 0
(no insert over the connection yet) or the id of the other front. Each request
is issued once, which bounds the ids; readers go on for ever. For `ChainCode`
three requests are a deployment, one that overlaps it and one after both; two
fronts and one retry are the least where a POST goes on, ends at the last front
and is sent again. The saved code and the two names make both a free and a taken
name. Every request is issued once, so both runs end: `CHECK_DEADLOCK` is off
for `ChainCode`. The `FrontRegistry` run uses the symmetry of the requests;
`ChainCode` does not, because it checks liveness.

For `Account` three requests are two that overlap and a third that logs in, deletes
the account or reads what they left; one account changing itself and one changing
the other need two. A token is valid for one tick, and the clock makes two: time
to be renewed and to expire after that, and to be found valid in the very tick in
which the delete statement already takes it. Requests are issued once, so the
run ends, and it uses their symmetry.

For `Pages` four blocks let the tables grow above and shrink below a list that is being
turned; with one row per page every shift crosses a page. The chart is opened on the day
of the last transactions, and six and seven days later, when the days with a row are on
the edge of the week. Two addresses are an old and a new one. `Apart` is a bound on
interleavings: the lists and the peers have no state in common, so a list is not opened
once a peer is registered, and no registration begins while one is read; the tasks
interleave with both. The proofs need no such bound. Database failures and restarts of
visitors and registrations are in `Leave`, `SkipPeer` and `RollBack`; those of the tasks
are the matter of the runs of `Scheduler`.

**Fairness.** The thread goes on while it can (weak fairness of `ThreadStep`).
Spring's scheduler takes tasks from a queue ordered by due time, so an overdue
task is run before one that becomes due later: strong fairness of each start.
`buildFrontUrl` shuffles the fronts at random, so a front of the channel is
asked again and again: strong fairness of the requests of each front. Liveness
is asserted under `ReliableSpec`: faults happen for as long as they like, but at
some time the environment takes the step `Settle`, after which there is none. It
cannot be had without: while no front answers, the loop of
`pullBlockByChannelId` goes on for ever and holds the thread (the `//5min` at
the latch is only a comment).

In `ChainCode` a request goes on by itself (weak fairness of `Proceed(r)`): its
thread runs its statements, and the timeouts of both `RestTemplate`s end every
exchange (`BeanConfig.java:24`, `HttpClientConfig`), which is `NextFront` or
`NoneLeft`. No front is assumed ever to answer. `FrontRegistry`, `Account` and `Pages`
have safety properties only.

## 4. Findings

- `BlockSavedWhole` is violated: `@Transactional` on `saveBLockInfo` has no
  effect, and a block whose saving failed stays incomplete.
- `DailyCountWhole` is violated: the second statistics run that finds
  transactions of a day overwrites the day's count by that of the new ones.
- `TransCountExact` is violated: `max - min` of the transaction numbers is one
  too small, and counts numbers of ignored inserts.
- `NewFrontWhole` is violated: creating the tables of a new channel commits the
  front and the channel. When the front is then asked for its peers' heights and
  does not answer, its row stays without a map row: it is not listed, and a retry
  finds its address taken.
- `DeployedNotTouched` is violated: an update or delete that passed "check not
  deploy" before a concurrent deployment was saved changes or removes the deployed
  chain code.

## 5. Proofs

`SchedulerProofs` proves, for any fronts, channels, ledgers, settings and kinds
of fault, under the named assumptions of `Mappers` and `Scheduler` (the settings
are positive numbers, a ledger has a first block, each front has a channel):

| theorem | |
|---|---|
| `TypeCorrect` | `[]TypeOK` |
| `NoGaps` | `[]BlocksContiguous` |
| `CountExact` | the count by minus of a block table (`queryCountOfBlockByMinus`), `max - min + 1`, is the number of its rows |
| `TransRecorded` | `[]TransOfRecordedBlocks` |
| `TransOrder` | `[]TransInBlockOrder` |
| `DeletionReaches` | a loop of `deleteBlock` that ends by itself leaves at most `blockRetainMax` rows, however many bounded DELETEs that took |
| `Refinement` | `MirrorsChain` |
| `StuckForEver` | with `pullBlockInitCnts` = 1, the table of a channel with one front that is higher than its first block stays empty for ever |

None of these is inductive. Typing already needs more: that `max(block_number)`
exists needs finite tables, and that a fetched block is in the ledger needs
heights within it. The invariant `IInv` adds

- `HeightsInLedger`: a front reports no more blocks than its ledger has;
- `Windows`: a block table is empty or an interval `lo..hi`. This is what
  `BlocksContiguous` becomes when the ends must exist;
- `NextInOrder`: while the thread is in the loop, `next` is the successor of the
  newest block; when it is about to add it, some front's ledger has it; while
  transactions are saved, it *is* the newest block. It holds because the
  scheduler has one thread: with two, a second pull of the channel would
  invalidate it between `Fetch` and `AddBlock`;
- `TransInOrder`: the two transaction properties, and that numbers are below the
  AUTO_INCREMENT value.

The lemmas `AddToWindow` and `RemoveFromWindow` say what one insert and one
DELETE do to a window; `Writers` says which actions write which tables, so that
each part of the invariant is proved over the two or three actions that can
disturb it; `MirrorStep` maps each step to one of `ChainMirror` or a stutter.
`StuckForEver` has an invariant of its own, `Stuck`: the thread comes to the first
block only with a height that the front reported, and never past the test of the loop.

`FrontRegistryProofs` proves, for any requests, readers, fronts, names, peers and
faults, assuming only that a front reports a name and a set of peers and that
`LAST_INSERT_ID()` is a natural number:

| theorem | |
|---|---|
| `RegistryTypeCorrect` | `[]TypeOK` |
| `MappedChannelsUsable` | `[]ChannelsUsable` |

`ChannelsUsable` says nothing of a request half-way. Its invariant adds
`NamesUsable`, that what a request has found or holds pending names usable channels
only, and `Prepared`, how far it has come with the channel it creates. Channels
and tables are never removed, so a usable channel stays usable.

`ChainCodeProofs` proves, for any requests, codes, fronts and retries, assuming that
a code has one name and version and that the saved codes have different ones:

| theorem | |
|---|---|
| `ChainCodeTypeCorrect` | `[]TypeOK` |
| `MarkedRowsDeployed` | `[]DeployedRowOnChain` |
| `DeploymentsStay` | `[]DeploymentStays` |
| `DeploymentsOnce` | `[]DeployedOnce` |
| `TouchedOnlyInRace` | a step that changes or removes a deployed row is of a request that ran together with one that had deployed it |
| `CarriedOutBounded` | `[]CarriedOutAtMost` |
| `RequestsGetShorter` | a step of a request makes its `Work` smaller, no other step makes it larger |

The invariant adds `PkUnique`, that `chain_code_pk` identifies a row; `Stage`, what is
known of a request from where it is (an update that goes on has read an undeployed row; a
deployment that is to be saved was carried out); and `Alone`: while a request
deploys a row and ever after, no other request that will write the row is under
way, unless one of them overlapped it. A request that arrives during the deployment overlaps
it; one that arrives later finds the row deployed and is rejected, by
`DeploymentStays` and `PkUnique` of the state before.

`TouchedOnlyInRace` is what is left of `DeployedNotTouched`, which the run
`ChainCodeOverlap` refutes. Its invariant `RaceInv` says that if the row that a request
is about to write is deployed, then by another request that ran at the same time: the
request had checked the row before. Only `SaveDeployed` marks rows (`MarkedBySave`).

For `CarriedOutBounded`, `Budget` counts the sendings that a POST has still before it;
`InBudget` says that these and what was carried out already do not exceed the bound. A
front that is skipped or carries out the request uses up at least one sending.
`RequestsGetShorter` is the part of `EveryRequestEnds` that is a safety property: `Work`
is a natural number that bounds the steps a request has left. That these steps are
taken needs fairness and stays with TLC.

`AccountProofs` proves, for any requests, accounts, passwords and roles, assuming
that accounts begin with status 1 and with at most one token each:

| theorem | |
|---|---|
| `AccountTypeCorrect` | `[]TypeOK` |
| `OwnPassword` | `[]NormalMeansOwnPassword` |
| `ChangesKept` | `[]ChangesLostOnlyByOverlap` |
| `OneToken` | `[]OneTokenUnlessOverlap` |
| `LoginWorks` | `[]LoginTokenWorks` |

Each needs to know what a request has in hand. `Owned`: the row it has read has a
status that goes with its password, and the password it will write was submitted by
the owner where it will keep or set status 2. `Fresh`: unless overlapped it is the only
request at the account, and the row it read is still the row of the table.
`TokensDiffer` and `LoginAlone`: numbers identify tokens, and the only login of an
account creates its token when there is no other. `NoChange` and `SameTokens` say which
steps leave accounts or tokens alone, so that each part of the invariant is proved
over the actions that can disturb it.

### On top of these

`StatisticsProofs`, under the same assumptions as `SchedulerProofs` (and that the
span of a DELETE is a number):

| theorem | |
|---|---|
| `CountedOnce` | `[]NoDoubleCount` |
| `PassedOnlyCounted` | `[]NoneSkipped` |
| `LatestBlockShown` | `[]OverviewShowsBlock` |
| `NumbersLiveOnce` | `LivesOnce` |

The watermark is the maximum of rows that are replaced, and could go down. It does not,
because what a run is about to save of a day lies above what the day's row holds
(`Saving`); so whatever was counted stays at or below it (`CountedPassed`), and what lies
above it was never counted. `NumberedRows` says that a number identifies a row and that
the newest row stays; `DailyStored`, that a counted number is stored or was deleted behind
`TransRetainMax` newer ones.

The refinement maps `SaveTrans` to `Issue`, with the row or without it when the insert is
ignored (`LifeIssue`); `SaveDay` to `Count` (`LifeCount`, from `Saving`); `RemoveTrans` to
`Forget` (`LifeForget`: what is removed lies at or below the watermark, so by
`NoneSkipped` it was counted or dropped, and `OldestRemoved` gives the order); a
failure or crash of the statistics to `Drop` (`LifeDrop`). All other steps stutter.

`LedgerProofs`:

| theorem | |
|---|---|
| `NoneLostInOrder` | `[]NoneSkippedInOrder`, assuming `LedgerInDayOrder` |
| `OnlyTornIncomplete` | `[]OnlyTornBlocksIncomplete` |
| `WholeUnlessCut` | `[]BlockSavedWhole`, assuming `isDeleteInfo` off and neither database failures nor crashes |

`LInv` ties a stored row to an envelope of its block, one that the thread has passed if
the block is in its hands, and the envelopes left to the end of that block: a new row
comes after the stored ones in the ledger as it does in its number. With days in the
ledger's order the days of a channel then rise with the numbers, and the days a run
saves one by one rise as well. `LedgerInDayOrder` is an assumption on the clients,
whose timestamps these are.

That a block is complete is an invariant of each of its transactions, `Traced`: a row of
the first block with its id is stored, or all stored rows begin after it. An insert
keeps this, since new rows come last. Deletion keeps it, since by `OldestRemoved` it
takes rows with the smallest numbers, and by `RowsInOrder` and `TransInBlockOrder` these
are the first in the ledger. The block in hand has it for what was passed
(`SavedSoFar`) and therefore for all of it when it is left in order; a block
that is left otherwise is torn. `WholeUnlessCut` says what `@Transactional` would have to
protect from: silent fronts alone do no harm, and the run `SchedulerTornBlock` shows that
a failing statement does.

`RegistrationProofs`, under the assumptions of `FrontRegistryProofs`:

| theorem | |
|---|---|
| `CacheStaleByOverlap` | `[]CacheStaleOnlyByOverlap` |
| `MapRowsKeepFronts` | `[]MapRowsHaveFronts` |
| `MappedFrontsHavePeers` | `[]PeersOfMappedFronts` |
| `FrontsLostByFailure` | a front is left without a map row, and without a request that has it in hand, only by an error after its insert or by the end of the process |
| `WholeWithoutFaults` | `[]NewFrontWhole`, assuming no faults |
| `OneChannelPerName` | `[]OneChannelUnlessConcurrent`, assuming `SharedPeer` |

`CacheInv`: a list in the cache or in a reader's hand that is not the map means that a
removal is about to clear, or that one of the overlaps has happened. `RowsInv`: the row of a front goes while
a map row names it, stored or pending, only if its removal will delete the map row, or the
front counts among `strays`. `PeersInv`: ids of
fronts are unique, pending rows included, and a request commits the peers of a front with
its map row. `OwnersInv`: a front's row is in one place only, committed or pending with
one request (`Separate`); a request commits no front without the map row unless it
keeps the front in hand (`Holding`); what a removal has taken does not come back
(`Removed`). So interleaved registrations and removals alone cannot produce what the
finding `NewFrontWhole` shows. `ChannelsInv`: a channel is settled, so that every later registration
finds it by a peer; or in the hands of the request that added it; or dead, since the
request failed. `SharedPeer`, that fronts of a channel see a common peer, is needed:
the code has nothing else to recognise a channel by.

`PagesProofs`, assuming a page size above zero:

| theorem | |
|---|---|
| `TasksUndisturbed` | `PagesSpec` implements `Spec` |
| `NoGapSeen` | `[]SeenWithoutGap` |
| `MissesOnlyGrowth` | `[]MissedOnlyByGrowth` |
| `TransCountOneShort` | the count by minus of a transaction table is at most one too small, and exactly one where no number is missing |
| `ChartShowsWeek` | `[]ChartTrue` |
| `AddressKept` | `[]AddressLostOnlyByOverlap` |

`Evolves` says all that the lists need to know of the tasks: a step adds one number above
all others, or leaves an upper part with the newest in it (`BlocksEvolve`, `TransEvolve`).
Then the rank of a row that stays never falls (`RankRises`), the newer of two rows has
the lower rank (`RankOrder`), and at most `Cardinality(R) - n` rows have `n` newer ones
(`FewOfHighRank`). `WalkInv` is that every row of the start that stays and ranks among
the pages turned was seen. `HeldAddresses` is what the page and the registration have in
hand of a peer. `TransCountOneShort` is about `Scheduler` alone and says how far
the finding `TransCountExact` goes: numbers identify rows (`RowPerNumber`), so there are
no more rows than numbers between the ends. That the chart is true needs no invariant.

Only model-checked: `CatchesUp`, `EveryTransCounted`, `RetentionReached` and
`EveryRequestEnds`. Liveness is outside of what the prover does (it also has no
ENABLED). The proofs rest on no induction over data; that a set of numbers has a smallest
(`SmallestOf`) comes from the well-foundedness of `<`.

## 6. Not modelled

- The bit width of block and transaction numbers: `tb_trans_daily.trans_number` is an
  `int`, which overflows after 2^31 transactions of a channel. Sleeping times and
  the dates' time zones.
- With `pullBlockInitCnts` = 1 an empty table is never filled (the first block equals the
  height, and the loop ends); the model has it, and theorem `StuckForEver` proves it
  for a channel with one front. No run is about it, since nothing says what should happen.
  The default is 1000.
- Operations that have no caller: dropping a channel's tables, deleting channels, peers
  and a channel's daily rows, `updateTransDaily`, `AccountService.login`.
- Lists that are one or two reads without an order that changes under them: chain
  codes, fronts, accounts, roles; the look-up of one block or transaction, which goes to
  a front when the table lacks it; the forwarding of the performance page.
- What waits for a row lock in MySQL, other than the write of a peer's row, and
  deadlocks of such waits.
- Formatting, validation of parameters, wiring, pictures.
- The only JavaScript of the repository (`src/src/main/resources/swagger/*.js`) is a
  minified copy of the third-party Swagger UI, which shows the API's documentation in a
  browser. The program is the Java code, the mapper XML and the SQL scripts; those are
  what the models translate.

## 7. Plan

Done: `Mappers`, `Scheduler`, `ChainMirror`, `TransLife`, `FrontRegistry`, `ChainCode`,
`Account` and `Pages`, with a theorem for every safety property of the passing runs
(`NoneSkippedInOrder` and `OneChannelUnlessConcurrent` under the assumptions named in section
5). Of the five claims that runs refute, `BlockSavedWhole`, `NewFrontWhole`,
`DeployedNotTouched` and `TransCountExact` have a theorem that says when, or how far, they
hold all the same.

What could follow:

1. Abstract specifications of two more components: the front-channel map as a set
   that requests add to and remove from, implemented by `FrontRegistry`; a chain code's
   life (saved, deployed, gone), implemented by `ChainCode` as long as no two requests
   for a row overlap.
2. The condition under which the fifth refuted claim, `DailyCountWhole`, holds: each
   day's transactions are stored before the first run that counts one of them.
3. A changing list of fronts in `Scheduler`, by composing it with the cache of
   `FrontRegistry`.
