# Formal models of the IBC explorer backend

This directory holds TLA+ models of the backend: what its periodic tasks do to
the collections and locks they share, the properties that must survive their
interleavings and failures, TLC configurations that check small instances, and
TLAPS proofs of the most important properties for every instance.

Source paths below are relative to `src/internal/app/`.

## 1. The system

The backend follows IBC token transfers between chains. Outside programs (one
*syncer* per chain) write the transactions of every chain into MongoDB
collections `sync_<chain>_tx`. The backend runs a set of periodic tasks over
them, in every deployed instance of the service, and serves what they have
collected over REST. Tasks share no memory except package-level clients: they
interact through MongoDB (read with *secondary preferred*, `repository/db.go:75-84`),
through Redis (locks and caches), and through the order in which cron starts them.

| component | state | operations | interacts with |
|---|---|---|---|
| distributed task lock, `pkg/distributiontask` | a Redis key with an owner value and an expiry | `RunOnceWithLock`, `ReNewExpiration`, `UnLock` | Redis; the denom heatmap task runs under it |
| cron task runner, `task/task.go` | a Redis key per task, 300 s, no owner | `Start`, `RunOnce` | Redis; all other tasks run under it |
| transfer sync, `task/ibc_sync_transfer_tx_task.go` | `ibc_task_record` (height), `ex_ibc_tx_latest`, `ibc_denom` | page, trace denoms, insert, record the height | the syncers, `chain_config`, denom tracing |
| relate tasks, `task/ibc_tx_relate_task.go`, `..._history_task.go` | status and details of stored transfers, `ibc_denom` | page, find the packet on both chains, settle, insert denoms | the syncers, migrate, acknowledge, add chain |
| migrate task, `task/ibc_tx_migrate_task.go` | `ex_ibc_tx_latest` to `ex_ibc_tx` | page, insert into history, delete from latest | relate, acknowledge, statistics |
| acknowledge task, `task/ibc_sync_acknowledge_tx_task.go` | late details of settled transfers | find incomplete, complete | relate, migrate |
| add chain task, `task/add_chain_task.go` | status `Setting` in both collections, denoms | update both collections, retrace denoms | sync, migrate; started over REST |
| denom tracing, `pkg/ibctool` | none | path, hash, previous and base denom | sync, relate, add chain |
| statistics: in- and outflow, tokens, channels, counters | one collection each, built anew and switched, or incremented | full run, daily increments | migrate (moves what they count), REST runner |
| home page counters, transfer list and detail | `ibc_statistics` | count again, or count what is new; pages and look-ups | migrate, REST runner |
| chain and channel configuration, `task/ibc_chain_config_task.go`, `ibc_chain_task.go`, `ibc_channel_task.go` | `chain_config`, `ibc_chain`, `ibc_channel` | page over a node's channels, state of both ends, numbers of channels and transfers | the chains' nodes; every task that maps channels to chains |
| denom heatmap, token task, token distribution | supplies and escrowed amounts in Redis, `ibc_token`, `ibc_token_trace`, `denom_heatmap` | read nodes page by page, derive traces, show their tree | nodes, `ibc_denom`, `chain_config`, each other through Redis |
| relayer tasks and registry | `ibc_relayer`, `ibc_relayer_address`, `ibc_relayer_address_channel` and statistics | gather addresses by public key, match pairs, refresh figures and times, take over a team's list | transactions of the chains, `ibc_chain`, `ibc_channel`, REST |
| node health | a cache | probing nodes | the tasks that ask nodes |
| manual task runner, `api/rest/task.go` | a Redis key per task, one hour, never released | starts a task in a goroutine | every task it can start |
| services, caches, monitor, configuration | caches with expiry | read only | |

`PROJECT.json` lists all of them with their files and what is modelled.

### What is hard here

* **Locks that expire.** A cron task's lock lasts 300 s however long the task
  runs, is not renewed, and is deleted by name: overlapping runs are normal
  operation for slow tasks, so every task has to bear a second copy of itself.
* **No transactions.** Every task is a series of separate writes. Even the
  migration, which is written inside `DoTransaction`, calls both collections
  with a context of its own (`repository/ex_ibc_tx_latest.go:658-669`): neither
  write is part of the transaction.
* **Read, work, write.** Pages are read, often from a replica that is behind,
  worked on for minutes, and written back document by document.
* **Tasks that share collections and do not exclude each other**: sync, relate,
  migrate, acknowledge and add chain all write `ex_ibc_tx_latest`.
* **Errors that are logged and forgotten**, at almost every write.
* **Evidence out of order**: the two chains' syncers are independent.
* **Paging boundaries**: a page may end inside a block.

### What makes each part correct

* lock: one holder at a time as long as renewals are in time; the end of a run
  whose key is gone leaves the successor's key alone; a crash blocks nobody for
  ever;
* sync: no transfer below the recorded height is missing; a transfer that waits
  to be related has its denom registered; only faults make copies; everything
  is stored in the end;
* life of a transfer: it is never in neither collection; it is settled only as
  the chains settled it; what is settled stays so; its denom is registered; an
  added chain reaches every waiting transfer; everything is settled in the end;
* statistics: every transfer is counted exactly once per figure, a switch of
  collections loses no increment;
* home page and list: no transfer is counted by two increments, what is shown
  exceeds what there is by no more than what moved between two counts, and a
  reader of pages or of one transfer misses nothing that is stored;
* configuration: what is shown of channels and chains becomes what the chains
  have, whatever was lost on the way;
* denoms: every registered denom leads towards the token's origin, and reaches it
  once all chains on the way are listed and it was traced again;
* amounts: the tree of a token's traces adds up to its supply;
* relayers: one key makes one relayer, an address that counts as gathered is in a
  list, times and figures are those of the lists.

## 2. Modules

| module | models | kind |
|---|---|---|
| `TaskLease` | what a lock with expiry and owner promises | abstract specification |
| `DistributedTaskLock` | the renewed Redis lock | component, implements `TaskLease` |
| `DistributedTaskLockProofs` | | theorems |
| `CronTaskLock` | `RunOnce` and its timer | component |
| `CronTaskLockProofs` | | theorems |
| `TransferSync` | the sync task of one chain, with the chain's syncer and its replicas | component |
| `TransferSyncProofs` | | theorems |
| `IbcTx` | the life of the stored transfers of one source chain under five kinds of tasks | composition |
| `IbcTxProofs` | | theorems |
| `SegmentStatistics` | full runs and increments of the statistics by day, beside the migration | component |
| `SegmentStatisticsProofs` | | theorems |
| `HomeStatistics` | counters, transfer list and detail beside the life of transfers in outline | composition |
| `HomeStatisticsProofs` | | theorems |
| `RelayerPairs` | pairs of addresses and how they are matched | pure operators |
| `Relayers` | the cron task, the registry and the initial task over the collections of relayers | composition |
| `RelayersProofs` | | theorems |
| `DenomTrace` | paths, hashes, traces of denoms | pure operators |
| `ChainChannels` | three tasks over the chains' channels | component, on `DenomTrace` |
| `Denoms` | `ibc_denom` and the transfers' bases under sync, relate and add chain | component, on `ChainChannels` |
| `Tokens` | supplies, escrows, traces and their tree | component, on `Denoms` |
| `Registry` | the three together | composition |
| `RegistryProofs` | | theorems |
| `MC...` | constants for TLC | |

Definitions keep the names of the functions they translate. Some operators are
*variants* of an action (`LockForever`, `FetchFullOnly`, `InsertHistoryForgets`
and the like): plausible mistakes, each placed just before the definition it
varies. No specification uses them; `PROJECT.json` pairs each with the property
that fails when it takes the place of the real definition, which shows that the
property has something to say about that piece of code.

### DistributedTaskLock

`key`, `expires` are the Redis key and its deadline; each activation has a `pc`,
its owner `value`, and a renewing goroutine (`renewer`). `Lock` is SETNX;
`ReadTTL` and `Extend` are the two calls of a renewal, between which anything may
happen; `Stop` is the send on the stop channel, which a renewal in progress
delays; `UnLock` is the compare-and-delete script. Every call may fail or lose
its reply, a process may die, and `Tick` is a period of the renewal ticker. The
owner value is drawn from a generator seeded with the current second, so it is
modelled by host and time alone.

`disturbed` is a history variable: a renewal of this activation failed or was
not made within its period. `RenewedLockHeld` and `OverlapOnlyIfDisturbed` are
about everyone else. `ImplementsLease` maps the key to the owner of the lease.

### CronTaskLock

Every instance's goroutine is `waiting`, `running`, `deleting` or `down`. `ttl`
counts the key down. `locker` and `overran` are histories: overlap is possible
only since a run outlived its key, and the trouble this hands on from run to run
(each deletion frees a foreign key) ends when nobody works and no key is left.

### TransferSync

The syncer writes blocks, in any order while it catches up and in ascending
order while it *follows* the chain; `checkFollowingStatus` is the task's only
protection against gaps. A replica shows the blocks up to some moment of
`clock`, at most `MaxLag` blocks behind. A run is a sequence of separate steps
with local variables `mem`: `LoadRecord`, `LoadDenoms`, `CheckFollowing`, one of
the `Fetch` actions, `InsertDenoms`, `InsertTxs`, `UpdateHeight`, and back to
`CheckFollowing` after a full page. Failures may come at each of them, with any
part of a batch written.

`suspect` is a history variable: heights that a run read past although the
replica it asked could not show them (because the following check and the page
were asked of different moments, or the query that completes the last block went
to a replica without that block). `NoTxLost` excuses exactly these heights; they
are a real weakness of the task, and the model says precisely when it bites.

### IbcTx

Documents (`Doc`) carry keys (`KeyOf`, what the unique index `sc_tx_unique` is
made of): two documents of one key are the copies `TransferSync` may produce.
`db` maps the two collections to documents; of a document the model keeps status
and which of `dc_tx_info` and `ack_timeout_tx_info` it has. `facts` is what the
syncers have written of a packet.

* *Relate*: `RelateStart`/`RelatePage` read a page (any documents in status
  Processing, up to the limit: the order by `next_try_time` is abstracted),
  `RelateEvidence` reads the packet's transactions and computes the outcome
  (`Load`), `UpdateIbcTx` writes one document at a time, `AddDenoms` inserts the
  denoms. `RelateOverlap`, `RelateStalePage`, `RelateBlind`, `UpdateIbcTxFails`,
  `AddDenomsFails`, `RelateAbandon` are overlap, lagging replica, failed query,
  failed writes and crash.
* *Migrate*: two loops (`setting`, `normal`), each page in the steps
  `FindByStatus`, `InsertBatchHistory`, `DelBatch`.
* *Acknowledge*: `FindIncomplete`, then `Complete`, once per loop.
* *Add chain*: `AddNewChainUpdate`, once per collection.
* *Around them*: `ChainStep`, `Configure`, `ReadChains`, `Store`.

Histories: `missed` (documents that the migrate or the sync task had in hand
while the chain was added), `lost` (denoms a run had in hand when it failed),
`misled` (runs that overlap or have read a lagging replica), `past` (what a
lagging replica may show; kept only while a fault is left to read it).

### SegmentStatistics

The four tasks that keep statistics by day (in- and outflow of chains, tokens,
channels) share one scheme, and this module models the scheme. A row groups the
documents of one day, and every figure served is a sum over rows, so a collection
of rows is modelled as how often it counts each document: `live` is the
collection in use, `new` the one a full run builds.

* *Full run* (`StartFull` to `SwitchColl`): `LatestSegments` and
  `HistorySegments` find the oldest document of each collection; the days from
  there to today are kept as an interval in `run`. The history is dealt with
  first, by `Aggregate` and `Save` for each day, then latest. From the first day
  of latest on (`task.min`) the history's rows are also recorded in the task
  object (`task.overlap`), and added to those of latest when latest replaces the
  day. The task object is shared by all runs of a process (`ProcessOf`).
* *Increment* (`TodayStatistics` to `SaveDay`): latest alone is aggregated for
  today and replaces the rows of today in `live`; yesterday follows whenever the
  counter of the day says so (`ChecksYesterday`).
* *Around them*: `Store`, `Settle`, `InsertHistory`, `Delete`, `Midnight`.
* `new` is never dropped: what a failed run has left in it is there when the
  next one begins. `SkipsFailed` tells the flow tasks, which log a failed
  aggregation and go on, from the other two, which end the run.

Histories say for each full run what excuses it: documents that `arrived`, or
`moved` between the collections, since it began, that an error or a lagging
replica made it skip (`skipped`), that were in `new` before (`leftover`), and
runs that had company (`crowded`). `twice` keeps the excuses of the run whose
collection is in use, `overtaken` those of an increment that is about to write.

### HomeStatistics

`db` maps the two collections to the status of each document; transfers come
(`Sync`), get on (`Progress`) and move (`MigrateFind`, `MigrateInsert`,
`MigrateDelete`) as in `IbcTx`, without its workers. `before` is what `db` was
before its last write, which a secondary may still answer.

* *Counters.* A run (`Start` to `UpdateOne`/`UpdateOneIncre`) takes its figures in
  the order of the code (`Plan`). The figures of the last day and of latest are
  counted again; those of all transfers are a record with a creation time and the
  count at that time, advanced by queries of their own: count, latest creation
  time, count at that time, write. The cron's run and a manual one (`Run`) have
  separate state and no lock in common. A run may fail at any query (`Abort`).
* *Readers.* `TransferTxs` reads one page after the other with a query of its own;
  `TxDetailLatest`, then `TxDetailHistory`, look for one hash.

`twice` is kept with a record: documents it counted while they were counted in
latest as well. `kept` of a reader are the documents that have been in latest
since it began; `stale` says whether a secondary has answered with an old state.

### RelayerPairs, Relayers

A relayer is a set of pairs: two addresses on two channels, or one address whose
other end is unknown. `RelayerPairs` has the functions that make, match and clear
them; the code's lists are sets here, because every reader passes over what is
listed twice, and a unique index on the pairs' ids keeps a pair in one relayer.

* *The chains*: `RelayPacket`, `UpdateClient`, `Tick`.
* *ibc_relayer_task*, in the order of its `Run`: statistics per chain, a repair,
  the addresses to be gathered (`FindByPubKey`, a look-up that may fail, find
  nothing because it is stale, or find the relayer of that key), the pairs and
  figures of each relayer, the times of channels, the relayers of chains. The
  relayers a run works on are those it read as a page (`page`), and it writes
  their lists whole.
* *Collect* (REST): finds nameless relayers of a team's addresses one by one,
  removes them, writes the team.
* *relayer_address_init_task*: notes the addresses of a database without any.

`taken`, `missed`, `trouble` are histories: addresses that fell out when their
list was taken over or overwritten, relayers without an update time on one end,
and the kinds of faults so far.

### DenomTrace, ChainChannels, Denoms, Tokens, Registry

These five are one system: `chain_config` says where channels lead, traces of
denoms follow from it, the traces say which chain and channel hold a token.

* *DenomTrace.* A denom is a path of hops and a root; its hash is injective, so a
  hashed denom is the path it stands for. `Stations` walks the path through a
  configuration as `TraceDenom` does, and stops at the first hop whose chain it
  does not know. A native denom with a slash in its name is hashed as well
  (`Slashed`): it has a pseudo-hop that is no channel.
* *ChainChannels.* `ends` is the state of every end of a channel on the chains;
  handshakes and closings proceed end by end. The configuration task asks every
  listed chain (`Fetch`), finds counterparties (`ConfigMatch`) and writes chain by
  chain (`UpdateChain`); `ChainTask` and the channel task (`AnalyzeChannels`,
  then `WriteChannels`) derive `ibc_chain` and `ibc_channel`. A chain whose
  channels fill a page is never got to the end of (`Fetch`).
* *Denoms.* `SendToken` moves a token over an open channel; `SyncRead`/`SyncWrite`
  and `RelateRead`/`RelateWrite` register denoms with the configuration and the
  known denoms they read before; `AddRead`, `AddUpdateTxs`, `AddUpdateDenom`,
  `AddUpdateBase` are the two goroutines of add_chain_task. What a token really
  is, and went through, is kept beside (`via`), for the properties.
* *Tokens.* `Leave` and `Arrive` move amounts between supply, escrow account and
  what is on its way. `HeatStart` to `AggrData` are the heatmap task, which empties
  a chain's supplies before the first page and fills them page by page; `TokenRead`
  to `UpdateIBCChain` the token task. `TokenDistribution` is the tree the REST
  interface shows: the origin, what is found behind it hop by hop, and the rest
  under the last node there is.
* *Registry* composes them. A first state (`Cases`) says which of the three is
  looked at; configuration goes on when chains are listed for the denoms.

Histories: `settled` (denoms traced again with all channels of their way known),
`sure` of a transfer (it had the base its denom has, and every later step that moved
the one moved the other), `skipped` (received denoms that relate took for known ones), `exact` (origins
whose traces were derived from what the chains had: all denoms registered, nothing
on its way, no call failed).

## 3. Runs

| run | what it shows |
|---|---|
| `dist_lock` | two activations on one host, one on another, seven ticks: `RenewedLockHeld`, `OverlapOnlyIfDisturbed`, `ImplementsLease` |
| `cron_lock` | three instances: `OverlapOnlyAfterOverrun`, and `TaskKeepsRunning` under fairness |
| `transfer_sync` | four transfers in three blocks, page of two ending inside a block, two runs, two faults: `NoTxLost`, `DenomBeforeTx`, `CopiesNeedFaults` |
| `transfer_sync_live` | three transfers in two blocks, one fault: `EveryTxStored` |
| `ibc_tx` | one transfer to a chain that is added on its way, two runs on latest, one on history, migrate, acknowledge, two faults: `NothingLost`, `MovedNotCopied`, `AddedChainReachesAll`, `SettledStays` |
| `ibc_tx_page` | two transfers of different fates in one page, one fault: `DenomRegistered`, `SettledAsOnChain` |
| `ibc_tx_live` | two copies of one transfer ending in an error acknowledgement, one fault: `EveryTxSettled` |
| `segment_full` | two transfers of one day, two full runs of one process, one fault: `NotTwice`, `FullCountsEach` |
| `segment_day` | a transfer of yesterday and one of today, increments without end, one full run, one fault: `CountedStays`, `RecentCounted` |
| `home_counts` | two transfers of opposite directions, beside a manual run or a fault: `OvercountNeedsStaleRead`, `ShownTwiceOnlyIfMoved`, `PagesSkipNothing`, `StoredIsFound`, `LiveFiguresSettle` |
| `relayers` | three addresses of two operators on one channel, seen, gathered, matched, counted, taken over by the registry, one fault: `SameKeySameRelayer`, `GatheredIsListed`, `ChannelTimeOfARelayer`, `FiguresSettle` |
| `registry` | three chains in a row, with channels of the same names: channels that open and close, tokens sent while chains are listed, amounts that move: `RegistrySettles`, `DenomsLeadHome`, `GraphAddsUp` |

Each module's type invariant is checked in its first run. `ibc_tx_live` no longer
needs to check on what evidence its copies are settled: `ibc_tx_page` does for two
of the outcomes, and a theorem for all of them.

### Bounds

* `MaxTime = 7` with `Expiration = 3`: a key can expire, be taken, be renewed and
  expire again. `MaxTime` is the only bound in `DistributedTaskLock`; the run
  may stop there, so deadlock is not checked (`CHECK_DEADLOCK FALSE`).
* `Expire = 3` in `CronTaskLock`; nothing else is bounded, the state is finite.
* `MaxHeight`, `MaxLag`, `MaxReverts` bound the syncer. Three blocks with two
  transfers in the middle one are the least in which a page of two ends inside a
  block with a block below and above it. One revert is enough for a race between
  check and page; each further one repeats it.
* `MaxFaults` bounds failures, crashes, stale reads and overlaps together. Two
  are needed for one run to overlap and then fail.
* `PageLimit = 2`, `MaxRelate = 3`, `MaxParse = 3`: small enough that pages are
  full, short, and that a run ends at its limit. `MigrateLimit = 1`, `Keep = 0`:
  both loops of the migration iterate and every document may be moved.
* `LastDay = 2`: yesterday and today, and one change of date. `CheckEvery = 2` is
  the least for which the first and the later checks of yesterday differ. One
  document is countable when it is stored and one only later (`AtOnce`). In
  `segment_full` both documents are of one day, so a day has both old and new
  rows; two full runs are needed for leftovers and for overlap. The single fault
  is a stale read, a failure, a crash or an overlap at any place.
* `HomeStatistics`: `PageSize = 1`, so that a list of two has two pages; `MaxTime = 2`
  gives every document a creation time of its own or the same; `Keep = 0`, so the
  migrate task may take any number. The first states look at one figure or one
  reader at a time: figures share nothing but the transfers.
* `Relayers`: `MaxId = 5` relayers ever made, which no behaviour of three addresses
  exceeds but by repeated failures; two of three addresses have one key, the
  third is the counterparty of one of them. The case of the registry has the list
  of one operator, or of both; where times are looked at, one step may fail or stop.
* `Registry`: each first state has one or two tokens, at most `MaxSends = 2`
  transfers or one further move, at most one fault, and up to two steps of
  handshakes. Three chains are the least in which a token is two hops from home
  and a chain in the middle can be missing; channels of the same name on
  neighbouring chains are the least in which a hop taken for another one leads to
  the wrong chain. `PageSize = 1` page of supplies and two denoms on a chain: a
  run of the heatmap task is between two pages. `Limit = 3` with two channels at
  most per chain: pages fit (`PagesFit`).
* Symmetry is used only in runs without liveness properties and only among runs
  of one task.

### Fairness

* `CronTaskLock`: the clock runs (`WF`), and some instance's attempt is not
  refused for ever (`SF` of `Lock` over all instances, because a lost reply
  disables it again and again). Neither the end of a run nor a restart is
  promised. Justification: `RunTimer` (`utils/time.go:5-20`) fires for ever.
* `TransferSync`: cron starts runs (`WF` of `Start` over all runs together), a
  run that has not failed goes on (`WF` of `Step` per run), replicas catch up.
  Nothing is promised of the syncer or the operator: `EveryTxStored` is
  conditional on following and open for good.
* `IbcTx`: the relate tasks are started again and again, per collection, and
  their runs go on. Nothing is promised of migration, acknowledgement, chains
  or operator: a transfer is settled wherever the migration leaves it.
* `SegmentStatistics`: cron starts increments for ever and one that has not failed
  goes on. Nothing is promised of full runs (one may stop anywhere for good), of
  midnight, of the syncer or of the migration; `RecentCounted` is conditional on
  where the transfer is.
* `HomeStatistics`: the cron's runs go on and are started again; nothing is promised
  of transfers, migration or the manual run. `LiveFiguresSettle` speaks of the
  time when the transfers rest, which the bounded documents reach.
* `Relayers`: the steps of the cron task (one condition over all of them: it is one
  goroutine, started again every so often). Nothing is promised of the registry
  or of the chains.
* `Registry`: each of the three channel tasks goes on and is started again. Denoms
  and tokens have no liveness property, and no fairness.

## 4. Theorems

Proved with TLAPS for all values of the constants under the assumptions named in
the modules (`LockAssumption`, `CronAssumption`, `SyncAssumption`,
`IbcTxAssumption`, `StatisticsAssumption`, `HomeAssumption`, `RelayersAssumption`,
`TimesAssumption`, `ChannelsAssumption`, `RegistryAssumption`, `AmountsAssumption`,
`ShapesAssumption`): any number of runs, documents, blocks, chains, tokens, faults. The bounds of the runs above are
constants here, and no proof uses their values.

Six of the assumptions speak of first states (`Cases`). `HomeAssumption` says that a
transfer goes through a sequence of statuses as the tasks write them (only Setting
and Processing are left, nothing returns to Setting), and that transaction times
differ, as the sort of the list needs. `RelayersAssumption` says of the collections
found at the beginning what earlier runs leave when nothing went wrong: what counts
as gathered is in a list (`updateGatherStatus` comes after the list is written), a
relayer without a name lists only addresses gathered with their key (only gathering
makes one), and no two of them have addresses of one key. What becomes of them under
faults is then shown, for any such beginning, an empty database among them.
`TimesAssumption` says what it means to look at times (`AtRest`): all that addresses use
was seen, they were gathered and matched, no list of the registry is to come, and no
client was updated yet. That lists then stay as they are is proved.
`RegistryAssumption` says that tokens came the way their paths say (`FollowsPath`),
that what is configured are channels between listed chains, and that the denoms
registered so far were traced with that. `AmountsAssumption` says of first states that
look at amounts what ICS-20 keeps: nothing is on its way, a voucher's supply is locked
in the escrow account it came from, and what is held of a token on all chains adds up
to its supply at the origin. That moves keep this is proved. `ShapesAssumption` only says
that collections and escrow accounts hold at first what is written to them later, and
that opening times known then are of the past.

* **DistributedTaskLock**: `LockTypeCorrect`, `RenewedLockHeldThm`,
  `OverlapOnlyIfDisturbedThm`, `DistributedLockIsLease`. The invariant says that
  the key of an undisturbed running activation holds its value (`HoldsOrLate`)
  and how long it has left at each state of its renewer (`KeyLivesLong`:
  `waiting`, `due`, `extending`): that is where an expiry of three ticks or more
  is used. Exclusion needs that owner values in use are never from the future
  and differ between holders (`IdsDiffer`).
* **CronTaskLock**: `CronTypeCorrect`, `CronMutualExclusion`, from the invariant
  that, unless a run has overrun since the last moment of rest, whoever works is
  the instance that made the key and the key is there (`WorkerHoldsKey`).
* **TransferSync**: `SyncTypeCorrect`; `DenomBeforeTxThm`, from the invariant
  that a run's `known` denoms are registered, and those of its page are between
  `InsertDenoms` and `InsertTxs`; `NoTxLostThm`, from `KeptInv`: everything at or
  below *every* height ever recorded is stored (`RecordInv`, needed because a
  lagging replica may show any of them), every run's cursor and, once inserted,
  its page have the same property (`RunKept`), and while the syncer follows the
  chain its blocks have no gap that a replica from that time could hide
  (`FollowInv`). `CopiesNeedFaultsThm` counts. A run `MayStore` a transfer when
  it has just started, or goes on from a height below it; every copy and every
  such run has been paid for by a fault, but for one (`CopiesOK`). That is enough
  while the recorded height is below the transfer, or some run is `Behind` it. Once
  the height has passed the transfer, a new run, free of charge when nobody works,
  reads that height and stores nothing: only a stale read, which costs a fault,
  would have it fall behind. In between, a run that has stored its page but not yet
  recorded its height (`Recording`) stands for the height. `PageAhead` says that a
  page lies between the height its run started from and the one it will record.
* **IbcTx**: `IbcTxTypeCorrect` and six safety properties.
  Step lemmas first say what a step may do at all: to an entry of a collection
  (`EntryStep`, with `NewEntry` for what appears), to what a replica may show
  (`PastStep`), to what the migrate task carries (`CarriedStep`) and to the page
  of a run (`PageStep`, `RunStep`). Each property then has an invariant of its
  own, which must also hold of the copies of documents in transit, because any
  of them may be written back:
  - `NothingLostThm`: the migrate task deletes from latest only what history
    holds under the same key (`SafeToDelete`);
  - `SettledAsOnChainThm`: not only the stored status but also that of every
    carried document and of every outcome a run has loaded is what the facts of
    the chains say (`HonestInv`), and facts are never withdrawn;
  - `MovedNotCopiedThm`: a document in both collections is in the migrate
    task's hands (`AbsentInv`);
  - `AddedChainReachesAllThm`: once the chain is added, a document in Setting is
    one that was in the hands of migrate or sync at the time (`SettingInv`);
  - `SettledStaysThm`, an action property: a run that is neither overlapping nor
    misled by a replica holds only documents that are still in Processing
    (`Alone`, `Holds`, `Idles`);
  - `DenomRegisteredThm`: the denom of a settled transfer is registered, or in
    the hands of the run that settled it, or lost with that run, or hidden
    behind a denom of the same hash (`DenomInv`).
* **SegmentStatistics**: `StatisticsTypeCorrect`, `NotTwiceThm`,
  `FullCountsEachThm`, `CountedStaysThm`, from one invariant. For a run without
  company it bounds what the new collection counts from above (`AtMostOnce`: a
  document is counted at most once, and on a day that the pass over its
  collection is done with) and from below (`AtLeastOnce`: it is counted, or its
  day is still to come; and days that latest is going to replace are also in
  `overlap`, without which the replacement would drop the history's part).
  `Span` says that the segments reach to the day of every document that had been
  stored when the run began, although midnight may pass meanwhile; `Counting`,
  that nothing uncountable is counted anywhere; `Overtaking`, that the rows of an
  increment are those of its day but for what came after they were read.
* **HomeStatistics**: `TypeCorrect`, `TransferIsFound`, `CountedOnce`, `ShownTwice`,
  `NothingSkipped`. All rest on `Stored`: a document that was ever stored is in one of
  the collections, because the migrate task has inserted into the history what it
  is about to delete (`CollInv`), and on what no step undoes (`Kept`: a document that
  has left latest stays away, what is countable in the history stays so).
  - `TransferIsFound` (`FoundInv`): a reader that did not find a transfer in latest
    finds it in the history, because insert comes before delete, unless a secondary
    answered with an old state or the transfer was once in Setting.
  - `CountedOnce` (`CountInv`): the count of a record is at most what the history has from
    before the record's time, and as many of that very time as the record says it
    counted (`Covers`); what a run has in hand between its queries is bounded the same
    way (`HandInv`), so that an increment, which asks from that time on and takes those
    off again, counts nothing it counted before. `ShownTwice`: what is shown is what a
    run found in latest and later in the history, and their common part is the
    `twice` of the record.
  - `NothingSkipped` (`PageInv`): a document that stays in latest while a reader goes
    through its pages was on a page already, or has at least as many newer ones
    (`Newer`) as the pages so far hold. The number of newer documents is its place in
    the sorted list, and pages are taken by place (`PlacesTaken`, `PageFull`), so the
    next page has it or leaves the bound as it is.
* **Relayers**: `RelayersTypeCorrect`, `GatheredIsListedThm`, `SameKeySameRelayerThm`,
  `ChannelTimeThm`.
  `GatheredInv` needs that an address is in a list, or counted as taken over, from
  the moment its list is written to that of its status (`stage = "status"`).
  `SameKeySameRelayerThm` holds of behaviours without a stale read, a failed look-up,
  an unwritten status or a stop (`Clean`); its invariant `KeyInv` has four parts, one
  for each place from which a second relayer of a key could come: the relayers
  (`KeyedOK`), the queue of addresses (`QueueOK`: they are still to be gathered), the
  address in hand (`CurOK`: a relayer is made or extended only if no other lists its
  key), and the lists that workers and the registry's update hold, which they will
  write whole (`HandsOK`: they add nothing). Matching and clearing of pairs keep
  the addresses of a list: `MatchKeeps` and `SingleSideKeeps` follow the folds of
  `RelayerPairs` by a smallest counterexample (`FoldTyped`), as the prover has no
  induction over data.
  `ChannelTimeThm` is about the map of times that all workers write, whichever comes
  last (`TimesInv`). While they are at work, what it has of a channel is the time of a
  relayer that was looked at already, and the channel has that time or one of those
  relayers is still to write it (`Refreshed`); when all are done that is the property.
  It needs that a relayer's time is never later than when one of its addresses updated a
  client (`Reached`), so a newly found time is the relayer's, and that workers have in
  hand the lists and times there are (`PageIs`). With three faults TLC finds a behaviour
  that shows why stale reads are excepted: a read that misses the last time and an end
  that is not found set the relayer's time back, and after a second read that still has
  the old time only the channel's is set right.
* **Registry**: `DenomsLeadHomeThm`, for any chains and channels between them, any
  tokens with ways of any length, and a configuration that grows at any moment. The
  first half of `RegistryProofs` is about tokens alone. A token is known by where it is
  and its path (`SameToken`), two tokens with a station in common came the same way
  there (`SameStation`), a token that moves on has the way it had and one hop more, and
  one that goes back is what it was before (`ArrivedOut`, `ArrivedBack`). `Walk` says
  what `Stations`, a recursive function, computes: the part of the token's way up to
  the first channel that is not configured. It needs no induction over data: a walk is
  determined by its steps (`WalkIs`, by a least counterexample), and the way cut off
  there is one. So the base `Traced` finds is a station, the channels to it are
  configured, and none leads on from it (`Final`).
  The second half is the invariant `DenomsInv`, with `ConfigInv` for the configuration
  and what its task has in hand (only channels between listed chains, whatever answers
  were lost). Every base that is noted anywhere, in `ibc_denom`, in a transfer, in what
  sync, relate and add_chain_task have read, is a station on the way of its token with
  shown channels to it (`DocsInv`, `TxsInv`, `SyncInv`, `RelateInv`). add_chain_task
  works on denoms it read before: what it has left is as it was (`ListInv`), tracing
  again leads on and never back (`TracedAgain`), and the base it is about to move
  transfers from and to are stations of one way (`BaseInv`), hence of the way of any
  token whose transfer has the old base (`MovedOn`): the update, which matches bases
  alone, moves other tokens' transfers too. `SureInv` says when that brings them home:
  a sure transfer's base is final, or add_chain_task has still to move it (`Pending`).
* **Amounts** (also in `RegistryProofs`): `GraphAddsUpThm`, for tokens that went any
  number of hops, any way they moved before and any reads and writes lost. It has three
  parts.
  - Sums. `MapThenSumSet` is a recursive function over subsets; that it exists
    (`SumsExist`) and that any element may be taken last (`SumsAny`) is shown for finite
    sets by a smallest subset of which it would be false (`SmallestSet`), which needs no
    induction over data. `SumShift` says what becomes of a sum if one number changes,
    `SumMoved` that the same numbers under other names have the same sum.
  - The chains (`BankInv`). A move concerns a voucher, what it was before, and the escrow
    account on the other side (`MoveShape`); that account belongs to no other voucher
    (`SameVoucher`), so what is locked in it is the voucher's supply, and one more while
    a unit is on its way (`Covered`). So nothing that is taken out is missing, what is
    held of a token is never negative, and what is held of all tokens of one origin,
    with what is away, is the supply there (`HeldFrom`, `Away`).
  - The traces (`ExactInv`). By `DenomsLeadHome` a denom known by an origin is that of a
    token that came from there (`BaseIsOrigin`), with as many hops; its trace has what
    its chain has (`TraceIs`), so the traces of an origin have distinct places, and
    their amounts are what is held of its tokens (`FreshAddsUp`). Every one of them is
    in the tree: the origin without hops, those with one hop on the first level, and
    whatever no level reaches is filled in (`AllShown`).
* **Types of the registry**: `RegistryTypeCorrect`. What is written comes from answers of
  chains and from what another task registered, so this needs the invariants above.
  - Channels (`ChannelsInv`): what the configuration task has read and written are
    channels of listed chains (`ConfigOK`, with `ConfigInv`); an opening time read of a
    transaction is not later than now, so neither is what any document says of a
    channel (`NetworkOK`, `DocOK`).
  - Denoms (`NamesOK`): a denom's document carries the chain and the name it is found
    by, so what is written after it was read goes to the same document.
  - Tokens (`TokensOK`): a cache holds only denoms of its chain (`CacheOK`), and from
    when the token task has read the tokens to when it writes them it has a document
    for each, old or new (`TokOK`). That there is a page to read, full or the last one,
    is shown by a smallest set of as many denoms (`PageExists`). Supplies stay natural
    numbers when units leave an account by `BankInv`.

## 5. What is only model-checked

* Liveness: `TaskKeepsRunning`, `EveryTxStored`, `EveryTxSettled`,
  `RecentCounted`, `LiveFiguresSettle`, `FiguresSettle`, `RegistrySettles`. The
  prover has no support for reasoning about fairness and `ENABLED`.
* Among the invariants, none: each is stated by a theorem. But `ChannelTimeOfARelayer`
  is shown, and checked, of lists at rest (`TimesAssumption`): with a registry that takes
  over a list meanwhile a channel keeps the time of a relayer that is gone.

## 6. Weaknesses the models show

None of these contradicts a statement of the documentation or a comment; each is
an exception that a property names, so that it holds of everything else.

* *Cron lock.* A run longer than 300 s starts a chain of overlaps: its end frees
  its successor's key, and so on until a moment with neither worker nor key
  (`overran`).
* *Sync.* Heights that become `suspect` are never read again. The task that
  would notice them does not exist.
* *Migrate.* Insert and delete are not one transaction. A failure between them
  leaves a transfer in both collections; the relate task of the history, or a
  later migration, may then meet the older copy.
* *Add chain.* A document that is carried from one collection to the other, or
  read from a configuration without the chain, while the chain is added stays in
  Setting for ever (`missed`).
* *Relate.* An overlapping or misled run may take a settled transfer back to
  Processing or settle it a second time (`misled`). The denoms of a page are
  gone with the run (`lost`), because the settled transfers are never read again.
  A denom on the destination chain is skipped when the source chain has one of
  the same hash (`Hidden`): `denomMap` is keyed by hash alone.
* *Statistics.* A full run counts a document that is migrated while it runs twice
  or not at all (`moved`). A full run that failed leaves its rows in the new
  collection, and the next one inserts the rows of the history a second time
  (`leftover`). A switch drops what an increment has counted in the meantime, and
  the swap of a day drops what has been migrated since it was counted (yesterday's
  check may do this to documents of yesterday). A transfer that arrives, or
  becomes countable, later than on the day after its own is only ever counted by
  a full run. A full run cannot succeed as long as the history is empty: the
  query for its oldest document fails.
* *Home page.* `count_latest` of a record is written only when the history has grown,
  so it stays as it was at the last migration however many transfers came since;
  and as long as the history is empty the task ends at its first query for it. A
  transfer that moves between the count of latest and that of the history is shown
  twice (`ShownTwiceOnlyIfMoved` bounds it).
* *Relayers.* Relayers that could not be inserted are only logged while their
  addresses count as gathered: they are in no list and never looked at again. The
  registry's update writes a team's list as the registry has it and drops pairs
  that were gathered since; pairs of the nameless relayers it removes are lost if a
  call fails before the list is written. It leaves the status of the addresses
  alone, so one may be gathered into a nameless relayer again. A failed look-up
  counts as one that found nothing. Two goroutines share one error variable, and
  the time of a channel may go back. A relayer whose packets become none keeps the
  number but not their value.
* *Channels.* The offset of the node's channel list replaces its placeholder in the
  path, so from a full page on (a thousand channels) the task asks for the same page
  for ever (`task/ibc_chain_config_task.go:121-123`). The bound of 48 hours on the
  look-up of opening times is in nanoseconds and always holds
  (`task/ibc_channel_task.go:269`). An opening time from `ibc_channel_config` is
  replaced by the confirmation when a closed channel is seen open. A channel
  between two chains that are both named cosmos... or iris... would get an id from
  either end; `ChannelsAssumption` excludes it.
* *Denoms.* If add_chain_task is started before the configuration task has seen the
  listed chains' channels, it traces denoms it knew well to a base on the way, and
  `UpdateBaseDenomInfo` (`repository/ex_ibc_tx_latest.go:749`), which matches the
  old base alone, moves the transfers of *other* denoms with that base along; they
  do not come back. `Configured` is the guard that leaves this out. With it, a transfer
  that is moved along with another denom's base may still be left at a station on the
  way, until its own denom is traced again, or for good if that write is lost: on three
  chains nothing of the kind happens, on four it does. `BeingMoved` and `sure` are these
  exceptions of `DenomsLeadHome`. A received denom
  may stay unregistered because relate's `denomMap` is keyed by hash alone
  (`skipped`). The denom of a transfer that was put off (Setting) is registered by
  nothing, and its base not traced again. A transfer stored with an old
  configuration after its denom was traced again keeps the old base; a lost
  `UpdateBaseDenomInfo` is not repeated.
* *Amounts.* After a connection error the amounts of the accounts read so far stand
  for the chain's earlier, complete ones (`task/ibc_token_task.go:401`), and an
  account that became empty keeps its last amount (`:406`). Supplies are deleted
  before the first page is set (`task/denom_heatmap.go:201`): a token task that
  comes in between drops the traces of that chain. A failed read of an escrowed
  amount counts as nothing escrowed. A chain that has lost all its traces keeps its
  old figures. `GraphAddsUp` is about the trees that none of these has touched.

## 7. What is not modelled

`PROJECT.json` lists every part with its reason. Within the parts that are
modelled:

* Failed transfers (`TransferStatusFailed` when read) are stored and never
  related; they are outside `IbcTx`. That the second of two failed messages of one
  transaction collides in the unique index is listed as a hazard.
* The order of a relate page by `next_try_time`, and its retry bookkeeping: a page
  is any set of documents within the limit, which includes every order.
* Client and connection ids, `process_info`, fees, addresses: no guard reads them.
* Two overlapping runs of the migrate task.
* The lock of the manual runner: `CronTaskLock` has the same kind of lock, and
  `StartFull` and `Start` allow what it allows.
* `setStatisticsDataCache` of the flow tasks: sums over the rows put in a cache.
* Days that are not 24 hours long. Segments advance by a fixed number of seconds
  (`task/common.go:83`), so over a change of daylight-saving time those of a full
  run and those of the daily increments do not meet. The models count in days.
* Home page: counts of channels by status, of denoms and of chains, which are
  counted again like the figures that are modelled; filters of the list by time,
  denom and status.
* Relayers: the full run of their statistics and its second look at yesterday
  (`SegmentStatistics` has the scheme), fees, cached figures, values by prices, and
  that addresses older than a week are no longer gathered.
* Channels: ports beside `transfer`, chains closed to the explorer, values of
  transfers, statistics of today and yesterday.
* Denoms: symbols (`ibc_denom_update_task`) and the repair of hops, which fill a field
  of a document from another one.
* Tokens: numbers of transfers and of received ones, which are sums over the
  statistics of `SegmentStatistics`; volumes of the last day.
* Caches with an expiry, node health, the repair of stored fields, the queue from
  which workers take chains: reads without state of their own, or a mutex.
* Reads (`service/`, `api/`) beside the list, the detail and the token distribution,
  start-up, monitoring: they change no state that a task reads.

## 8. Plan

The components that keep state of their own are modelled. What is left, in this
order:

1. `TransferLife`, an abstract specification (a transfer is unknown, waiting, settled,
   and never goes back), to be implemented by `IbcTx` without disturbance and by the
   hand-over from `TransferSync`.
2. `SegmentTime`: segments in seconds over days of different lengths. `ReadThrough`:
   caches that a task overwrites.
