# Verification of DexAnalitics

DexAnalitics manages concentrated-liquidity positions on Solana. An HTTP server
(`crates/api`) keeps strategies; every running strategy has an executor loop
(`crates/execution`) that watches positions and, when one leaves its range,
*rotates* it: the old position is closed on chain and a replacement is opened
around the current price. This directory holds TLA+ models of the parts that
carry state across threads, files and restarts, TLC runs, and TLAPS proofs.

`PROJECT.json` lists the components, runs, hazards, findings and theorems and maps
every definition to the source lines it models.

## 1. Inventory

| component | state | operations | what is hard | what makes it correct |
|---|---|---|---|---|
| rebalance execution (`execution/src/strategy/rebalance.rs`) | `OPEN_GUARD_INFLIGHT`, `OPEN_GUARD_COMPLETED`; positions on chain | `execute`, `recover_open_after_incomplete`, `open_new_range_with_wallet_mix`, reserve and release | many awaits between guard and use; transactions that land although the call fails; crash in the middle | one open per session; no reservation leaks |
| pending-open recovery (`pending_open.rs`, `executor.rs`) | the pending-open JSON file, `GLOBAL_PENDING_OPEN_CLAIMS` | load, claim, attempt, keep or drop, save | every executor rewrites the whole file from a copy it loaded earlier; truncation | claims are exclusive and returned; only closed positions are reopened; nothing stays stranded |
| lifecycle ledger (`protocols/src/ledger/tx_lifecycle.rs`) | JSONL rows per session | append (best effort), `session_has_bot_open_position` | crash between confirmation and append | a row for every confirmed close and open |
| stranded watchdog and dismiss (`api/src/services/stranded_rebalance_watchdog.rs`) | the pending-open file and the dismissed-sessions file | periodic reconcile, dismiss | runs beside the executors on the same file without a lock | stranded sessions are queued again; a dismiss sticks |
| strategy requests (`api/src/handlers/strategies.rs`) | strategies map, executors map | start, update, stop, delete, create, link | locks are given back between steps; handlers interleave | no orphan loop, no dead entry, current configuration |
| executor loop (`executor.rs`) | `running` flag | `start`, `stop`, `evaluate_all` | the flag is set by the spawned task, read once per round | a stop ends the loop |
| strategy store, autostart (`strategy_store.rs`, `state.rs`, `server.rs`) | `data/strategies.json` | load, save, `maybe_autostart_strategies` | remove before rename; older snapshot saved last | strategies survive restarts until deleted |
| bulk and manual close (`api/src/services/position_close_all.rs`, `position_close_ops.rs`, `position_service.rs`) | in-memory jobs, wallet-ledger rows | plan, pause, close per wallet, finalize, retry on slippage, unlink | groups and spawned finalizers run beside executors and other batches; a close lands late or was done by someone else | every position reported once and truthfully; what is reported closed is gone, written and unlinked |
| position monitor, allowlist, links (`position_monitor.rs`, `strategy_service.rs`) | monitored set, allowlist, `position_addresses`, disabled addresses | add, remove, refresh, reopen hook, pause | RPC read before the insert; hook in a spawned task; locks given back between reading links and changing them; the server never polls | a position a batch has paused is not rotated until it is closed |
| wallet ledger, general-ledger posting, spend caps (`data/src/wallet_session.rs`, `wallet_gl_posting.rs`, `position_stream_performance.rs`) | lifecycle file, PSLR table, balances, postings | ingest, backfills, journal posting, caps | every row is delivered again and again; one event takes several database transactions; errors in between; passes that overlap | balance is the sum of postings; nothing booked twice; opens do not overdraw; caps are the inventory |
| RPC provider (`protocols/src/rpc/`) | current endpoint, health table, disabled endpoints | `execute_with_retry`, `rotate_endpoint`, `send_and_confirm_transaction` | one index shared by all requests, read twice; timeout against a late landing; a status that may still change | a good endpoint is found; requests end |
| transaction manager (`execution/src/transaction/manager.rs`) | - | send, confirm, retry | timeout against a late confirmation | seen through its callers only |
| circuit breaker (`emergency/circuit_breaker.rs`) | state, counters, `opened_at`, manual flag | `is_allowed`, `record_*`, `trip`, `reset` | four pieces of state under separate locks | not reachable beyond Closed, see "Not modelled" |
| emergency exit | `in_progress`, results | `exit_all` | runs beside rebalances | no caller in the server |
| decision engine, scheduler, reconciler, optimization runner | small or pure | - | boundaries | planned |
| domain mathematics, backtests, providers, stream views, CLI, web | - | - | numeric or input/output | not modelled |

How they interact: a request puts an executor into the map and spawns its loop; the
loop first runs a recovery pass over the pending-open file, then evaluates its
positions and may rebalance them; a rebalance that closed but did not open goes into
the file; the watchdog finds sessions in the ledger that were closed and never
opened and puts them into the file too; the operator's dismiss takes them out.
Executors share one process: claims and open guards are process-wide statics, so
they are empty again after a restart while chain, ledger and files stay. A bulk close
pauses the strategies linked to its positions, closes the positions itself and takes
them out of the links and the monitor, while executors rotate and their reopen hooks
rewrite the links. Every confirmed transaction is a row of the lifecycle file; the
ingest copies rows into the database and posts their amounts, and the balances bound
what the next automatic open may spend. All of them reach the chain through one shared
RPC provider.

## 2. Modules

| module | models |
|---|---|
| `RebalanceRecovery` | rebalance execution, recovery pass, open guards, ledger rows, pending-open file, watchdog, dismiss, crash |
| `RebalanceRecoveryProofs` | theorems about it |
| `MCRebalanceRecovery` | constants for TLC |
| `StrategyLifecycle` | start, update, stop and delete requests, executors map, executor loops, strategies file, restart with autostart |
| `StrategyLifecycleProofs` | theorems about it |
| `MCStrategyLifecycle` | constants for TLC, symmetry |
| `BatchReport` | what a bulk close promises its caller, abstractly |
| `CloseAll` | bulk and single close beside executors, reopen hooks, monitor and position requests; composes them and implements `BatchReport` |
| `CloseAllProofs` | theorems about it, the refinement included |
| `MCCloseAll` | constants for TLC, symmetry |
| `WalletGl` | lifecycle ingest, PSLR, general-ledger postings and spend caps |
| `WalletGlProofs` | theorems about it |
| `WalletCapsProofs` | the theorem about the spend caps |
| `MCWalletGl` | constants for TLC: two ledgers of transactions |
| `RpcFailover` | endpoint index, health table, retries, rotation, send and confirm |
| `RpcFailoverProofs` | theorems about it |
| `MCRpcFailover` | constants for TLC |

### RebalanceRecovery

Each executor is a task with a program counter `pc`; one action is what the task does
between two points where another task can run (an await, a lock given back, a file
access). The order in one round is that of `StrategyExecutor::start`:

* `LoadPass`, `ClaimItem`, `DropItem`, `DeferItem`, `AttemptItem`, `RecoverDone`,
  `RecoverUnmonitored`, `RecoverFailed` are `process_pending_open_recoveries`.
  `store[e]` is the loaded document; its `queued` part plays the role of `kept`.
* `PrepareError`, `LedgerGuard`, `CompletedGuard`, `InflightGuard`, `MixError`,
  `OpenFailed`, `OpenUnconfirmed`, `OpenConfirmed`, `OpenRow`, `ReleaseInflight`,
  `MarkCompleted` are `open_new_range_with_wallet_mix`, entered by a rebalance and by
  a recovery. The two locks of `try_reserve_open_session` and of
  `release_open_session_reservation` are separate actions.
* `StartRebalance`, `Close*`, `Rebalance*` are `evaluate_all`, `execute_decision` and
  `RebalanceExecutor::execute`.
* `SaveTruncate` and `SaveWrite` are the two effects of `std::fs::write`. Executors
  read an empty file as an empty store (`unwrap_or_default`), the watchdog and the
  dismiss likewise.
* `Watchdog*` is `reconcile_stranded_with_il_path`, `Dismiss*` is
  `dismiss_stranded_rebalance_session_for_api`, `Crash` is a restart of the process.

A session stands for its id, its closed position and its pool. Transactions end in one
of three ways: confirmed, failed, or landed without the bot learning of it
(`LostConfirm`). Left out: ticks, amounts, alerts, telemetry fields, the order of
items, the monitor and the allowlist, synthetic and group ids of the dismiss, torn
files of two writers that overlap byte by byte, malformed addresses, a second process
(the CLI bot) on the same file, and the limit on the rows the watchdog reads.

### StrategyLifecycle

One strategy: its record, its entry in the executors map (`mapped`), the executor
objects ever built (`Instances`, reused when nothing refers to them) and the file. A
request is a handler with a program counter; each action is one critical section.
`start_strategy_executor_core` is `Fetch`, `HaltFetched`, `Remove`, `Build` or
`BuildError`, `Insert`; `update_strategy` runs its own copy of the first three before
it calls the core, and the handlers share the actions. `LoopStart` sets the flag, as
`start()` does when its task is first scheduled. `Restart` is a crash, the load of the
file and `maybe_autostart_strategies`, which runs before requests are served and sets
`running` only when the start succeeds. The variables `raced` and `earlyStops` record
whether two requests have ever overlapped and whether a stop has ever come before the
loop's first step, so that properties can say when they hold. Left out: create
(a fresh id touches no other strategy except through the saved snapshot), position
links, the optimization flag, alerts, and write errors of the file.

### CloseAll and BatchReport

`job`, `item`, `task`, `tx` and `row` are a batch, what it says of a position, the
close of that position, its last transaction and its last wallet-ledger row.
`StartBatch` is `start_close_all_batch` (plan and skip). `FindHolders`, `PushDisabled`,
`ReadDisabled` and `TellExecutor` are the four lock sections of
`disable_automation_for_positions`: read the holders of an address, push the address
into the list of a strategy without looking at its links again, read the list, give it
to the executor. `StartGroups` is the spawn of one task per wallet.
A position then goes through `BeginClose`, `Snapshot`, `Lookup`, `Submit*`, and either
`Confirm*` in the group (confirm-each, which is also the single close request) or
`PollRetry` / `PollDone` and the finalizer's `FinalizeLookup` and `Confirm*`
(send-first); `Unlink` and `Drop` are `complete_manual_close_success`; `FinishJob`
comes after all groups and finalizers. A position is visited when no other one of its
wallet is being closed (`GroupBusy`), in any order.

An executor's `StartPass` takes monitor and allowlist as they are once per pass,
`TakePosition` reads the skip set for each position, `RefreshPosition` is the refresh
that may take a missing position out of the monitor; `RotateClose`, `RotateOpen`,
`ReadRotated` and `InsertRotated` are a rotation as far as it touches chain, monitor and
allowlist. `HookOwners`, `HookReplace`, `HookReadLinks` and `HookSetAllowlist` are the
sections of the reopen hook. `StartAdd` and `FinishAdd` are `GET /positions/:address`
for the addresses in `Viewed`. The polling loop of the monitor is not there: only the
command-line bot starts it, so in the server an entry changes by these actions alone,
and at the start the monitor may hold any of the open positions. `Resolve` is the
cluster, and `Faults` says which outside failures may happen.

`BatchReport` says only that every accepted position is reported once, closed only
when its account is gone, and that a batch is done after its last report. The
refinement maps `gone` to the positions that were opened and have no account any more,
`report` to the item's status with the three open and the two closed statuses merged,
and `done` to the jobs whose status is done.

Left out: dry run, the resolution of the wallet that signs for a position (`Owner` is a
constant), decisions other than a rotation, broadcasts, history and the chain-session
registry, the text of errors (a 6018 is an outcome of a transaction), fees and amounts.

### WalletGl

A transaction is a row `1..N`; the file has the first `filed` of them. A poster is a
task in one pass (`ingest_lifecycle_rows_best_effort`, a backfill, or a journal event);
any number of posters run side by side, since the ingest is throttled by a time stamp
and not by a lock. `Upsert`, `LinkChain`, `CheckApplied`, `ReadRunning`, `SelectBalance`
and `WriteBalance` are a poster's statements, one step each, with `DbError` and `Restart`
possible before every one. The last two are the database transaction of
`apply_balance_delta`: `SELECT ... FOR UPDATE` locks the balance row it finds until the
commit (`HoldsLock`, `Unlocked`), and locks nothing when there is no row yet.
`CapOpenDebits` limits the debit of an open to the balance read before; `AggregateSums`
replays rows the way the reconciliation does; `ResolveMintCaps` merges the sources of the
spend caps. `settled` holds the events whose posting has returned Ok.

Four history variables name the cases in which the code does not keep a promise, so that
the properties can say exactly when it does: `overwritten`, the balances whose first
insert found the row already there; `contended`, the events that two posters were booking
at the same time; `undercut`, the posters of an open whose account another poster has
debited since they read it; `tainted`, that a fault, a capped debit, a journal posting or
an overlap of passes has made ledger and file differ.

The rows a pass has still to visit and the deltas of a row still to be booked are sets,
taken in ascending order (`Row`, `NextDelta`): that is the order of the file and of the
batch. `OpenAssumption` says that an open names a mint once: its deltas are the two legs
of a pool or the members of a JSON object. Left out: how deltas are read from JSON (they
are constants), the switches that turn account kinds off, the WALLET account, opening
import, dollar metrics, reconcile reports.

### RpcFailover

A request is a task with a program counter; it holds the endpoint it will blame
(`endpoint`), the one its client talks to (`client`), retries, rounds and the place of
its scan. `PickEndpoint` and `PickClient` are the two reads of the index at
`provider.rs:182-183`; `Call*` is what an answer does; `RotateLock`, `ScanPick`,
`ScanSkip`, `ScanExhausted` are `rotate_endpoint`, which keeps the write lock while it
reads the health of one endpoint after the other; `Send*` and `Confirm*` are
`send_and_confirm_transaction`. An endpoint is the set of answers it may give (ok,
error, 401/402/403, account missing); which one it gives is free at every call.
`Resolve` is the cluster, `Rest` the passing of `recovery_timeout`. `mixed` records
that some request has talked to another endpoint than the one it will blame, and
`disturbed` the reads under which another request has moved the index, so that the
property can say when it holds. A transaction is executed on a fork, well or with an
error, and is pending again when the fork is dropped; `Committed` is the check of a status
against `Commitment`, while a status with an error ends the call at any commitment
(`ConfirmRejected`). Delays and response times are left out.

## 3. Runs

| run | checks | shows |
|---|---|---|
| `recovery_faults` | `TypeOK`, `ClaimsExact`, `ReservationExact`, `ReopenOnlyClosed`, `DuplicateNeedsFault` | two executors and sessions, retried opens, two faults of any kind, one restart, no watchdog |
| `recovery_liveness` | `ReopenOnlyClosed`, `StrandedReopened` | watchdog, dismiss, two failures, one restart: every recorded close is reopened or dismissed |
| `lifecycle_requests` | `TypeOK`, `ListedLoopLives`, `NoOrphanLoop`, `RunningIffListed`, `CurrentConfig` | two concurrent requests, one failed start, one restart |
| `lifecycle_stop` | `StopSilences` | a stop ends every loop |
| `close_races` | `TypeOK`, `ClosedIsSettled`, `RecordedIsGone`, `RefinesBatchReport` | two send-first batches and a rotating strategy on one position, expired transactions |
| `close_live` | `BatchEnds` | one batch, two positions of two strategies, both send modes, RPC failures, wallets that do not load |
| `gl_posting` | `TypeOK`, `BalanceIsSumOfPostings`, `PostedAtMostOnce`, `PostedIsStored`, `CapsAreInventory`, `OpenNeverOverdraws` | two posters, a harvest and an open, all kinds of passes, one fault |
| `rpc_failover` | `TypeOK`, `GoodEndpointServes`, `RequestEnds` | a read and a send share two endpoints, one of which fails in every way, on a cluster that drops forks |

Runs that refute what a comment says of the code:

| run | comment | what happens |
|---|---|---|
| `recovery_guard_race` / `AtMostOneOpen` | `rebalance.rs:306` "at most one open per rebalance_session_id" | The watchdog queues a session between its close row and its open row. A second executor reads the ledger and `completed` while the first is opening, and reads `inflight` after the first released it and before or after it marked `completed`: it opens again. No fault is needed. |
| `close_finalize` / `LandedIsNotFailed` | `position_service.rs:661` "Finalize send-first close after on-chain confirmation." | The monitor does not hold the position. The close is built from the account and lands; the finalizer then looks the pool up in the monitor and on chain, both fail, and the closed position is reported Failed and stays linked. No fault is needed. |
| `close_guard` / `BatchGuard` | `strategy_service.rs:1018` "Append each address to `executor_disabled_position_addresses` on linked strategies (batch close guard)." | Two positions of the batch are in one strategy: the second address passes over the strategy that the first has reached (`1032`), and the executor takes that position up while the batch is closing it. |
| `gl_replay` / `IdempotentOnEventId` | `wallet_session.rs:1673` "(idempotent on `event_id`)" | An open that the cap reduced to nothing leaves no posting; after a close has filled the account, the next pass over the same file books the open. |

Observations made while modelling, without a run of their own:

* A pass that loaded the pending-open file before a dismiss saves it afterwards, and the
  dismissed session is back (`pending_open.rs:16` speaks of keeping dismissals).
* A crash between the confirmation and the append leaves a transaction without a
  lifecycle row (`rebalance.rs:4314`), and a crash between `remove_file` and `rename`
  leaves no strategies file (`strategy_store.rs:144`).
* `existing.stop()` only clears a flag, so the replaced loop may still be evaluating
  when the new one begins (`handlers/strategies.rs:627`).
* A pause that has read the holders of an address before another batch unlinks it pushes
  the closed address into the disabled list afterwards (`strategy_service.rs:1031-1054`).
  `ClosedIsSettled` therefore speaks of links and not of that list.
* A reopen hook that runs late links a fresh position which a batch has closed meanwhile
  (`strategy_service.rs:161`).
* `GET /positions/:address` inserts what it read before a close, and without a poll the
  closed position stays in the monitor until an executor that manages it refreshes it.
* `merge_min_caps` treats a cap of zero as missing (`wallet_session.rs:252`), so the
  merged cap can exceed one of its sources.
* A journal event and a lifecycle row of one transaction have different event ids and
  are both booked to the session (`wallet_gl_posting.rs:430`).
* Two passes of the ingest may overlap when one takes longer than the throttle
  (`position_stream_performance.rs:400`). Without the exceptions that the properties name,
  TLC finds with two posters that both may book an event; that two first postings to one
  account may both find no balance row to lock, so that the second insert overwrites the
  amount of the first and balance and postings drift apart; and that two passes overdraw an
  account, against the words of `wallet_session.rs:1067`.
* A send whose confirmation times out is reported failed although it may land later, and an
  error status is reported at any commitment although its fork may be dropped
  (`provider.rs:577`, `588`). Callers have to cope with both.
* After a rotation between `provider.rs:182` and `183` the wrong endpoint is blamed and
  may be hard-disabled until the process ends. With every endpoint unhealthy, rotation
  takes the next one even if it is hard-disabled (`168`). A failing status query ends a
  send at once (`586`), where a failing send would try the next endpoint.

Bounds. Two executors are enough for every pairwise race over claims and guards; the
theorems cover any number. `MaxAttempts = 2` has an item retried and used up,
`MaxOpenTries = 2` has an open retried inside one call, `MaxFailures = 2` and
`MaxCrashes = 1` allow two faults and a restart in any place. In `recovery_liveness`
`MaxAttempts = 1` makes every failure use up the item, so that only the watchdog can
bring it back. `Instances` has two members: the running executor and its replacement;
a third appears only when two replaced loops are still evaluating, which the theorems
include. `MaxUpdates = 1` tells an old configuration from a new one.
`CHECK_DEADLOCK FALSE` in the lifecycle runs: a deleted strategy really stops; in the
close and ledger runs: batches and rows are used up.

`close_races` has two batches, one old position and the one a rotation opens, one
strategy and `MaxAttempts = 1`: every pairwise race over one position. The batches are
interchangeable, and only safety properties are checked under that symmetry.
`close_live` has the two send modes, `MaxAttempts = 2` and two positions of one wallet,
so that a group has an order to keep. `close_guard` has two positions in one strategy,
the least in which an address can be passed over. In all of them the old positions can be
viewed (`Viewed`). `gl_posting` has two posters and `MaxPasses = 3`, so that two passes
overlap in every way and a third comes after them; its rows are a harvest and an open of
one session that share a mint, one of them with a journal event. That all exceptions
(`overwritten`, `contended`, `undercut`) and the caught-up state without any of them are
reached was checked by runs of their negations.
`rpc_failover` has `N = 2`, `MaxRetries = 1` and `MaxFailures = 2` (3 endpoints, 3
retries and 3 failures are usual): `N = MaxRetries + 1` is the tight case of
`GoodEndpointServes`, and the theorem covers every value.

Fairness. `recovery_liveness` assumes weak fairness of each executor's steps, of the
watchdog and of a dismiss that has begun: tokio schedules every ready task, the
tickers fire for ever, RPC calls have timeouts. A request to dismiss, a fault or a
crash is never assumed to happen. It is checked for one executor with two sessions:
with several executors the property fails in the model through an endless exchange of
stale copies of the file, in which each save brings back or drops the item just before
the other loads it; the code has nothing that excludes that schedule. `lifecycle_stop`
assumes weak fairness of the steps of a request that has begun and of each loop.
`close_live` assumes weak fairness of the worker, of each close and of the cluster (a
transaction is executed or its blockhash expires), and nothing of executors, hooks and
requests: a batch, a rotation or a view never has to begin or to go on. `rpc_failover` assumes weak fairness of the
steps of a request that has begun and strong fairness of taking the lock, because
tokio's `RwLock` serves waiters in their order; nothing is assumed of the cluster or
of what endpoints answer, since calls have a timeout and confirmations a deadline.

Every property of a passing run has a mutant: a wrong variant of one mapped action,
defined before it and marked as wrong in its comment, with which TLC finds the
property violated.

## 4. Proofs

All theorems hold for every value of the constants that satisfies the named
assumptions (`SessionAssumption`, `OwnerAssumption`, `BoundAssumption`,
`SwitchAssumption`; `InstanceAssumption`, `LimitAssumption`; `ConstantsAssumption` of
`CloseAll` and of `WalletGl`; `OpenAssumption`; `EndpointAssumption`,
`RequestAssumption`). They give the constants their types and keep the "none" values
outside the sets; `OpenAssumption` alone says more, see `WalletGl` above. No theorem has
a hypothesis beyond them.

`RebalanceRecoveryProofs`:

* `RecoveryTypeCorrect`, `ClaimsAreExact`, `ReservationsAreExact`: neither exactness
  is inductive on its own; `Typed` strengthens the type invariant with `Occupied`, that a task has a
  session exactly where its program counter and mode say so. Then every action either
  leaves claims, modes and sessions alone, or takes or returns one claim
  (`ReleaseKeepsClaims`, `FinishKeepsClaims`, `OutsideKeepsReservation`).
* `ReopensOnlyClosed`: a reopen follows from a queued item, which may come from any
  stale copy. `OnlyClosed` therefore speaks of every copy: the file, each executor's
  `store` and `todo`, the watchdog's rows and copy, the dismiss's copy and the ledger
  rows name closed positions only, and a task past its close works on a closed one.
* `DuplicatesNeedFaults`: two parts make it inductive. `RebalanceAlone`: while a task
  rebalances a session nobody else works on it and no copy of the file queues it, since
  without the watchdog only that task can put it there. `OpensPaid`: beyond restarts and
  transactions that landed unconfirmed there is one open at most, and then `completed`
  holds the session or a task is on its way to mark it; a task that may still open has not
  found it there.

`StrategyLifecycleProofs`:

* `LifecycleTypeCorrect` and `ListedLives` for all interleavings.
* `OrphansNeedRaces`, `RunningIsListed`, `ConfigIsCurrent` from `OrderlyInv`: while
  requests come one after the other (`Alone`), what each place of a handler implies
  for the map (`Listing`), the file (`Synced`) and the configuration (`Fresh`), and
  that a loop that goes on is listed (`LiveListed`).

`CloseAllProofs`, from `IndInv` = `TypeOK` /\ `Bounded` /\ `Born` /\ `Reported` /\
`Unlinked`: how many transactions a close may have built where, that only opened
positions are worked on, what each place of a close says of its item, row and account,
and that a position past its unlink stays out of the links.

* `CloseAllTypeCorrect`, `RegistryTellsTheTruth` and `ClosedStaysSettled` are parts of
  it or follow. The links of a position that was there at the start never grow: a hook
  puts in only the position its rotation has opened. Such a fresh position is excepted
  from the last conjunct of `ClosedIsSettled`, since its hook may run after the batch has
  unlinked it.
* `CloseAllImplementsBatchReport`: the initial states map to initial states and each
  action to one of `Accept`, `Vanish`, `Settle`, `Finish` or a stutter; `Reported` gives
  `Settle` that a position reported closed is gone, and `FinishJob`'s guard gives
  `Finish` that nothing is open.

`RpcFailoverProofs`, from `RpcInv` = `TypeOK` /\ `Placed` /\ `Spotless` /\ `AllOnTrack`:

* `RpcTypeCorrect`.
* `GoodEndpointIsFound`: as long as nobody blames an endpoint it has not asked
  (`~mixed`), a good endpoint keeps a clean record (`Spotless`); therefore a scan cannot
  pass it, and each rotation of an undisturbed read leaves it no further ahead of the
  index than the retries that remain (`OnTrack`).

`WalletGlProofs`, for any number of overlapping passes. `Placed` strengthens the type
invariant with what each place of a pass implies (`Fits`): the row at hand is stored
before it is posted, and the deltas left are deltas of that row.

* `WalletTypeCorrect` and `PostedRowsAreStored` follow from it.
* `PostsAtMostOnce`, from `Once` and `JournalOwned`: as long as an event is not contended,
  one poster at most is past its check (`Exclusive`); then an event past its check has no
  entry, one that is being booked has entries for the deltas already taken at most, and a
  journal event is booked only by the pass that appended it.
* `BalancesAreSums`, from `Locks`: a poster that has found a balance row holds its lock,
  nobody else holds it, and the amount found is still the amount stored. So a write adds
  its delta to the balance, or it is an insert that finds a row and joins `overwritten`.
  The total is a recursive sum; that a sum with one summand changed changes by the
  difference is shown with the smallest index at which it would not, an argument over
  functions that needs no induction over an operator.
* `OpensNeverOverdraw`, from `Locks` and `Affordable`: what is left of a capped batch is
  covered by the balances as they are now, for every poster that is not undercut; a write
  of another poster either lowers no balance or adds the poster to `undercut`.

`WalletCapsProofs` has `CapsMatchInventory`. `InOrder` says that while nothing has tainted
the run at most one poster is in a pass, and how far the passes have come: they store and
book the rows of the file in its order, each scope is booked up to a row and not beyond
(`DoneTo`), or that row is booked in part by the pass that works on it (`PartDone`), whose
open transaction has found the stored amount (`Found`), and no debit so far was capped
(`Exact`). Hence the balances, the replay of the stored rows and the replay of the file
are the same sums, `MergeMinCaps` of equal caps is that cap, and the sums are the plain
inventory.

What is only model-checked: the liveness properties `StrandedReopened`, `StopSilences`,
`BatchEnds` and `RequestEnds`, because fairness is outside the
prover's reach. Every other property of a passing run is a theorem. The inductive
invariants were first checked as invariants by TLC.

## 5. Not modelled

The repository has about 107,000 lines of implementation; the models stand for about
6,000 of them, those that keep state across tasks, files, database transactions and
restarts. The rest is mostly:

* read-only views (`position_stream_lineage.rs`, most handlers, response models): they
  join ledgers into documents and change nothing;
* decimal and floating-point mathematics, backtests, simulation and optimization:
  sequential, and their correctness is numeric;
* market-data providers, repositories, command line and web client: input, output and
  presentation;
* the circuit breaker: `evaluate_all` returns Ok on every path, so the loop never
  reaches `record_failure` and the breaker never leaves Closed;
* the emergency exit: nothing in the server calls it; the bulk close does this work.

## 6. Plan

Done: the modules above with their runs, and a theorem for every safety property of a
passing run. Next:

1. An abstract specification of a rotation that `RebalanceRecovery` without the
   watchdog implements.
2. The transaction manager's retry loop on top of `RpcFailover`, and what its callers
   make of a transaction reported failed that lands later.
3. Optimization runner (its result is applied to a running executor), scheduler,
   reconciler, decision boundaries.
