# Sigma Finance: TLA+ models

Sigma Finance is a self-hosted portfolio tracker: a Go server with a GraphQL
interface over PostgreSQL (`server/`), a React client (`client/`), a Python
service for prices (`server/cmd/yfinance-service`) and packs of market data
(`packs/`). These modules model the parts of the server whose state has to stay
consistent under concurrency, failure and long histories of calls: the ledger
of a position with its tax lots, the queue of price backfill jobs, the
synchronisation of accounts with brokers, the packs of market data that are
installed or built on the server, and the background processor that runs
calculations.

Paths below are relative to `server/internal/` unless they start at the root.

## 1. The system

| Component | State | Operations | Hard behaviour | What makes it correct |
|---|---|---|---|---|
| Position ledger (`service/transaction_service.go`, `service/portfolio.go`, `domain/model/position.go`) | rows of `positions`, `transactions`, `portfolio_assets` | buy, sell, delete, update, add asset | reads without row locks inside READ COMMITTED transactions; whole-row writes; replay of history; two rounding rules | quantity is what the transactions say; cost that enters is cost that is held or charged |
| Tax lots (`domain/model/tax_lot.go`, `repository/tax_lot_repo.go`) | `tax_lots`, `tax_lot_dispositions` | lot of each buy, allocation of each sale by FIFO, LIFO, HIFO, LOWEST_COST or PMP | partial lots, ties, rounding per match | no unit sold twice; every sale matched; costs of a lot within the rounding of its matches |
| Backfill queue (`service/instrument.go`, `repository/historical_data_backfill_job_repo.go`) | `historical_data_backfill_jobs`, a worker per server process | enqueue, claim, complete, fail with backoff, requeue stale, retry | several servers, crashes, contexts that expire before the last write | one owner per running job, bounded attempts, every job finishes |
| Account sync (`service/sync/`) | `sync_connections`, `sync_credentials`, `sync_runs`, and the ledger's tables for the account | trigger, link, register, discover | network calls between read and write of a row; overlapping calls; provider moves on; adapters that answer in part; securities found by symbol, ISIN or search | lots cover what is held; every trade imported once |
| Background processor (`service/background_processor.go`, `service/worker_pool.go`) | two queues, two pools, metrics under one mutex | start, stop, schedule, dispatch | full queues, stop while work is in progress | accepted work is done or reported, stop ends |
| Market data packs (`service/marketdata/packs/service.go`) | `market_data_packs`, `market_data_pack_coverage`, `market_data_pack_jobs`, a directory per version | install, remove, repair, cancel | directory, row and coverage changed one after another by jobs that nothing keeps apart and nothing resumes | row, coverage and directory agree |
| Local pack builds (`service/marketdata/packs/local_build*.go`) | `market_data_pack_build_jobs` and their items, the pack and coverage they register | start, run, retry failed, resume, cancel | runs last hours under rate limits; whole-row writes from old copies; retries and resumes of a running build | the outcome is that of the items, the pack covers what was fetched, no build is forgotten |
| Authentication, sessions, lockout, rate limits | users, sessions, counters | log in, refresh, revoke, unlock | counters under concurrent calls | a locked account stays locked until it expires |
| Market data, providers, exchange rates, caches | prices, rates, time-limited copies | fetch, route, refresh | outages, stale copies | mostly outside data |
| Valuation, performance, alerts, notifications, monitoring, catalog, watchlists | derived rows | compute, notify, plain row operations | large SQL, real numbers | not modelled |

How they interact. A buy, a sale or an addition of an asset writes position,
transaction and lot in one database transaction (`repository/uow.go`, `Do`).
AddAssetToPortfolio then enqueues a backfill job, which a worker of any server
process claims later. A sync writes the same position, transaction and lot
tables for its account, in one transaction after its network calls; it has no
common lock with the ledger's calls. A local build registers its result in the
same tables of packs and coverage that installs write, under a pack id the user
chose or one made of provider and time
(`service/marketdata/packs/local_build.go:899-905`). Deletions and sales enqueue a
recalculation of snapshots, which reads the ledger and writes only derived rows.

## 2. Modules

| Module | Models | State and actions |
|---|---|---|
| `CostBasis` | average-cost arithmetic of `domain/model/position.go` | operators only; used by `Ledger` |
| `TaxLots` | `AllocateTaxLots`, `sortLots`, `FindOpenByPositionID` | operators only; the loop in closed form; all five methods |
| `Ledger` | one holding: its position, `portfolio_assets` row, transactions, lots, dispositions | a call is a read step (`StartSell`) that keeps copies in `req` and a commit (`CommitSell`), or `RollBack` |
| `LotBook` | what lots and dispositions promise, whatever calls overlap: the abstract specification, implemented by `Ledger` | `Acquire`, `Sell` |
| `Ledger_proofs`, `SumTheorems` | theorems about `Ledger` and its refinement of `LotBook`; the laws of sums they rest on | |
| `JobQueue` | what a queue of jobs promises: the abstract specification | `Ask`, `Take`, `Release`, `Vanish`, `Recover` |
| `BackfillJobs` | the job table, worker goroutines and retry calls; implements `JobQueue` | `Enqueue`, `Claim`, `Complete`, `Fail`, `StartRebuild`, `LoseWrite`, `RequeueStale`, `ReadForRetry`, `WriteRetry`, `Crash`, `Restart`, `Tick`... |
| `BackfillJobs_proofs`, `BackfillRefinement_proofs` | theorems about `BackfillJobs`; the refinement | |
| `AccountSync` | `TriggerSync`, its reconciliation, `LinkAccount`, the provider | one action per stretch of `TriggerSync` between two calls to provider or database |
| `AccountSync_proofs` | theorems about `AccountSync` | |
| `MarketDataPacks` | installs, removes, repairs and cancels of one pack | one action per change of directory, row, coverage or job status |
| `MarketDataPacks_proofs` | theorems about `MarketDataPacks` | |
| `LocalBuilds` | one build job, its items and its coverage; start, retry, resume and cancel calls and the runs they begin | one action per write of job, item or coverage |
| `LocalBuilds_proofs` | theorems about `LocalBuilds` | |
| `BackgroundProcessor` | scheduler, dispatchers, worker pools, collector, and `Stop` | one action per step of a goroutine; `Stop` is `BeginStop`, `StopRefreshPool`, `AwaitGoroutines`, `ReturnFromStop` |
| `BackgroundProcessor_proofs` | theorems about `BackgroundProcessor` | |
| `LedgerMC`, `AccountSyncMC`, `MarketDataPacksMC`, `LocalBuildsMC` | instances for TLC | symmetry of callers, jobs or tasks; the manifests of the packs |

### Ledger

Quantities are counted in parts of a unit (`PartsPerUnit`, up to the 10^8 of the
column) and prices and averages in millionths of a cent, the eighth decimal of a
dollar that the columns store; total costs, amounts and charges are cents. So
every rounding of the code is a rounding of the model: `IntPart` truncates the
amount of a purchase or sale and both sides of the realised gain, AddAsset
rounds its amount, a partial sale multiplies by a quotient of 16 decimals, an
average is rounded to 8, and `AllocateTaxLots` rounds the cost of each match
(`MatchCost`). Two quotients are simplified: the average of PMP, which the code
keeps to 16 decimals, is taken as exact, and the quotient of a partial sale is
the code's as long as total in cents times quantity in parts stays below
`2 * 10^16`, which the runs do by far. `Validate` refuses a row whose amount
comes out as zero (`Valid`).

`UpdateTransaction` may set any of type, quantity, price, amount and date as
long as the row stays valid, and nothing else is recomputed; which fields a
client sets is the constant `Edits`. A purchase may become a sale and the other
way round; the types without a price (deposits, dividends, fees) stay out of the
model. TLC edits everything but the quantity, the theorems cover every `Edits`.

The step boundary is where other calls can get in. Under READ COMMITTED a
plain SELECT sees what was committed before it; an UPDATE of the position row
waits for the other writer and then overwrites. So a call's reads before
`Position().Update` are one step and everything from the update to the commit
is the other. In particular a sale reads its lots after its update, in the
second step (`transaction_service.go:719` and `:754`), which is why lots
survive the lost update of the position. `LotBook` says what that amounts to: a
book that is only written forward, in which a lot is opened once and whole and a
sale is matched once and whole, in one step, from lots that have the units. The
refinement reads it off the tables (`Book`): units of the rows `tax_lots`, what
is left of them, and for each sale the sum of its dispositions on each lot. A
purchase is an `Acquire`, a matched sale a `Sell`; deletions, updates and
everything done to the position are stutters, and so is a sale that finds no
open lot, which is the one way in which the code leaves the book behind
(section 4).

`ProcessBuyTransaction` compares the error of the position lookup with
`repository.ErrNotFound`, but `GetByPortfolioAndAsset` returns `sql.ErrNoRows`:
the branch that would create a position is never taken, and `StartBuy` needs a
position. `Init` therefore has either no position (the first one is created by
AddAssetToPortfolio) or an empty one, as an import creates it.

### BackfillJobs

One request key (portfolio, asset, instrument, provider, start) whose
`requested_to` is the day it is made. Time is counted in ticks: a row's `age`
is the time since its heartbeat, a worker's `elapsed` the time since its claim.
Each context bounds a phase: the fetch ends with the job's context (8
minutes), the rebuild with its own (6 minutes). A worker that finishes after
the job's context has expired writes nothing (`LoseWrite`). The stale threshold
exceeds the sum (`StaleAssumption`; 20 > 8 + 6 in the code), and the ownership
theorem shows that this is what keeps a live worker's row from being requeued.
That no two workers are ever on one row follows, since a row names one owner
(`OwnersDiffer`).

`Store` is the whole-row update with the unique index on active requests
(`server/cmd/bun/migrations/48052026_harden_historical_data_backfill_jobs.go`).
Several jobs of one worker's batch are just consecutive claims.

`JobQueue` is what the callers of the queue rely on, in six actions: one open
job per request, one worker per job, and nobody else touches a taken job until
its worker has released it or stopped. `ImplementsQueue` maps a row's status to
the state of a job and, deliberately, the owner to what each worker is really
doing rather than to the `locked_by` column: a worker that had lost its row to
a requeue and finished it all the same would be a `Release` of a job that is no
longer taken, which the abstract queue does not have.

### AccountSync

One connection and one security. The provider trades between any two steps and
time is counted in its trades, so "since `last_sync_at`" is a comparison of
trade numbers. A call keeps the copy of the connection it has read and writes
all of it at each change of status, so the copies of overlapping calls overwrite
each other. The guard of `TriggerSync` is a read (`Admit`) some time before the
write (`Begin`), and stops applying when the row is five minutes old
(`FiveMinutes`), though the sync that wrote it may still be running.

The reconciliation is one step. Two of them on one account serialise on the
position's row lock; when both insert the same row, a unique index refuses the
second, which fails as a whole (`FailReconcile`). `overlapped` records that two
calls have been under way together; one of them may begin and the provider may
trade in such histories only up to trade `MaxOverlap`, which keeps long
histories without overlap and short ones with it in one instance. The theorems
hold for every `MaxOverlap`. `late` is history as well: the trades booked while some
sync had fetched and not yet ended. The cash position is
overwritten from the balances in the same way as the quantity; nothing else
depends on it and it is left out. Test and FetchBalances are one step, because
nothing reads the balances.

Two things outside the sync decide what it loses, and both are modelled. The
*adapter* asks for what came since `last_sync_at`, as precisely as the provider
lets it, and takes one page of the answer. `Starts` are the instants it can ask
from: seconds for Kraken (`service/sync/adapters/kraken.go:486-504`), the start
of a day for SnapTrade (`snaptrade.go:682-702`) and GoCardless
(`gocardless.go:675-697`, bank accounts); `PageSize` is what the page holds.
Kraken's answer is the newest 50 entries of the ledger and no further page is
ever asked for. `offPage` remembers the trades that were asked for and not
delivered; other entries of the ledger that share the page only make it
shorter. The *catalogue* finds the security in one of three ways (`match`), as
`resolveOrCreateAsset` tries them (`reconciliation.go:482-508`): by its symbol
(from the second sync on this includes a placeholder made for an unknown one),
by its ISIN, or by a search. `ReconcileTransactions` ties a trade to the position
in the first two cases only (`BuyLots`), and `ReconcileResidualTaxLots` looks the
asset up by its symbol alone and skips the holding when that fails (`Residual`,
`:376-384`).

### MarketDataPacks

One pack, whose registry entry may move to another version (`Publish`), and any
number of jobs on it. A job is created in a request and runs at once or on a
goroutine (`service.go:244-262`); the service has no lock, so the model has
none. An install is fetch (download and verification, one outcome), removal of
the directory of its version, rename of the new one in its place, upsert of
the row, the two statements of `ReplaceCoverage`, and the bridge that gives
coverage rows the id of the database's instrument; a remove is look-up,
directory, row (the coverage goes with it, by its foreign key); a repair is
look-up, check of the directory and the coverage again. Each step may be the
last: it fails, or the server stops. `RemoveAll` is not atomic, hence the
directory state `part`. One instrument stands for one coverage row, and the
primary key refuses an insert of a row that is there.

`mishap` says that a job was cut off after it had begun to change things; it is
history only and restricts nothing but `InstallsConverge`. `alone` is history
as well: no other job was under way during this one.

### LocalBuilds

One build job with its items. A *task* is a call (start, retry, resume, cancel)
and the run it begins; tasks are reused, so two of them give histories of any
length with two at a time. Both shapes of a run are modelled: symbol by symbol
(`local_build.go`) and date by date (`local_build_marketparquet.go`). Job and
items are rows written whole from copies read earlier, so `Touch` and `DayDone`
write the status their run has read, whatever was written since. The updates
of items drop their error (`_ = s.repo.UpdateLocalBuildItem`): `WriteItem` may
write nothing. Rate-limit waits change no row and are part of `Fetch`; a
server's stop can come at any step (`Stop`).

`fault` and `overlapped` are history: a run was stopped, a write of an item was
lost (`mishap`), two runs were at work together. `Touch` may lose its write of the
job as well, which harms nothing and is no mishap. A resumed run whose job has no
items yet (the server stopped between job and items) has nothing to fetch and
reports a success over an empty build; that counts as a mishap too, as does a
retry call cut off between two items. The properties say which histories they
are about.

### BackgroundProcessor

Each goroutine is a small automaton: `select` is the select statement at the
top of its loop, and the branch it takes is a choice among those that are
ready, as Go makes it; a worker whose pool is closed may still take jobs before
it ends. The scheduler's list is the loop of `schedulePerformanceUpdates`, and
the read of `isRunning` and the send that follows it are two steps, so a job
can enter a queue after `Stop` has begun.

`updateMetrics`, `logMetrics` and `GetMetrics` hold the mutex for a few
assignments and are single steps; `Stop` locks it at its first step and
unlocks it when it returns (`background_processor.go:179`), which is
`StopHoldsMutex`. A worker in `record` and a collector in `read` are waiting
for it. Jobs are numbers, per kind, in the order in which ticks create them;
results are left out: the one goroutine per pool that receives them logs them and
ends when the pool is closed.
A calculation's deadline may have passed whenever the dispatcher looks at it
(`Expire`).

`server/cmd/app.go:131-136` starts the processor once; no code starts it again
or calls its `Stop`, so `Init` is the started processor and `BeginStop` is the
one call a shutdown would make.

## 3. Runs

| Run | Bounds | Shows |
|---|---|---|
| `ledger_sequential` | 1 caller; buy, sell, delete; 1 and 3 quarters of a unit; prices of 2 and 5 cents; two dates; 4 requests; FIFO | quantity and lots agree after every history, and costs to within their roundings (six properties) |
| `ledger_concurrent` | 2 callers; all five operations; edits of type, price, amount and date; 3 requests; price 0 for additions | lots are conserved and a sale is matched wholly, or not at all when no lot is open, however calls overlap; lots and dispositions implement `LotBook` |
| `ledger_silent_sale` | 1 caller, 4 requests | *violated*: a sale without dispositions |
| `ledger_pmp` | 1 caller, PMP, 4 requests of 2 units | *violated*: the cost charged by two sales is not the cost paid |
| `backfill` | 2 jobs, 2 workers, 1 retry call, 3 attempts, 3 mishaps, 2 days, under `FairSpec` | ownership, uniqueness, bounded attempts, finality; the table implements `JobQueue`; every queued job finishes |
| `sync` | 2 callers, 1 link call, the account not linked at first; 3 trades without overlap, 1 with it (`MaxOverlap`); `Starts` 0 and 1; a page of 2 trades; the security found by symbol, ISIN or search | coverage (by symbol) and idempotence with the guard passed twice; units covered only once through failures and crashes at every step; no trade missed but those booked during a sync or off the page |
| `sync_missed_trade` | 1 caller, 2 trades | *violated*: a trade is never imported |
| `packs` | 3 jobs, 2 versions, 2 instruments, the second version covers one less | a job that runs alone puts everything right; installs started together converge |
| `builds` | 2 tasks, 2 symbols, both shapes of run | items, outcome and coverage agree at rest; no build is forgotten |
| `builds_retry` | 1 task, 2 symbols | *violated*: a build that has succeeded covers what it fetched |
| `processor` | 1 worker in each pool, queues of 2 and 1, 2 portfolios, 4 calculations, 1 refresh | every job is accounted for, leaves while nothing stops, nothing runs after `Stop`, and `Stop` hangs on nothing but the mutex |
| `processor_stop` | the same with 2 calculations | *violated*: `Stop` returns |

Why the bounds are enough. A lot has to be partially sold, closed, and followed
by another: two purchases and two sales, which is what four requests give;
a quarter of 2 or 5 cents is half a cent or a cent and a quarter, so amounts,
matches and averages are all rounded, and in opposite directions; two dates
make order and arrival differ. Two callers and three requests give one history
entry and two overlapping calls on it. Two workers, two rows and two days are
the least for a unique-index conflict and for a stale row to be claimed by
somebody else; three mishaps let one job survive a crash, a lost write and a
crash of its next worker, and three attempts exhaust them in between. For
syncs, three trades allow opening units with an imported buy, an imported sale
and a buy that is hidden or not by the lots still open; a page of two leaves the
first of them off when nothing was synced between, and an adapter that can ask
from 0 and 1 but not from 2 asks again for a trade it has had, as one that asks
for whole days does. Two overlapping syncs with
one trade already reach all orders of their writes. Three jobs on a pack are one
that leaves it half done and two that overlap on what is left, or that repair
it one after the other; the version that drops an instrument makes an old
coverage row wrong. Two tasks on a build are any overlap of a run with a retry,
a resume or a cancel, and since a task begins again when it has ended, no bound
limits how often; two symbols tell a partial build from a failed one. In the
processor a pool's
channel holds twice its workers, so four calculations fill it and the queue
behind it: jobs are refused, dropped and processed in one history.

Liveness and fairness. `FairSpec` assumes weak fairness of each worker's own
steps (a goroutine with a ticker, whose calls contexts bound), of the arrival of
`next_run_at`, of the clock and of the restart of a server, and strong fairness
of `RequeueStale`, which the loop runs before every batch, so whenever the
worker is idle again and again it runs. Nothing is assumed about `Enqueue`,
retries or crashes; crashes and lost writes are bounded by `MaxMishaps`.
`JobsSettle` is stated for histories in which retry calls stop, since the claim
takes the oldest runnable row first and a row retried for ever starves the
newer ones. In the processor each goroutine is weakly fair on its own steps and so
is a `Stop` that has begun: a job's context ends after 30 seconds and the mutex
is handed on. No tick is assumed to come, no job to expire, nobody to call `Stop`.

`CHECK_DEADLOCK FALSE` is in every configuration because bounded histories end:
with the last request, trade or day used up a system with nothing to do stops.

## 4. What the runs found

- **A sale without tax record.** Deleting a sale restores the position's
  quantity but not the lots. Buy, sell all, delete the sale, sell again: the
  second sale finds no open lot, skips the allocation
  (`service/transaction_service.go:758`) and commits without dispositions,
  though `service/process_sell_dispositions_test.go:159-160` says that
  "silently selling without fiscal G/L is no longer acceptable".
- **PMP does not conserve cost.** The average is taken over the lots FIFO left
  over, at their own costs (`domain/model/tax_lot.go:120-129`). Two units at 1
  and two at 4, sold two by two, are charged 5 + 8 = 13 for 10. Under FIFO the
  same property is a theorem (`FifoRecoversCost`).
- **A trade can be missed.** `LastSyncAt` is the time at which the sync ends
  (`service/sync/service.go:390`), not the time of the fetch, so what is booked in
  between is never asked for. SnapTrade asks for the whole day again and loses
  it only if midnight falls in between. The other way to lose one is the page:
  an adapter that fetches one, as Kraken's does, never sees what came before it
  while `last_sync_at` moves past all of it. Beyond these two nothing is lost:
  `MissedLateOrOffPage` holds through overlaps, failures and crashes.
- **Stop can hang.** `Stop` keeps the mutex while it waits for the workers and the
  collector (`service/background_processor.go:179`), and those take it to record
  a job (`:623`) or to read the metrics (`:432`): whoever comes to it during the
  stop waits for `Stop`, which waits for them. `StopHangsOnlyOnMutex` shows that
  nothing else can hold a `Stop` up, and `HungForGood` that nothing resolves it.
- **A retry loses the rest of a pack.** A retry run fetches only the items that
  have not succeeded, keeps candles in memory, and then writes the pack's
  directory and coverage anew from those alone
  (`service/marketdata/packs/local_build.go:732`): after a partial build of two
  symbols, "run retry-failed" (`docs/market-data-packs.md:263`) ends with
  `succeeded` and a pack without the symbol that was fetched first.

Two more disagreements were met and are not runs of their own. A holding that
is found by its ISIN or by a search gets no baseline lot: the residual step
looks it up by symbol alone and skips it
(`service/sync/reconciliation.go:376-384`), though
`docs/sync-adapter-guide.md:77` describes the three-tier match and `:84-85`
promises opening lots wherever the snapshot exceeds the purchases. That is why
`LotsCoverHolding` speaks of assets found by their symbol. And
`background_processor.go:85-87` and `server/cmd/app.go:379-382` say that drop counters
are surfaced through `GetMetrics`, which does not return them (`:641-652`):
`EveryJobAccounted` is about the counters the processor keeps inside.

Costs of fractional units are not conserved to the cent, by design of the
rounding: each match is rounded on its own (`domain/model/tax_lot.go:160`), so a
unit bought for one cent and sold in halves is charged two.
`LotCostWithinRounding` says how far this can go.

Met while modelling and not stated as a property, since nothing in the
repository promises otherwise: overlapping ledger calls overwrite each other's
position; an updated transaction leaves its position as it was; additions reset
the quantity from `portfolio_assets`, which sales never reduce; a sale can be
refused when several partial sales have made total and average drift by more
than a cent; two overlapping retries of one job can clear the lock of a running
row; overlapping syncs and a link call can undo the link, or move
`last_sync_at` back, after which a trade may be imported on top of a baseline
lot that already covers it. In the processor, a calculation that fails is
recorded as a success (`updateMetrics` is always given `true`), and a job can
enter a queue after `Stop` has begun and stay there.

Of packs: no job is resumed after a crash; `CancelPackJob` never stops an
install that has begun, and the install then overwrites `canceled`; overlapping
installs can leave an instrument covered by two rows, one bridged and one not;
directories of earlier versions are never removed; a reader fails while an
install is between removal and rename. Of local builds: a cancel can be
overwritten by the run's next write or by the start call's second one, and a
late cancel overwrites `succeeded`; a retry issued while the run is about to
report is lost; nothing starts a run when an item's `next_retry_at` comes;
`time.Minute << (attempt-1)` wraps for large attempts. Met in the exchange
rates, which are not modelled: the daily series is kept free of gaps by
fetching from the last stored day, but a day whose history fails while its
quote succeeds is stored all the same and the gap before it never filled
(`service/fx_scheduler.go:214-217`, `:309`).

## 5. Proofs

All theorems hold for every value of the constants that satisfies the named
assumptions of the module: any number of jobs, workers, callers, tasks or
clients, and histories of any length.

| Module | Theorem | Statement |
|---|---|---|
| `Ledger_proofs` | `TypeCorrect`, `ConservesLots` | `Spec => []TypeOK`, `Spec => []LotConservation` |
| | `OldestFirst`, `MatchedWhole` | `Spec => OldestLotFirst`, `Spec => SaleMatchedWhole` |
| | `CostConserved` | `Spec => []LotCostWithinRounding` if `Method = "FIFO"` |
| | `FifoRecoversCost` | `Spec => []FullSaleRecoversCost` if `Method = "FIFO"` |
| | `KeepsLotBook` | `Spec => ImplementsLotBook` |
| | `PositionCorrect`, `LotsCorrect`, `CostCharged` | `PositionMatchesTransactions`, `LotsMatchPosition`, `EconomicCostConserved` if `OneCaller` |
| | `HighestCostFirst`, `LowestCostFirst` | no allocation of the units of a sale costs more than the one of HIFO, none less than the one of LOWEST_COST, but for half a cent of rounding per match |
| `BackfillJobs_proofs` | `TypeCorrect`, `OneActive` | `Spec => [](TypeOK /\ Deadlines)`, `Spec => []OneActivePerRequest` |
| | `Ownership`, `AttemptsBound`, `Final` | `WorkerOwnsRow`, `AttemptsBounded`, `FinishedIsFinal` if `OneRetrier` |
| `BackfillRefinement_proofs` | `Refinement` | `Spec => ImplementsQueue` if `OneRetrier` |
| `AccountSync_proofs` | `TypeCorrect`, `Covered`, `RepeatIdempotent`, `TrackedOnce`, `MissedLateOrUnpaged` | `TypeOK`, `LotsCoverHolding`, `RepeatCreatesNoLot`, `UnitsTrackedOnce`, `MissedLateOrOffPage` |
| `MarketDataPacks_proofs` | `TypeCorrect`, `LoneRestores`, `Converge` | `TypeOK`, `LoneSuccessRestores`, `InstallsConverge` |
| `LocalBuilds_proofs` | `TypeCorrect`, `Remembered`, `Settled`, `Truthful`, `Earned` | `TypeOK`, `NotForgotten`, `ItemsSettled`, `OutcomeTrue`, `CoverageEarned` |
| `BackgroundProcessor_proofs` | `TypeCorrect`, `Quiet`, `Accounted` | `TypeOK`, `QuietAfterStop`, `EveryJobAccounted` |
| | `HungForGood` | `Spec => [](Hung => [](stop # "returned"))` |
| `SumTheorems` | `SumRemove`, `SumWithin` | a sum over a finite set is any one term plus the rest; terms that differ by at most `k` have sums that differ by at most `k` for each; from the first, sums of two functions (`SumAdd`), over disjoint parts and classes (`SumDisjoint`, `SumClasses`), along a bijection (`SumBijection`) |

The argument for the ledger. Its properties are about sums over sets of rows,
which the community modules define by a fold with a CHOOSE at each step. That
such a fold has the value one expects needs an induction over finite sets; the
library's induction theorem takes an operator and cannot be used, but its
well-founded minimum can: a finite set with a minimal counterexample is a
first-order statement. `SumTheorems` shows this once (`SumRemove`, for the
library's own definition), and everything else is adding and removing terms.
The invariant `IInv` is types, ids that are never used twice (`IdsOK`), calls
that hold rows of their kind (`CallsOK`) and conservation itself: a lot is only
changed together with its disposition. For a sale, the lots in the method's
order are a bijection of `1 .. n`; what lot `i` yields is what is left of the
sale after the sum of the lots before it (`Before`), so the yields add up to
the sale (`PrefixTaken`) and a lot is touched only when all before it are empty
(`EarlierEmptied`): those are `SaleMatchedWhole` and `OldestLotFirst`. Under
FIFO a disposition costs its units at its lot's unit cost, rounded: half a cent
off at most (`HalfOff`). The units are conserved, so the exact costs add up, and
the roundings to no more than half a cent for each disposition (`SumWithin`,
`RoundedSum`), which is `LotCostWithinRounding` and, with every lot sold,
`FullSaleRecoversCost`. With one caller the copy a call holds is still the row
when it commits; then quantity and transactions move together, a deletion
replays exactly what is left, and while nothing has been deleted each purchase
has its lot and each sale its dispositions (`BooksLinked`), so the two books
agree. `OneCaller` is one client and the operations buy, sell and delete: with
two, or with update and add, the code does not keep these (section 4).

The cost of sales with one caller is `CostInv`. What a sale charges is its units
at the stored average, truncated; what it takes off the position's total is a
rounded share of that total; and average and total agree to within a cent
(`Consistent`, the code's `validateCostBasis`). So one sale moves the
difference between what was paid and what is accounted for by two cents up or
one down at most (`CostOfSale`), for any quantities and prices, and
`EconomicCostConserved` allows `-k .. 2 * k` after `k` sales. The amount of a
purchase is truncated where it is recorded, so it is the same on both sides.
These are the roundings of `CostBasis`, which are the code's as long as total in
cents times quantity in parts stays below `2 * 10^16`.

The refinement needs `BookInv`: the row a call is about to record carries
a quantity that may be requested, and a sale has one disposition row on a lot,
so that the sum of its rows on it is that row. `BookStep` then reads each step: a purchase adds a
lot that was not there (`AcquireSeen`); in a sale, what the rows of each lot
lose is what the new dispositions record (`SaleSeen`), and these add up to the
sale (`PrefixTaken`); no other action touches lots or dispositions.

What the methods promise about cost is proved of the operators of `TaxLots`, by
exchange. Order the open lots as the method does and let `m` be the last lot
drawn on. The sale takes all of every lot before `m` and nothing after it, so
another allocation of the same units takes no more before `m` and no less after
it. Under HIFO the lots before `m` cost at least what `m` costs and those after
it at most that; moving units from the first to the second never adds cost
(`Exchange`, with the unit cost of `m` as the price of comparison). What is
charged is that cost rounded match by match, hence the slack of half a cent for
each. LOWEST_COST is the mirror image.

The argument for the queue. `Deadlines` bounds how long a worker can have been on its job:
`JobTimeout` while fetching, `RebuildTimeout` more while rebuilding.
`WorkerOwnsRow` says that a busy worker's row is RUNNING, carries its id and is
exactly as old as the worker's own clock; it is not inductive alone, because a
requeue could take the row away (`Deadlines` and `StaleAssumption` exclude it),
the worker's own store could be refused by the index (`OneActivePerRequest`
excludes it), or a retry call could overwrite it (`RetryHoldsFinished`: the row
a retry is about to write is still finished, which is where `OneRetrier` is
used). Together they are `Owned`; each action preserves each part. The bound on
attempts adds `AttemptInHand`: an active row nobody is processing has an attempt
left, counting mishaps. `IInv` in `BackfillJobs` is the whole invariant.
Finality is a step property that follows from `Owned`: a worker writes only
over a RUNNING row. The refinement adds that an idle worker's record names no
job (`RestHoldsNone`) and matches each action with one of `JobQueue`: a claim
is a `Take`, a completion or failure a `Release`, a crash or a lost write a
`Vanish`, a requeue of stale rows a `Recover` of exactly the rows no worker is
on, and everything about clocks and backoff a stutter.

The argument for the syncs. `LotsCoverHolding` is inductive with types and
history: only a reconciliation changes either side, and its baseline makes up
what is missing, if the asset is found by its symbol (otherwise there may be
none, and nothing is claimed). The pages do not matter to it: the baseline is
computed from the holding. A unit could be tracked twice by a baseline lot and its later
import. Without overlap the call's `last_sync_at` is the row's (`OneAtATime`),
what it saw as held was bought by then (`SnapshotsOK`), and a baseline lot
covers an opening unit or a buy that no later sync will import (`Settled`,
`BaselineEarned`): it is imported already, or older than what will be asked for
(`Passed`), or older than the newest page, where it stays as the provider trades
on (`OffNewestPage`); and the call under way does not hold it (`InHand`). The
same late `last_sync_at` that loses trades is what keeps this true. What
`Passed` says never shrinks, since `last_sync_at` does not lie in the future
(`PastSyncs`). Which trades those are is
`MissedLateOrOffPage`, and here overlaps need not be excluded: whatever copy
of the row a sync or a link may still write back, the trades before its
`last_sync_at` were imported, late or off the page when it was read, and these
sets only grow (`CopiesTrue`); a sync that has fetched holds in its hands, or has
noted as off the page, all that is later and not late, so at its end the present
time is true as well. An adapter that asks from an earlier instant than
`last_sync_at` only gets more.

The argument for packs. For a lone job, each step leaves what the next one
relies on (`LoneProgress`): before the upsert the directory is whole, before
the insert there is no coverage, and at the report everything agrees, whatever
was there before. For installs started together, whatever one of them has
undone another is about to do again: a directory that is missing has a job
about to rename one in its place, coverage that is erased has one about to insert
(`InstallProgress`). When the last has ended nobody is left to be waited for,
so nothing is missing.

The argument for builds. `Attended` is inductive alone: whoever ends a task that
runs writes a final status or is a fault. The rest is `BuildInv`, about
histories without mishap and overlap: job, items and first run come one after
another (`Births`), one run is at work (`OneRunner`), every unsettled item is
still ahead of it and what it has fetched is not (`RunProgress`), and the
outcome it has counted stays true until it is reported (`Reported`), since a
cancel turns failures only into cancellations.

The argument for the processor. How far `Stop` has come says who has ended
(`StopProgress`): the first pool, then the second, then the other goroutines;
each of these stays ended, and when all have ended no action is enabled, which
is `Quiet`. The same says that a `Stop` cannot get past the wait for a goroutine
that waits for the mutex `Stop` holds, which is `HungForGood`. `TypeCorrect`
needs that a dispatcher or a worker holds a job exactly in the states in which
it handles one. `Accounted` treats each action as a move
of jobs between two terms of the sum (`Moves`); the lemmas before it say how a
send, a receive, a job taken or recorded changes the term (`TotalLengths`,
`TotalHanding`, `BusyCount`). The sum is inductive together with `TypeOK`.

Assumptions on constants, all evaluated by TLC on the runs: in `CostBasis`
`PartsAssumption`; in `Ledger` `OpsAssumption`, `RequestAssumption` (positive
quantities), `EditsAssumption`, `MaxTxAssumption`, `MethodAssumption`; in `BackfillJobs` `JobsAssumption`, `NoWorkerAssumption`,
`BoundsAssumption`, `StaleAssumption`; in `AccountSync` `NumbersAssumption`,
`LinkedAssumption`, `AdapterAssumption`, `MatchAssumption`; in `MarketDataPacks` `VersionsAssumption`,
`ManifestAssumption`; in `LocalBuilds` `NoSymbolAssumption`,
`SymbolsAssumption`; in `BackgroundProcessor` `WorkersAssumption`,
`SizesAssumption`. `OneRetrier`, `OneCaller` and `Method = "FIFO"` are
hypotheses of single theorems, stated with them.

Only model-checked: `JobsSettle`, `JobsLeave` and `StopHangsOnlyOnMutex`, since
liveness and ENABLED are beyond the prover. Every invariant and action property
of a passing run is stated by a theorem. `MethodAssumption` restricts the
ledger's state machine to FIFO and PMP, the only methods a sale ever chooses
(`transaction_service.go:725`, `:747`). LIFO, HIFO and LOWEST_COST exist in
`TaxLots` and differ from FIFO in the order of the lots alone; what HIFO and
LOWEST_COST are for (`tax_lot.go:28-29`) is proved of the operators, and no run
uses them.

## 6. Plan

Done: `CostBasis`, `TaxLots`, `Ledger`, `BackfillJobs` with `JobQueue`,
`AccountSync`, `MarketDataPacks`, `LocalBuilds`, `BackgroundProcessor`, each
state machine with its proofs.

Left, in order of what they would add:

1. Compose a sync with the ledger's calls on one account: they share the
   position and its lots and have no common lock.
2. `AddInstrumentToPortfolio` in `Ledger`: its purchase has a row and no lot, so
   `LotsMatchPosition` and `EverySaleMatched` would be about fewer histories.
3. `FxRates`: the scheduler's refresh, its gap, and `SetMode`, which replaces
   the ticker while the loop reads it.
4. `RepairLocalBuildStorage` in `LocalBuilds`, and several connections and
   securities in `AccountSync`.
5. The fee and short/long-term columns of dispositions.

## 7. Not modelled

Fees, currencies and the split of gains into short and long term; transactions
that an import records without touching the position; updates that turn a
transaction into something other than a purchase or a sale;
`AddInstrumentToPortfolio` (`service/instrument.go:435-667`), the way an
instrument of the catalogue enters a portfolio, which writes a position and a
purchase but no lot; recalculation of snapshots, which only reads the ledger;
several securities and cash in a sync, and the entries other than trades that
share a page of the provider's ledger; registration and discovery of connections; parent packs,
priorities between packs and the reading of a pack's files; the estimate of a
build, `RepairLocalBuildStorage` and the writing of parquet files; `Start`
after `Stop` of the processor, which nothing calls. Whole components:
authentication, sessions and rate limits (access control in single rows);
alerts (a stub that sends nothing), notifications and monitoring; market-data
providers and their caches (outside data with time-limited copies); exchange
rates (rows refreshed idempotently; see section 4 for the one gap met);
valuation and performance statistics (real numbers, large SQL); plain
single-row services; handlers (most of them generated), client and Python
service. `PROJECT.json` lists every component with its reason.
