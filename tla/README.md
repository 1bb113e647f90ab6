# Stretus in TLA+

Stretus turns a conversation into a trading strategy, backtests it, and evaluates
it live, for one symbol or for a *dynamic universe*: a rule that is resolved again
and again into the symbols the strategy trades. This directory specifies the parts
whose correctness depends on order, on concurrency, on failures, on what is known
at what time, or on an account that has to balance. Paths below are relative to the
repository; paths without a root are under `app/services/`.

## The system

| Process | What it is |
|---|---|
| API (`app/`) | FastAPI service, several replicas: chat, strategies, backtests, execution. PostgreSQL is the only state the replicas share. |
| Quant engine (`quant_engine/`) | A second service: takes a backtest job, answers at once, computes in a thread, puts the result back. |
| Order management system (OMS) | External. Owns deployments, positions and orders; calls the API on every bar. |
| Market data, LLM provider, broker | External. |

### Components

**Shared pool** (`execution/portfolio_manager.py`). *State*: open positions with
their capital and sector, free cash. *Operations*: construct, `evaluate_entry`,
`admit`, `release`, `rebuild`. *Hard*: caps at their limit, capital that must add up
after any sequence of calls. *Correct if*: never more positions than slots, never
negative cash, no rupee lost.

**Dynamic-universe evaluation** (`execution/universe_evaluator.py`, called by
`routes/execution.py`) with its **window cache** (`execution/live_universe.py`).
*State*: the members by refresh instant, per process. *Operations*: look up or
resolve the members, rebuild the pool from the positions the OMS sent, evaluate the
members and then the held symbols that left the universe (an `await` each), arbitrate
exits before entries. *Hard*: replies that are lost, calls that overlap, misses of
the same window, fills of the broker during a call, members that rotate out while
they are held. *Correct if*: cap and capital hold on what the OMS ends up with, every
held position is managed, a bar evaluated twice buys once, a window has one list.

**Universe resolution** (`universe/resolver.py`). *State*: none between calls; the
tasks of one call. *Operations*: clean the pool, fetch every candidate concurrently,
screen, rank, take. *Hard*: fetches that fail alone, ties, missing readings.
*Correct if*: the members are the best of those that qualify, whatever fails.

**Dynamic backtest** (`universe/backtest_orchestrator.py`,
`quant_engine/engine/portfolio.py`; in a chat turn `universe/chat_resolution.py` and
`_aggregate_universe_portfolio`). *State*: the members and their candles; then
open positions, cash, a ledger per sector, fills, equity events. *Operations*:
resolve, load, simulate, replay. *Hard*: members that do not load, ties of time
between symbols, a ledger kept by clamped subtraction, the flush at the end.
*Correct if*: an entry competes with exactly the positions open at its time, and
capital is conserved.

**Membership history** (`universe/ingestion.py`, `universe/membership.py`) and the
**windows** a backtest draws from it. *State*: intervals in a table. *Operations*:
`apply_snapshot` in two transactions, `members_on`. *Hard*: a job that dies between
the two, repeats, jobs of two tenants at once. *Correct if*: an applied day is
answered with its list for good.

**Universe refresh** (`execution/universe_scheduler.py`, `universe_driver.py`,
`universe_persistence.py`). *State*: member rows, audit rows, an advisory lock, a
job per replica with its open transaction. *Operations*: gate, load, try lock,
resolve, write, unlock, commit; `set_member_allocation` beside them. *Hard*:
replicas, a lock that ends before its transaction, rows loaded before the lock,
failures at every point. *Correct if*: one replica resolves at a time, rows and audit
agree, a job leaves active what it resolved, no instant of the cadence goes unserved.

**Single-symbol evaluation** (`execution/strategy_evaluator.py`, `risk_manager.py`,
`account_manager.py`, `rule_engine.py`). *State*: none; rungs, stop, quantity and
counters are the caller's. *Operations*: exits, then account checks, gates and
sizing of an entry. *Hard*: several rungs in one evaluation, rounding, lost replies,
limits that are checked at one entry each. *Correct if*: no more is sold than was
bought, the rest is protected, a stop is never loosened, the account keeps its limits.

**Trade simulator** (`quant_engine/engine/simulator.py`). *State*: the open trade,
its lines and rungs, counters of the session. *Operations*: one bar after the other.
*Hard*: decided on one bar, filled on the next; exits at the last bar of a session;
two copies of the booking of a trade. *Correct if*: trades are disjoint, breakers
hold, a loss stays within its risk.

**Signals** (`quant_engine/engine/patterns.py`, `htf.py`, `conditions.py`,
`timeframe.py`, `execution/rule_engine.py`). *State*: none; frames of candles.
*Operations*: resample, align, find patterns, evaluate a condition on arrays
(backtest) or on a data frame (live). *Hard*: a value used before it is known, two
evaluators for one language, a live frame that is shorter. *Correct if*: nothing that
was said of a closed bar is revised, and live says what the backtest says.

**Backtest lifecycle** (`routes/backtest.py`, `backtest/result_store.py`,
`quant_engine/main.py`). *State*: status of the strategy, backtest rows, tasks and
jobs in memory. *Operations*: trigger, background task, engine job, callback with
retries, chat runs, failure path. *Hard*: time-outs racing late answers, repeated
callbacks, restarts. *Correct if*: a busy strategy has a running backtest, a
completed row has a result, every backtest ends.

**Chat turns** (`chat/chat_service.py`, `routes/chat.py`) and **LLM key rotation**
(`ai/openrouter_key_manager.py`, `ai/llm.py`). *State*: message rows with a status,
tasks in memory and their registry; the active key index. *Operations*: accept a
message, run its turn with LLM calls, fetches and backtests, pause, fail; begin a
call, rotate on an exhausted key. *Hard*: a pause at any await, the database session
closed around long calls, turns that overlap, callers that move the index under each
other. *Correct if*: a turn ends with one outcome that its message tells; no call
tries a key twice or stops for want of attempts.

**Chat workflow** (`chat/chat_service.py`, `strategy/builder.py`,
`strategy/yaml_generator.py`). *State*: the draft of the session with its mode, the
strategy row, the YAML file the row names. *Operations*: take inputs, plan signals,
modify signals, settings or inputs, start anew, assemble, backtest. *Hard*: every turn
may take any route, a plan is made for inputs that change later, one file is written by
assemblies, by calibrated backtests and by other sessions, an assembly may fail after
its file is written. *Correct if*: a backtest is of the strategy it is stored with, and
a user who confirms is never asked the same for ever.

Components without a module are listed with the reason under "Not modelled";
`PROJECT.json` has all of them.

### How they interact

    chat message --> turn --> LLM calls                ChatTurns, KeyRotation
                      |    what a turn makes of the strategy   ChatWorkflow
                      |
                      +--run of a universe--> replay               DynamicBacktest
                      +--run--> API --job--> engine --callback--> API   BacktestLifecycle
    lists --> intervals --> windows ----+      |
                 MembershipHistory,     |   signals --> simulated trades  SignalPipeline, Simulator
                 MembershipWindows      +----> replay of all members    DynamicBacktest, BacktestPortfolio
    cadence --> refresh job --resolve--> members of a deployment        UniverseRefresh, UniverseResolver
                                               |
    OMS --evaluate(positions)--> fan-out over members --> arbitration   UniverseEvaluate
                                    |                       |
                            one symbol's exits         shared pool      StrategyEvaluator, SharedPool
                            and entry

The pool is the one component two others contain: `LivePortfolio` drives it alone
in every order of operations, `UniverseEvaluate` embeds the same operators
(`SharedPool`) in the protocol with the OMS. `BacktestPortfolio` is a second
implementation of the same idea, so both are shown to implement `SharedCapital`.
`DynamicBacktest` composes `UniverseResolver` and `BacktestPortfolio`: the first's
members are the second's symbols. `ChatTurns` composes `KeyRotation`: each turn is a
caller of it. `SignalPipeline` composes `SignalFrames` and `Conditions`;
`MembershipWindows` extends `MembershipHistory`. `ChatTurns` and `ChatWorkflow` look at
the same function from two sides: the first at its awaits and its transactions, with the
content of a draft reduced to what was heard; the second at what whole turns, one after
the other, make of that content.

## Modules

| Module | Models | Role |
|---|---|---|
| `SharedCapital` | – | Abstract specification: slots and free capital, a stake per symbol |
| `SharedPool` | `portfolio_manager.py` | Pure operators: `Verdict`, `Allocation`, `Admit`, `Release`, `Rebuild` |
| `LivePortfolio` | `LivePortfolioManager` | The object driven in any order; implements `SharedCapital` |
| `UniverseEvaluate` | `evaluate_dynamic_universe`, `resolve_universe_windowed` | The pool inside a service that talks to the OMS, and its cache |
| `UniverseResolver` | `resolve_universe` | Concurrent fetches, screen, rank, take |
| `DynamicBacktest` | `run_dynamic_backtest`, `run_portfolio_backtest`; `resolve_member_symbols`, `_aggregate_universe_portfolio` | Resolver, loader and replay in one run, by the route or the chat |
| `BacktestPortfolio` | `PortfolioManager.run`, `_build_result` | The replay; implements `SharedCapital` |
| `MembershipHistory` | `apply_snapshot`, `members_on` | Intervals under two transactions |
| `MembershipWindows` | `membership_windows_from_snapshots`, `_entry_in_windows` | What a backtest sees of them |
| `UniverseRefresh` | the refresh job of every replica | Locks, transactions, failures |
| `StrategyEvaluator` | `evaluate` and the OMS around it | Positions, account, lost replies |
| `Simulator` | `simulate_trades` | The bar loop |
| `SignalFrames` | resampling, alignment, patterns | Pure operators on frames |
| `Conditions` | the two evaluators of a condition | Pure operators on a frame and a bar |
| `SignalPipeline` | `run_backtest`, the live signal | What is said of each bar as the stream grows |
| `BacktestLifecycle` | API and engine around one strategy | Tasks, callbacks, restarts |
| `ChatTurns` | the turns of one chat session | Tasks, pauses, sessions of the database |
| `ChatWorkflow` | `run_ai_processing` as a workflow, `StrategyBuilder`, `generate_yaml` | From inputs to plan, file and backtest |
| `KeyRotation` | `rotate_key_on_exhaustion`, `_openrouter_with_rotation` | Concurrent callers |
| `Ordering` | Python's `sorted` | A set in the order of a relation: the element at place *k* has *k* - 1 before it |
| `*Proofs` | – | Theorems and proofs about the modules they extend |
| `SumLemmas` | – | Lemmas about sums, folds, sequences and orders, which several proofs share |
| `MC*` | – | Finite instances |

### LivePortfolio and SharedPool

`pool` is `_positions` (a function on the open symbols) and `_cash`; `booked`
(history) sums the realised results. `Enter` is `evaluate_entry` followed by
`admit`, `Exit` is `release`; a restart is a behaviour that begins at `rebuild`.
`Verdict` keeps the order of the refusals (already open, cap, no capital, sector).
Amounts are whole rupees and quotients round down, where the code has floats.

### UniverseEvaluate

| Action | Code |
|---|---|
| `StartHit` | the members of the window are in `_CACHE`; the pool is rebuilt and the symbols listed |
| `StartMiss`, `Resolve` | they are not: the resolver is awaited, its list stored whatever another call stored meanwhile |
| `Forget` | eviction of the oldest entries, or a new process |
| `EvaluateMember` | one iteration of the fan-out, `StrategyEvaluator.evaluate`: exit, entry or nothing |
| `Aggregate` | `aggregate_member_evaluations`: pass 2a, then 2b; one step because it does not await |
| `ApplyReply`, `LoseReply` | the OMS (external): orders deduplicated by `generate_idempotency_key` |
| `BrokerStop`, `NextBar` | the market (external) |

`call[c].sent` is the snapshot of positions the call carries, which the book may
have left behind by the time the reply is applied. What `evaluate` answers for a
member is any answer it may give at all. `Aggregate` takes the exits out of the pool
as a set (they do not compete) and folds the entries over what is left, in the order of
the list. `Deterministic` says whether the resolver
reads the history as of an instant or a live ticker. An admitted entry carries both the
allocation and the cost of the RiskManager's own quantity, which passed the margin check
against the free cash before arbitration; `BuysAllocated` says which of them the
OMS buys: the service reports both and scales neither. A resolution that fails is a
lost reply. Only deployments by rule are modelled.

### UniverseResolver, DynamicBacktest, BacktestPortfolio

`Begin` and `Refuse` are the beginning of `resolve_universe` (cleaned pool, empty or
too long); `Fetch` and `FetchEnds` one task of `gather` under the semaphore, with a
failure of its own; `Resolve` the rest: screen, floor, rank, take, and the breadth gate with its measures.
The reference series of a rank by relative strength is left out: no caller in the
program names one (`resolver.py:177`).
Readings are small numbers or `NaN`; tickers are model values, those that normalise
to the same symbol included. The lists that the code filters are sets here; the order
that `sorted` keeps among equal ranks is the place in the pool (`RanksBefore`).

`LoadMembers`, `Load`, `LoadEnds` load the members with their own concurrency,
`NoMembers` returns early, `RunPortfolio` posts to the engine, `EngineFails` and
`EngineAnswers` end it; `Ended` is the only idle state, so a hang is a deadlock.
A chat turn shares `Resolve` for equities and has `ListMembers` for a watchlist or the
exchange's ticker, `RunMember` (one member after the other, each may fail), `RunGroup`
(a manager of its own) and `GroupFails`. `by` says whose run it is once that matters.

`Run` constructs the portfolio manager (slots, sizing, sector map or none) and orders the candidates; `Release`,
`ReleaseOne`, `Released` are `_release_until`, one closed position at a time so that
the equity events in between are visible; `Admit` and `Skip` are the body of the loop.
After the last candidate `NextNow` is the flush to the last exit. `CurveAt` is the
sort and the "last event wins" of `_build_result`.

### MembershipHistory and MembershipWindows

A job is `Read` (the open rows of its tenant), `Upsert` (the first transaction, with
its ON CONFLICT under the unique key), `ReadAgain`, `Close` (the second), `Return`;
`Die` anywhere loses the open transaction. `Windows` sorts the days and compresses the answers of
`members_on` for a series of days to intervals and `EntryAllowed` is the engine's
filter.

### UniverseRefresh

| Action | Code |
|---|---|
| `Load` | gate `should_fire` and `load_active_members`, before the lock |
| `TryLock`, `SkipTick` | `pg_try_advisory_lock` |
| `Resolve` | the resolver; returns any membership |
| `ReadAudit`, `InsertAudit` | `persist_snapshot`: the SELECT, and the INSERT, which waits while another job's row with the key is pending |
| `ReadMembers`, `Apply` | `apply_membership_diff`: the SELECT, and the flush, which waits for the rows another job has written |
| `KeyTaken` | an INSERT whose unique key another job has committed since the SELECT: the job ends |
| `Unlock` | `finally` of `run_refresh_tick` |
| `Commit` | the caller's commit |
| `Fail` | any exception or the end of the process |
| `SetAllocation` | `set_member_allocation` |
| `NextTick` | the clock |

A transaction is a set of pending column writes, `Keep` for a column the ORM's
UPDATE does not name (SQLAlchemy writes only attributes that changed from what the
session loaded). A row that is written is locked until its transaction ends. The rows
of the retired are the objects loaded before the lock, which a second SELECT does not
refresh; those of the spawned are read by it, and one that is read as `active` gets
only the new hash. `set_member_allocation` has no caller in the repository but its
tests, nor has `run_universe_refresh`: when they run is the driver's choice, and the
model lets them run at any time.

### StrategyEvaluator

`EvaluateExits` and `EvaluateEntry` are one call of `evaluate` (`_run_exit_phase`
returns before the entry phase whenever something is held and exits);
`ApplyExits`, `ApplyEntry` and `LoseReply` are the OMS, which is external: a lost
reply loses the rungs and the stop as well, because they were set in the request's own
objects. The reply names neither; the OMS is *taken to* derive them from the exit
price, the weakest assumption under which a ladder can work at all. `NextBar` brings
any of the prices.

### Simulator

One step is one bar: `WarmUp` (not enough bars yet), `Watch` (no position: session,
confirmation, gates, an entry filled at the next open), `Break` (no position at the last
bar: there is no next open), `Hold` and `LadderDone` (an open trade, the second when its
ladder is used up), `EndOfData`. A bar is its open and its minutes, `Candle` the bar as
one candle; what the conditions and the gates on market data say of it is arbitrary.
`Passes` is what the loader lets through of a strategy. Prices, stops, targets and trailing distances are ticks where the code has
percentages; a stop placed by ATR, EMA or structure is not modelled.

### SignalFrames, Conditions, SignalPipeline

`SignalFrames` has `Resampled` (bars of a timeframe from minutes, the last maybe
partial), alignment of a reference or higher timeframe to bars, pivots and the
structural patterns, and the opening range. In `Conditions` a parsed condition is the
table of its nodes: a node names its operands by their places, which are before its own,
and the root is the last. The recursion of the evaluators over the syntax is thus a
function over the places, `Columns`, with the column of every node over the frame.
`FastCall` on prebuilt arrays and `SlowCall` on the data frame are the two meanings of a
function, all other nodes mean the same (`ValueAt`), and `FastPathSafe` says for what
conditions the arrays are used. A node that would make an evaluator raise is not in the
language (`Arguments`).

In `SignalPipeline`, `PrintMinute` prints a minute of the symbol and one of its reference,
each with a shape or without a trade (`Prints`). `RunBacktest` computes the signals of
everything so far; a reference that the strategy declares is resampled to its frame and
merged into the bars, and without a series of it there is no backtest. `EvaluateLive`
computes those of the last bar of the last `Lookback` candles. Either answer is kept and
compared with what a backtest says at every later moment. The bars of a higher timeframe
are resampled from the minutes printed, where the code asks its provider for them.
`LooksBack` and `LookbackSuffices` say of the strategies what the two properties need;
both hold of the instance, which TLC checks. Averages and ratios are rounded down.

### BacktestLifecycle

`TriggerCheck`/`TriggerCommit` split the route at its read of the status.
`DynamicRun`, `Post`, `PostAnswered`, `TaskFails`, `MarkFailed`, `MarkLost` are the
background task and its failure path; `Accept`, `Execute`, `Callback`,
`CallbackUnanswered`, `CallbackFails` the engine; `ChatRun`, `ChatRunFails`,
`ChatReconfirms` the chat's own writes; `ApiCrash` and `EngineCrash` drop what is in
memory. Whether a strategy names a universe is read from its file when the task
runs, so both branches are open to every task. Outcomes are what
`_classify_backtest_status` tells apart.

### ChatTurns and KeyRotation

| Action | Code |
|---|---|
| `Send` | the route commits the user's message, registers and starts a task |
| `Start` | the first reads of the task: history and last draft |
| `Ask`, `Reply` | an LLM call: `KeyRotation!Begin`, then its answer |
| `Fetch`, `FetchReplies` | a market-data call with the database session released |
| `Backtest`, `RunSymbol`, `SymbolEnds` | `_run_single_asset_backtest`, symbol by symbol, each with its own rows |
| `Answer` | the assistant's message and the user's status in one commit |
| `Fail`, `WriteFailure`, `HandlerFails` | the exception handlers and their own session |
| `Pause`, `PauseHandler`, `WriteCancel` | a cancellation, delivered at the next await, and its handler |
| `Restart` | the tasks are gone, the rows stay |

In `KeyRotation`, `Begin`, `Answered` and `Rotate` are the segments of the rotation
loop between two awaits; `good` is the set of keys with credit, fixed for a
behaviour.

### ChatWorkflow

| Action | Code |
|---|---|
| `ModifySignals` | the route that swaps, adds or removes signals, or takes a formula; back to planning even if nothing applied |
| `RiskUpdate` | the settings route, unless the message is rerouted as a confirmation |
| `ModifyInputs` | the inputs are changed, or it is asked which field or which value |
| `Respond` | the main path without an assembly: inputs heard, confirmed, planned |
| `Assemble` | the main path with one: file, row and mode, or the file only when the transaction fails |
| `NewStrategy` | the main path with a builder of its own; the session's row stays |
| `RunBacktest` | a backtest by message, of the file, or of the calibrated draft written to the file |
| `RouteBacktest` | `POST /backtest` |
| `OtherSession` | a session with the same asset and timeframe writes the same file |
| `Settle`, `Confirm` | external: from now on the user says "yes" and nothing else |

The LLM router is a free choice of the action. The asset stands for the six core inputs,
since each of them is missing or not and changed or not; it also names the file, as
symbol and timeframe do. Only the file that the row names is read, so it is the only one
kept. `spoilt` (history) says that another writer, a failed assembly, a backtest of
another asset or a setting taken in passing came after the last assembly.

## Runs

| Run | Shows | Instance |
|---|---|---|
| `live_portfolio` | The pool keeps cap, cash and capital through sizing by risk, partial allocations, a sector cap and restarts, and implements `SharedCapital` | 3 symbols, 2 of one sector, 2 slots, fresh or rebuilt; 1,477 states |
| `evaluate` | Cap and capital hold on the OMS's book through lost replies, broker stops and rotation; held symbols are always managed; a cap refusal is real | 3 symbols, 2 slots, 3 bars, 1 call at a time, a resolver that may answer anything, an OMS that buys the allocation; 333,159 states |
| `evaluate_overlap` | One entry per symbol and bar, one list per window, with two calls in flight, retries and forgotten windows | 2 symbols, 1 slot, 2 bars, an OMS that buys the response's quantity; 293,167 states |
| `dynamic_backtest` | The members are the best that qualify; cash, positions and sectors agree; decisions on time; no spurious refusal; implements `SharedCapital`; no run hangs | 3 symbols, 4 rules (no gate, each measure of breadth, one without a feed), 8 readings, 6 trade lists, both callers, with and without sectors; 332,690 states |
| `membership` | An applied day keeps its list; tenants do not disturb each other; windows admit members only | 2 jobs, 2 symbols, 4 lists, 1 fault; 302,452 states |
| `refresh` | One resolver; every row has its audit; a commit leaves what it resolved, up to what others have committed; retired is flat unless a stamp came in between; every instant is served | 2 replicas, 2 symbols, 2 instants, 1 failure; 141,776 states |
| `evaluator` | Never oversold, the stop answered until the last rung has fired, risk and account within limits, the stop only tightens | 5 prices, 5 bars, 2 positions, 3 strategies (a ladder that sells all, one that sells half, a single target); 455,179 states |
| `simulator` | Trades disjoint and inside sessions, breakers respected, losses bounded, the level only tightens | 5 bar shapes, 7 strategies, 7 bars; 144,803 states |
| `signals` | No look-ahead; live and backtest agree on closed bars | 11 strategies, all streams of 6 minutes; one with a reference of frame 2 and the 5 minutes of `Together` for both; 847,424 states |
| `lifecycle` | Busy strategies have a running row, completed rows a result; every backtest ends | 2 backtests, 3 attempts, 3 faults, 2 restarts; 119,893 states |
| `chat` | One outcome per turn, told by its message; drafts accumulate; every turn ends; keys are tried in order | 2 messages, 2 keys, 1 fault; 384,648 states |
| `workflow` | A backtest is of the strategy it is stored with, whatever routes the turns take; a user who confirms gets the plan assembled | 2 assets, 2 sets of rules, 2 settings; 217,940 states |

### Bounds, and why they are enough

- *Pools.* Three symbols against two slots is the least that has a refusal, an exit
  and an entry in one arbitration. The lists of members include one that drops a held
  symbol, one that brings it back and an empty one. Three bars in windows of two tell
  a retry of a bar from the next one, and a window from the next one. Capital and stop
  distances make one allocation partial and one whole.
- *Dynamic backtest.* Fetch concurrency 2 and load concurrency 1 differ from each
  other and from the number of symbols; readings include a tie, a missing rank, too
  few bars and one below the floor; the trade lists hold a total loss, a re-entry at
  the exit's time, an entry and exit at one time, a trade before the window and a
  target above the pool.
- *Refresh.* Two replicas suffice for every pairwise race; two instants, so that a
  late replica meets a newer tick, a member leaves, and the late replica brings it back;
  one failure, so that it can hit a job at each of its points.
- *Membership.* Two jobs for the races, four lists so that a symbol enters, leaves and
  re-enters; both a shared table and two tenants.
- *Evaluator, simulator.* The lowest and the highest price pass every level, so all
  rungs, or rungs and stop, fire together. Two sessions, so that something is carried
  over midnight. Seven bars let a breaker trip, block and release.
- *Signals.* A pivot needs 2·`SwingWindow`+1 = 3 bars, a break of structure 2 pivots;
  six minutes of one- and two-minute bars over two sessions hold both.
- *Lifecycle.* Three faults equal the attempts of the callback, so giving up occurs;
  two restarts reach both services.
- *Chat.* Two messages for overlaps; two keys for a rotation; a history limit of six
  is the two rows of a new session and two answered messages.
- *Workflow.* Two assets, rules and settings tell "the same" from "another", which is all
  that a turn compares. Nothing counts, so the instance has no other bound.

Bounds are constants named in the modules (`LastBar`, `MaxBooked`, `LastTick`,
`MaxFailures`, `MaxFaults`, `MaxCrashes`, `MaxCalls`, `MaxSymbols`, `MaxLists`,
`LastMinute`); the theorems hold for all their values.

What a passing run assumes is in its cfg: whole exits, one lot per symbol,
strategies of one side, rungs that sell whole shares and no more than the position,
the candles of a live frame reaching back to the start of the session. The opposite of
each is below under "Divergences".

### Fairness

Four runs check liveness.

`UniverseRefresh!FairSpec`: weak fairness of each replica's `Step`, because the
scheduler's interval job keeps starting and an event loop runs what it started. That an
interval job is there is left to whoever installs the driver: APScheduler is not among
the dependencies (`universe_driver.py:250-253`).
Failures, the clock and allocations to active members are not fair. A strong
fairness that frees the capital of a retiring member (its exit happens, sooner or
later) is assumed too; only `RetiringIsRetired` uses it. `EveryTickServed` is
not helped by fairness alone: a lock that stayed behind a failure would leave
`SkipTick` running for ever, which is its mutant.

`BacktestLifecycle!LifecycleFairSpec`: weak fairness of `Progress(b)`, the steps a running
process takes by itself. Requests, faults and restarts are not fair.
`EveryBacktestEnds` therefore excuses behaviours with a restart or an outage, or
with as many faults as the callback has attempts: in those the code really does
leave the row `running`, as its own comment says (`quant_engine/main.py:385-386`).

`ChatTurns!ChatFairness`: weak fairness of `Progress(m)`: every await of a turn
returns, because the LLM client and the market data clients have timeouts, and the
event loop runs each task that is ready. Pauses, failures and restarts are not fair.

`ChatWorkflow!WorkflowSpec`: weak fairness of `done /\ Confirm`: a user who has settled goes on
to say "yes", and the turns are answered. Before that no turn is owed. The router's
choice is not fair: it may take every other confirmation for the settings it confirms,
which is what the reroute in the code is for. `ConfirmationAssembles` begins where signals
are planned; before that the code may ask the risk question again and again, see below.

`CHECK_DEADLOCK FALSE` stands where the system may stop: all bars seen, all
backtests or turns ended, the last instant served. The pools and the dynamic backtest
are checked for deadlock.

## Proofs

All for every value of the constants that the named assumptions admit.

| Module | Theorems | Inductive invariant and why it is needed |
|---|---|---|
| `LiveProofs` | Of the pool `TypeCorrect`, `PoolAlwaysSafe`, `Refinement`, `NoRupeeLost`; of the signals `NeverLooksAhead`, `LiveMatchesBacktest`, on the way `SignalInvariant`, `FastIsSlow` | The pool: `TypeOK /\ PoolSafe`. The cap alone is inductive; that cash stays non-negative needs the allocation bounded by the cash, which `Verdict` and `Allocation` give together. The refinement maps `Enter` to `Open` and `Exit` to `Close`; the slot count uses the cardinality lemmas of finite sets. `NoRupeeLost` follows the locked sum through every admission, release and rebuild. The signals: see below. |
| `UniverseEvaluateProofs` | `HeldAreAlwaysManaged`, `WindowsStableCallByCall`, `EntryOncePerBar`, `SlotsRefusedOnlyWhenTaken`, `BookAlwaysWithinPool` | `CallInv` (a held symbol of a call is still to be evaluated or has its answer), `WindowInv` (what is cached or was served for an instant is an answer the resolver gave for it), `OneAnswer` (a deterministic resolver has one answer for an instant), `CachedInv` (when calls do not overlap and nothing is forgotten, what was served in a window is the cached list, and a call that resolves found nothing there), `OrdersInv` (every purchase has its key among the orders), `TradeInv` (what a reply says was decided on the pool that its positions leave after the exits), `BudgetInv` (a call that is alone works on positions that the broker may have closed since, never on others). Each property speaks of the end of a call or of two moments; the invariants carry it through the awaits in between. The arbitration is a fold over the entries: `FoldTrace` gives the sequence of pools it passes through, and the slots and the cash are followed along it. |
| `UniverseRefreshProofs` | `TypeCorrect`, `OneResolverAlways`, `MembersAlwaysAudited`, `CommitsWhatItResolved`, `RetiredFlatUnlessStamped` | Types of jobs, `LockInv` (inside a tick exactly while holding the lock), and of each job `JobInv`: `LoadInv` (loaded rows are on record and were active), `AuditInv` (a resolution past its check is on record or commits with the job), `SeenInv` (what was read of the rows to spawn), `WritesInv` (a pending write that keeps a column is of a row on record; one that sets the hash sets that of a snapshot that is recorded or commits with it; one that retires empties the row or had loaded it empty), `PlanInv` (the pending writes are the difference between the membership resolved and the rows loaded, but for the status of a row that was read as active). `JobInv` is kept by every step that leaves the job alone and only adds rows and snapshots (`JobKept`). `MembersAudited` says nothing of pending writes, so a commit does not preserve it without `WritesInv`. |
| `BacktestProofs` | `LedgersAlwaysExact`, `ReplaySharesCapital`, `ResolutionAlwaysRight`, `AlwaysDecidedFairly`, on the way `ReplayInvariant`, `ApartInvariant`, `ChosenInvariant`; `LifecycleTypeCorrect`, `BusyAlwaysHasRun`, `CompletionIsBacked` | See below. |
| `ChatProofs` | Of the turns `ChatTypeCorrect`, `OneOutcomeAlways`, `SettledAlways`, `DraftsAlwaysAccumulate`, `TurnsAscend`; of the rotation `TypeCorrect`, `AttemptsAlwaysSuffice`, `AttemptsAlwaysAscend`; of the workflow `WorkflowTyped`, `AlwaysBacktestsTheStrategy` | `OutcomeInv`: for each stage of a turn, the status of its message and the answers the history may hold, so that a pause, a failure and a commit in either order leave one. `DraftInv`: while turns do not overlap, the rows of the turn in progress are the last ones and it started from every answered input. `RotationInv`: a call's key is at most the active one, and its attempts left are at least the keys after the active one, which is why the fixed `max_attempts` is enough although other calls move the index. `WorkflowInv`: a plan was made for the inputs of its draft (`PlanFits`); a row has the asset its file is named by, and while nothing has spoilt it the file is what was assembled (`Stored`); a draft whose mode admits a backtest is that of the row (`Current`). The property speaks of results only; a backtest reads draft, row and file, each written in another turn, so none of the three parts is preserved without the others. |
| `MembershipProofs` | `TypeCorrect`, `HistoryAlwaysFaithful`, `TenantsAlwaysApart`, `EntriesAlwaysOfMembers` | `DatesPast` (no date lies after the latest day of its tenant), `JobsCurrent` (a job works on the latest day, and what it has yet to open or close is all that keeps the open intervals from being the list), `AppliedInv` (once a day is applied the open intervals are its list). The interval form matters: a day that is applied stays right because later jobs only close at, or open from, later dates. For `EntriesAlwaysOfMembers` the intervals of `Windows` are shown to be the maximal runs of the sorted days on which a symbol is a member. |
| `PositionProofs` | Of the evaluator `EvaluatorTypeCorrect`, `StopsAlwaysTighten`, and of ladders that fit `NeverSoldShort`, `StopGuardsTheLadder`, `LimitsAlwaysKept`, on the way `EvaluatorInvariant`, `LadderInvariant`, `FractionsFit`; of the simulator `PassTypeCorrect`, `TradesAlwaysDisjoint`, `LossAlwaysBounded`, `LevelAlwaysTightens`, `EntriesAlwaysRespectBreakers`, on the way `PassAlwaysSound`, `BreakersAlwaysTold` | See below. |
| `SumLemmas` | – | Lemmas only: the sum of a function over a finite set and the fold over a sequence obey their defining equations, and what follows (adding, removing, re-indexing, comparing); the places of a strict order on a finite set, and `InOrder`. |

### The argument of `LiveProofs`: the signals

*The invariant.* `NoLookAhead` compares an answer with the market of today, so it is not
inductive by itself: nothing in it says of which minutes the answer was given.
`SignalInv` has it: the answer is that of *some* series of minutes, of the symbol and of
its reference, which agree with the present ones on every minute before the answer was
asked for (`SameBefore`), and new minutes come after all others. What is left is a fact
about the operators: two such pairs of series say the same of a bar that had closed.

*No look-ahead.* The bins of minutes before a moment are the same in both series, and so
are the bars made of them (`SameBars`), whatever follows; a sorted list of the bins is the
link, by the order lemmas of the `Places`. On frames that agree up to a bar, each
pattern, the opening range, each aggregate and the reference agree up to it, and then
each node of a condition does, by induction over the places of the table
(`ColumnsAgree`). `PREV` is the one function that could look forward, and `LooksBack`
excludes that. A bar of a higher timeframe that had closed when the bar opened is among
those on which the two frames agree, and so is the bar of the reference merged into a bar
that has closed: stamped no later and of the same length, it had closed by then too
(`ReferencesAgree`).

*Fast and slow.* `FastIsSlow`: where `FastPathSafe` chooses the arrays, the two evaluators
agree on every node of the condition, not only on its root (`SameOperands`).

*The window.* The candles are the last bars of the frame, moved to the front (`Shifted`). A
node with a reach of *r* bars has the same value in both from the *r*-th candle on
(`ColumnsShift`), node by node: an aggregate over *n* bars, `PREV` by its offset more than
its operand, and the opening range as many bars as a session can hold, which is at most
its length in minutes because stamps ascend (`SessionIsShort`, `SessionHeld`). The last
candle is beyond the reach of the root by `LookbackSuffices`. `LiveMatchesBacktest` is
then put together: the slow evaluator on the candles, the slow evaluator on the whole
frame, the evaluator the backtest chose, the frame of a later backtest.

### The argument of `BacktestProofs`

*The replay.* `ReplayInv` has four parts. `MoneyInv`: cash plus allocations is the
starting capital plus the results of the fills, each sector's ledger is the sum over its
positions, and positions and fills are told apart by the event that opened them.
`ClockInv`: the candidates come in the order of entries, and a candidate is decided when
no open position has an exit at or before its entry. `LeavingInv`: the release loop
holds exactly the positions that have exited by now, each once, oldest exit first.
`EventsInv`: the events come in the order of time and none is later than the exit of an
open position. `LedgersExact` speaks of cash and curve at the end, but a release moves
money, the clock, the loop and the events at once, so none of the parts is inductive by
itself: that the last event of the curve is the cash needs that the flush has no later
event to come, which needs the loop to hold all that is open.

*One side.* `ApartInv` says that a symbol has at most one open position and no candidate
that enters before it has left. It needs `OneSide`, that the trades of one symbol follow
each other; with it a position is a stake of its symbol and every `Admit` is an `Open`
and every `ReleaseOne` a `Close` of `SharedCapital`. Without it both properties are false
(see the divergences), and `LedgersExact` is not: it is proved for both sides.

*The resolution.* `PoolInv` says what the fetches may have done to the pool so far.
Order lemmas (`Places`, `PlacesSort`) show that in a strict order on a finite set the
places are exactly 0 to *n* - 1, so `InOrder` is a sorted list of the set. They serve the
ranking, the release loop and the order of the candidates alike. `BestAreTaken` then
says that the first `take` of the ranking are better than all others that qualify.

*Together.* `MembersInv` (only members are loaded, only loaded members compete) links
the two; `AlwaysDecidedFairly` follows from the three invariants with a count: by
`ApartInv` the open positions are of different symbols, and the candidate's symbol is
not among them, so there are fewer than there are loaded members.

*The rows.* `LifecycleTypeOK`, `BusyHasRun`, `CompleteHasRow`, `CompletedHasResult`
together: every write sets the strategy and the row in one transaction, and a step that
disturbs one status restores it by the other.

### The argument of `PositionProofs`: the evaluator

*Any ladder.* `BaseInv`: the answer under way is what an evaluation of the positions as
they are would say (`ReplyFits`; nothing but an answer moves the positions, so a lost
answer leaves them as they were), and every position has the size and the first stop of
its entry, and a stop that is that or tighter (`Sized`). `StopOnlyTightens` follows
whatever the rungs ask for, since the new stop is the greatest of the old one and what
is asked.

*Ladders that fit.* `NeverOversold` is not inductive: a rung and a full exit in one
answer would sell the rung twice. `Climbing` excludes that: a position holds its size less
what its rungs have sold, something is left, and its stop is below the price of every rung
that has not fired. A rung that fires is then above the old stop, above the entry and
above every rung before it, hence above the new stop, and no full exit comes with it
(`RungsAlone`); and the new stop is below the rungs that remain. What the rungs sell in
parts is summed over disjoint sets of rungs (`RungsApart`), which no order of evaluations
and no lost answer can make overlap. `LimitsKept` needs the same: with less held than
was bought and the stop no lower than the first one, the risk of the entry bounds the risk
of the rest; and since nothing is sold short, an exit never lowers the cash.
`StopGuardsUntilSpent` rests on it too: while a rung is left, the price that reaches the
stop fires none, so the stop-loss is the answer; when none is left, what is held is what
`Climbing` says. That the code closes such a rest by the stop, as the comment in
`app/strategy/spec.py:136` has it, is not so: see the divergences.

`FractionsFit` ties the assumption to what the prompts ask of a ladder: targets that
ascend and fractions that sum to the whole at most fit every position of which each rung
is one share at least.

### The argument of `PositionProofs`: the simulator

*An open trade.* `PassInvariant` has the trades that are done (`TradesDisjoint`,
`LossBounded`, and none of them later than the bar) and, for an open trade, `Underway`.
That the bound on a loss is not inductive by itself is plain: a trade that is closed at
its level loses what the *level* allows, so the bound has to be carried by the open trade.
`Sound` does so: its stop loses the initial risk at most, and nothing once a rung has
secured it; all its rungs, fired or not, are priced at the entry or better, so each part that
was sold gained at least minus the cost, and a stop that is moved to the price of the
rung before is still no worse than the entry; and the parts sold and the parts left are
the whole at most. `Blended` is then a weighted sum of two bounded gains.
`Underway` adds the age: entered after the last exit and, in an intraday strategy, in the
session of the bar, which is what `TradesDisjoint` needs when the exit comes; and the
close of the last bar was within the level, because a trade that is held was not touched
by the walk of that bar. That bounds the loss of a trade that the end of the data closes.

*One bar.* A bar is two folds: over the rungs (`AfterRungs`) and over the minutes
(`Walked`). Both are followed along the sequence of trades they pass through. Each rung
keeps `Sound` and tightens the stop; each minute keeps the stop and tightens the lines,
and one that does not end the walk has closed within the level. `LevelOnlyTightens` is
the comparison of the first of these trades with the last, by the transitivity of `Gain`
(`GainNoWorse`), in either direction of the trade.

*The breakers.* `Charged` says that the record of the breakers is true of the list of
trades: `Tallied`, the P&L and the number of trades of the session are the sum and the
count over the trades of that session; `Cooling`, the last trade's cooldown is in the
record; `Streak`, there is a place in the list of trades from which on the counter has
counted, and a loss at that place has been `Served`, by a pause that is in the record or by
an entry that waited for it. It is not the record `risk` that is charged but
`RolledOver`, the record as the next bar will see it: on the first bar of a session the
old one speaks of another day. That it stays true from bar to bar needs that sessions
are intervals of bars (`SessionConvex`): a trade that counts for the next bar counted for
this one. A gate that is clear on a record that is charged is a limit that is kept in
the list of trades, and the entry on the next bar is in the same session (`Fillable`).
As `Booked` is charged wherever a trade is closed, the two copies of the bookkeeping
in the code are covered alike.

### Assumptions

On the constants, named where they are declared and evaluated by TLC on each instance:
`PoolAssumption`, `PortfolioAssumption` (a broker's holdings fit the capital and the
slots; a trade loses at most its capital), `EvaluateAssumption` (lists of members without
repetition), `RefreshAssumption`, `LifecycleAssumption`, `RotationAssumption`,
`ChatAssumption`, `HistoryAssumption`, `SharedAloneAssumption` (no tenant writes beside
the shared table: see the divergences), `WorkflowAssumption`, `ReplayAssumption` (the
trades of a symbol come in the order of their entries, none ends before it begins or
loses more than was put in), `ResolverAssumption`, `SourceAssumption`,
`DynamicAssumption`, `EvaluatorAssumption`, `SignalAssumption` (the conditions are parsed
ones, timeframes are of a minute at least), `PassAssumption` (what the loader and
`simulate_trades` demand of a strategy: a stop of some distance and rungs beyond the entry
that sell the position once at most, `quant_engine/engine/loader.py:356-382`, whose
tolerance of a millionth is rounding here; a candle has at least one minute and closes
between its low and its high).

Of single theorems, each an instance that the code may or may not be in, with the
divergence that shows the theorem false without it:

| Assumption | Theorems | Meaning |
|---|---|---|
| `OneLotPerSymbol` | `NoRupeeLost` | the broker reports a symbol once when the pool is rebuilt |
| `OneCallAtATime` | `BookAlwaysWithinPool`, `WindowsStableCallByCall` | one evaluation of a deployment is in flight at a time |
| `BuysAllocated` | `BookAlwaysWithinPool` | the OMS scales an admitted entry to the capital allocated to it |
| `~MayForget` | `WindowsStableCallByCall` | the process that cached a window serves it to its end, and no other deployment evicts it |
| `~PartialExits` | `BookAlwaysWithinPool` | an exit sells the whole position |
| `OneSide` | `ReplaySharesCapital`, `AlwaysDecidedFairly` | a strategy without a short leg beside the long one |
| `LadderFits` | `NeverSoldShort`, `StopGuardsTheLadder`, `LimitsAlwaysKept` | rungs ascend, sell no more than the position, and there is no exit signal beside them |
| `Deterministic` | `WindowsOfHistoryStable` | the resolver reads the history as of an instant, as with NSE daily bars that all load; the other theorem about windows does without it |
| `LooksBack` | `NeverLooksAhead`, `LiveMatchesBacktest` | periods and offsets are literals, which are never negative; neither the parser nor the loader asks for it |
| `LookbackSuffices` | `LiveMatchesBacktest` | the candles reach back as far as the condition looks; `compute_lookback` does not see to it |
| `LiteralPeriods` | `FastIsSlow` | `LooksBack` of one condition: a computed period can make one evaluator raise, which is not modelled |

### What is not proved

Every invariant and action property of the runs is stated by a theorem. All liveness
stays with TLC, as fairness and `ENABLED` are beyond the proof system used. Sums, folds
and the evaluation of a condition are within reach although induction over data is not,
because the induction can be stated for the *set* of sizes or places for which an
equation holds (`InductionOnNumbers`, `InductionOnSubsets`).

## Divergences

No run of the project ends in a counterexample. Where the code does something else than
a comment, a docstring or a document says, it is listed here.

### Stated as definitions

These are stated as definitions in the modules, and TLC finds each violated with the
constants given; no run of their own is kept for them.

| Definition | Instance | What the code does |
|---|---|---|
| `BookWithinPool` | `MCUniverseEvaluate.cfg`, `PartialExits = TRUE` | A partial exit frees the whole slot in the arbitration (`universe_evaluator.py:138`), against `docs/dynamic-universe-phase-d.md:39`. |
| `BookWithinPool` | `MCUniverseEvaluate.cfg`, `BuysAllocated = FALSE` | An admitted response keeps the quantity that the RiskManager took from the free cash of the moment before arbitration (`universe_evaluator.py:180-188`, `:301`); an OMS that buys it exceeds the capital, against "never exceeded" in the same line. |
| `WindowStable` | `MCUniverseEvaluateOverlap.cfg`, `Deterministic = FALSE`; or `MCUniverseEvaluate.cfg`, `MayForget = TRUE` | The crypto resolver reads the live ticker, and an equity resolver whose fetches fail has fewer members: overlapping misses, eviction, a restart or another replica give two lists within one window, against "no churn" in `live_universe.py:12-13`. |
| `CapitalConserved` | `MCLivePortfolio.cfg`, `Holdings <- mcLots` | `rebuild` keeps one of two positions of a symbol and pays for both (`portfolio_manager.py:153-154`). |
| `CurveMarkedAtCost` | `MCDynamicBacktest.cfg` | Of several positions released in one loop, those not yet released are in neither cash nor equity (`quant_engine/engine/portfolio.py:202`, against `:21`). |
| `SlotsWithinRule` | `MCDynamicBacktest.cfg` | A chat turn gives the manager a slot for each member (`chat/chat_service.py:4980`), whatever the rule and the platform's limit of positions say, against `docs/dynamic-universe-implementation.md:309-310`. |
| `RefinesSharedCapital`, `DecidedFairly` | `MCDynamicBacktest.cfg`, `TradeLists <- mcBothSides` | A strategy with a short leg is simulated in two passes (`quant_engine/engine/runner.py:448-476`), so trades of a symbol overlap; the manager gives it two positions, where the live one refuses a symbol that is open, against "same admission logic" in `docs/dynamic-universe-phase-d.md:13`. |
| `OneFirePerTick` | `MCUniverseRefresh.cfg`, `LastTick = 1`, `MaxFailures = 0`, `Spec` | The lock is released before the commit and the gate is read before the lock, so a second replica fires the same instant (`universe_scheduler.py:226`, `universe_driver.py:157-170`, against `docs/dynamic-universe-phase-d.md:33`). |
| `NoDoubleSpawn` | as before | The members are loaded before the lock (`universe_driver.py:169`, against `universe_scheduler.py:6-7`). |
| `SpawnedIsActive` | `MCUniverseRefresh.cfg`, as a property | A row that the diff reads as active gets only the new hash; the flush waits for another job that retires it, and keeps its status (`universe_persistence.py:159-194`, against "Spawned symbols are upserted to `active`" at `:146`). |
| `RetiredIsFlat` | `MCUniverseRefresh.cfg` | The retirement decides on a row loaded before the resolution (`universe_persistence.py:190`, against "`retired` (flat)" in `app/db/models/universe.py:88`). |
| `RetiringIsRetired` | `MCUniverseRefresh.cfg`, as a property | No code takes a retiring row on to retired (`universe_persistence.py:186`). |
| `TriggeredWhenFree` | `MCBacktestLifecycle.cfg`, `LifecycleSpec` | Two triggers pass the check before either commits (`routes/backtest.py:346`). |
| `DeliveredIsDurable` | `MCBacktestLifecycle.cfg`, `Backtests = {b1}`, `MaxFaults = 1`, `MaxCrashes = 0`, `LifecycleSpec` | The post times out after the engine accepted, its result is stored and acknowledged, then the failure path sets the row to `failed` (`routes/backtest.py:62`, against "a successful response means the row is durable" at `:479`). |
| `GivesUpHonestly` | `KeyRotation`, two callers, `N = 2` | Two calls fail with one key, each moves the index, the second skips a key nobody tried and reports that all are exhausted (`llm.py:440-441`). |
| `NeverOversold` | `MCStrategyEvaluator.cfg`, an exit signal on the ladder, rungs of more than the position, or rungs that do not ascend (each without `LadderAssumption`) | A rung and a full exit of one evaluation are both sized from the position as it was sent (`strategy_evaluator.py:750`); a rung is at least one share (`risk_manager.py:413`). |
| `LeftoverClosedByStop` | `MCStrategyEvaluator.cfg` | When all rungs are hit the rest is looked at no more (`strategy_evaluator.py:720`, against `app/strategy/spec.py:136`). |
| `LiveIsBacktested` | `MCSignalPipeline.cfg`, `Lookback = 3` (without `StrategiesFit`) | A live frame that does not reach back to the start of the session has another opening range. `compute_lookback` does not recognise `AVG`, `MAX`, `PREV` or `OPENING_RANGE`; its floor of 300 bars is less than a session of one-minute bars. |

### Observed while modelling

Reading the code for the models brought up behaviour that no property states. Where a
comment or a docstring says otherwise, it is named.

*Signals.* The live frame ends with the candle that is still forming, and the rule
engine decides on it (`rule_engine.py:155`), so a live signal can differ from the
backtest's, against `rule_engine.py:147` ("live execution stays consistent with
backtested results") and `entry_gates.py:15`; `LiveIsBacktested` speaks of closed bars
for that reason. The live path adds no pattern columns and no reference series, so
`IS_*`, `REF_*` and `RS` are always false live (hence `FormulaOnly`). `NOT` over a
comparison with missing data fires, although `conditions.py` says that such conditions
"stay safely silent". The level of a break of structure is that of the confirming bar,
not of the pivot (`patterns.py:108` and `:119`). `PREV` with a negative offset reads a
later bar. The cache of candles is keyed without the lookback
(`market_data_service.py:105`). Of duplicate candles one loader keeps the first and the
other the last.

*Resolver and dynamic backtest.* When every screening fetch fails, the universe is
empty without an error and the run is stored with no trades; when every member's load
fails, the engine refuses and the row fails, although the orchestrator says that such
members "simply don't trade". A data outage thus retires members on a refresh. Symbols
ranked beyond `take` are neither members nor dropped. An empty universe is a result without
trades by the route and an error in a chat turn. `run_dynamic_backtest` resolves
once, at the end of the window, and trades those members over all of it. The user's
starting balance never reaches the portfolio (`routes/backtest.py:159-167`), nor do
sectors and the sector cap.

*Single symbol.* `or 5`, `or 0.10` and `or 3` turn a configured 0 into the default.
`_round_tick` rounds down where it says nearest. At least one share is bought. The
live breaker on losses never releases, the simulator's pauses. `check_stop_loss` and
`check_take_profit` ignore the side (`rule_engine.py:121`); live enters long only. An
exit instruction has no idempotency key, so a delayed answer and a retry sell twice
(the model loses replies, it does not delay them). The reply names neither rungs nor
the new stop. A time-based exit is announced (`strategy_evaluator.py:651`) and absent.

*Simulator.* `MULTI_TP_COMPLETE` skips the diagnostics that "each candle evaluation" is
said to have. Rungs fire on the high of the whole bar before its minutes are walked. A
stop fills at its price although the bar may have gapped through it. A cooldown of *n*
bars blocks *n* - 1. A strategy of both sides is two passes, each with its own count of trades
and losses, so the limits of a day hold for each side. The cutoff looks at the bar of the signal, so the trade can be
filled after it. The gap filter is off in the first session.

*Workflow.* The YAML file is named by symbol and timeframe (`yaml_generator.py:42-66`), so
two sessions with the same pair share it, and the row of the one names what the other
wrote. A backtest of another asset writes the calibrated draft with that asset's name into
the strategy's own file, so the next plain backtest fetches the other asset's candles,
against "only the backtested symbol changes" (`chat_service.py:4046-4048`) and "NOT mutated"
(`yaml_generator.py:29-36`). A setting taken in passing after the assembly is backtested
without a new one when the candles suffice for calibration; otherwise the old file is. A
failed assembly leaves its file with the old row. `BacktestsTheStrategy` excludes these by
`spoilt`. `_direct_spec` and `_sdl_artifact` are not stored with the draft, so the branches
that ask for them in a later turn (`chat_service.py:5130-5159`) never run. A new strategy
forgets the old one for its own turn only; its assembly updates the old row. A formula given
before the inputs are complete can be assembled with incomplete inputs. A reset drops the
daily loss cap and the limit of trades. A "yes" while the new value of an input is awaited
drops the plan, and a user without signals who only says "yes" can be asked the risk
question for ever.

*Chat.* A turn that runs a backtest commits and closes the database session, which detaches
the user's message (`chat_service.py:2559`); its new status is not written, and the message
says "processing" next to its answer, against `routes/chat.py:575-576`. The comment at
`chat_service.py:3627-3628` explains the refetch that the fetch of candles does and the
backtest does not. `SettledUnlessDetached` excludes it. The history a turn reads is the *oldest* 80 rows, so in a long session the last
draft is stale; overlapping turns start from the same draft and the later answer loses
the other's inputs (`DraftsAccumulate` excludes both). The second turn takes the place
of the first in the registry, and a pause stops it only. A pause during the handler of
a failure or of another pause leaves `processing` for good, as does a restart. Rows of
the symbols backtested before a pause stay.

*Membership.* A job for the shared table reads and closes every tenant's rows, hence
`SharedAloneAssumption`. A repeat of an earlier day's job reopens a closed interval;
days come in order, as the docstring of `apply_snapshot` asks. The windows are closed
at both ends, so an entry at the instant a symbol leaves is let in; a symbol without
windows is not filtered; nothing in the application calls the function that draws them.

*Caches.* `market_data_service.py:126` falls back on "stale" candles through
`get_candles`, which returns nothing for expired ones, against its docstring at `:28`. A
window of candles that was saved today is immortal once past
(`backtest/ohlcv_cache.py:85`), an unparsable chunk is taken as empty and cached
(`backtest/market_data.py:1087`), and processes share one temporary file (`:151` of the
cache). `next` at exactly an intraday boundary is the boundary itself
(`market_calendar.py:252`).

### Hazards beyond those of `PROJECT.json`

Real, and without a property: the engine's status map of jobs (`main.py:194`); the key
state file, truncated by a crash or shared by processes (`openrouter_key_manager.py:106`
and `:204`); a bracket of several targets whose orders rest at the broker while the
evaluator exits the same shares (`trade_manager.py:309`); a restart with rows older than the broker's positions (`universe_scheduler.py:131`); overlapping
evaluations of one deployment, which together exceed the cap
(`routes/execution.py:95`; that they do not overlap is up to the OMS, so `evaluate` has
one call in flight); a restart that strands a running row (`routes/backtest.py:385`,
excused in `EveryBacktestEnds`); a result that arrives after the strategy was changed
(`result_store.py:289`); the registry of turns (`chat_service.py:2747`); a key index that another caller moves
during a call (`llm.py:420`), for which `AttemptsAlwaysSuffice` is proved.

## Not modelled, and why

- *Numbers*: indicators, metrics, P&L statistics, structural and ATR stops. Series of
  floats have no state and no small instance; what is decided with them is a
  nondeterministic choice in the models.
- *Language*: prompts, interpreters, routing of a message, agent loop, planner
  vocabulary. Their output is arbitrary to everything downstream, as the models take it.
- *Planner*: a pure pipeline from an intent to a plan. Of its rules, the cap on
  confirmation filters for beginners is one where the text says none
  (`app/planner/pipeline.py:85-96`), and the semantic composer, which runs after the
  exit filters are chosen, ignores that cap.
- *Storage and transport*: migrations, schemas, charts, generated stubs. Columns and
  unique keys are used where they matter.
- *Caches and clients of market data, calendar, discovery scanner, restart
  reconciliation*: see "Observed while modelling" for what matters there.
  `reconcile_state` and `ParquetOhlcvStore` have no caller.
- *Chat*: deletion of sessions, titles, and what a turn says.
- *The OMS, the broker, the LLM provider and the market* are external: modelled only by
  what the API receives from them and returns.

## Plan

Left, in this order: discovery and universes in the chat workflow; the planner's
pipeline against its rules; the cache of candles and the calendar.

The runs are few on purpose, one per question. As modules are added, runs with one
shared question are merged, and a divergence that is documented above gives its run
up first.
