# Verification of the Alchemist trading server

TLA+ models of the parts of this repository that decide whether money is at
risk: what an order is, where it is kept and how it reaches the broker, how
trading is stopped, when it is halted and resumed by itself, and how a model
comes to trade an account; and of the feeds around them: ticks on their way to
the database, gaps in them, alerts on their way to a browser. Every
definition is translated from the Python source (`PROJECT.json`, `map`, names
the lines), TLC checks small instances, and TLAPS proves the central safety
properties for every value of the constants.

In the text below `TS` stands for `src/src/backend/trading_server/src` and
`API` for `src/src/backend/api/src`; line numbers are those of the files there.

## 1. The system

The trading server is one Python process with many threads. Each connected
account has a terminal (MetaTrader 5 behind ZeroMQ) and, once a model is
assigned to it, a trading thread that runs `TradingController.start`: every 60
seconds it resets the periods of the circuit breaker, asks the kill switch and
the breaker, lets the agent choose an action, passes it through the pre-trade
controls, sends an order, and tells the breaker what the trade brought. The API
is a second process; the two share a PostgreSQL database and a Redis server.

### Inventory

| Component | Code | State | Operations | Status |
|---|---|---|---|---|
| Order management | `TS/risk/oms.py` | orders, positions, idempotency keys, orders table, JSON file | submit, acknowledge, fill, reject, cancel, cancel all, expire, sync, load, reconcile | in `OrderManagement`, `OrderLedger` |
| Kill switch | `TS/risk/kill_switch.py` | DISABLED/ARMED/TRIGGERED, triggers and their threads, lock, audit log, `kill_switch_events` | arm, disarm, trigger, reset, monitor loops, signal handler | in `KillSwitch` |
| Circuit breaker | `TS/risk/circuit_breaker.py` | CLOSED/OPEN/HALF_OPEN, metrics of an hour and a day, errors, `circuit_breaker_events` | check, record trade/error/volatility, reset (operator, hour, day) | in `CircuitBreaker` |
| Trading controller | `TS/trading_controller.py` | running flag, reset times, decision of the turn | start, one turn, stop, kill callback, reconciliation | partly: its turn in `CircuitBreaker`, the kill inside a turn in `KillSwitch`, start and end in `ModelAssignment` |
| Model assignment | `API/services/mt5_accounts_service.py`, `TS/infrastructure/messaging/model_assignment_consumer.py`, `TS/services/model_assignment_service.py` | assignment table, Redis channel, controllers and threads by account, lock | assign, unassign (API), consume, handle assignment and unassignment (server) | in `ModelAssignment` |
| Terminal link, broker adapter | `TS/mt5_connection/zeromq_conn.py`, `zeromq_terminal.py`, `TS/trading/brokers/mt5_adapter.py`, the expert advisor `mt5_zeromq_trading.mq5` | REQ socket, requests and answers, orders and positions at the broker | ping, send, read, retry; execute, close (advisor) | in `TerminalLink` |
| Trade execution, account | `TS/application/trading/trade_executor.py`, `TS/domain/strategies`, `TS/models/account.py` | cached balance, booked trades | execute buy, sell, close | partly: opening and the kill's closing in `TerminalLink`, the cached balance in `CircuitBreaker` |
| Risk manager, pre-trade controls | `TS/utils/risk_management.py`, `TS/risk/pre_trade_controls.py` | limits | ask | not modelled: pure checks, whose refusal is a step of `CircuitBreaker` |
| Tick processor | `TS/mt5_connection/tick_processor.py` | buffer, last time, write queue, receiver, flush timer, writer | read, check, add, flush, write, shut down | in `TickProcessor`, `TickFeed` |
| Tick streaming, discovery | `TS/mt5_connection/zeromq_tick_streamer.py`, `TS/infrastructure/zeromq`, `TS/infrastructure/connections` | stream queue, registrations | publish, discover, register, forward | in `TickProcessor` |
| Gap detection | `TS/monitoring/gap_detector.py`, health endpoint of `TS/http_controller.py` | settings, time of the next check | check, health check, start, stop | in `GapDetector` |
| Alerts, WebSocket channels | `TS/infrastructure/messaging/alert_publisher.py`, `API/infrastructure/messaging/alert_consumer.py`, `API/websocket` | Redis subscription, sockets by channel | publish, consume, broadcast, subscribe, unsubscribe, shut down | in `AlertFeed` |
| Dashboard socket | `src/src/dashboard/src/services/websocket.ts`, `contexts/WebSocketContext.tsx` | socket, subscribers, reconnection | connect, reconnect, subscribe, unsubscribe, disconnect | in `DashboardSocket` |
| Model promotion | `TS/mlops/model_promoter.py`, `model_registry.py` | stages in the database and in MLflow | promote, roll back, archive | not modelled: cannot run (section 6) |
| Paper sessions | `TS/mlops/paper_session_manager.py`, `TS/environments/paper_env.py` | sessions, virtual positions | start, step, stop, validate | not modelled: never started |
| Experiments | `TS/experiments/runner.py`, `TS/infrastructure/messaging/experiment_consumer.py` | queue, running experiment, status rows | enqueue, run, cancel, resume | not modelled: every start fails |
| Backfill | `TS/infrastructure/backfill` | jobs, checkpoints | fill, resume | not modelled: one job at a time, by hand |
| Sessions, equity, trade log | `TS/performance` | one active session, tracking thread | create, track, record | not modelled: appended records |
| Live trainer, agents, features, environments, replay buffer | `TS/training`, `TS/agents`, `TS/application` | network weights, windows of prices | train, act | not modelled: floating-point learning code |
| Schema registry, event quality | `TS/infrastructure/schema_registry`, `TS/events` | versions of schemas | register, check | not modelled: pure checks of payloads |
| Connectors, collectors, database access, monitoring, lineage | `TS/connectors`, `TS/database`, `TS/monitoring` | none that others depend on | input and output | not modelled |
| API routers, dashboard pages, deployment | `API/routers`, `src/src/dashboard`, SQL scripts | none of their own | requests, screens | not modelled |

A component that is "in" a module is there with all it does concurrently with
others; `PROJECT.json` calls it "partly" modelled and names the operations left
out of it.

### How the components interact

* **Calls in one thread.** A turn of the loop calls the kill switch, the breaker,
  the risk manager, the executor, the account and the terminal in that order. The
  decision is taken before the order is sent, so what is true at the check need
  not be true at the send.
* **Shared objects under locks.** OMS, kill switch and breaker each hold a
  re-entrant lock for the length of a method; the assignment service holds a lock
  that is *not* re-entrant. `KillSwitch.is_active` reads the state without it.
* **Callbacks.** A trigger's monitor thread calls `KillSwitch.trigger`, which,
  still holding the lock, calls the controller's callback, which closes the
  trades the account has booked. A signal handler does the same on the main thread,
  between any two of its steps, re-entering the lock if that thread holds it.
* **Messages.** Assignments travel over Redis publish/subscribe, which keeps
  nothing for a subscriber that is away, and so do alerts; orders travel over a
  ZeroMQ REQ socket that two threads share without a lock, ticks over a PUB/SUB
  pair that may drop them; the dashboard keeps one WebSocket for all its pages.
* **Stores.** Orders, kill events, breaker events and assignments are rows of
  PostgreSQL. Failing statements are logged and swallowed nearly everywhere, so
  memory and table may part.

### What is hard, and what makes each part correct

* *Order management* — a restart between any two calls, with a table that
  misses writes. Correct if a client order id is never answered with two orders,
  index and orders agree, positions are those of the fills, and a reloaded state
  is the one that was left.
* *Kill switch* — five kinds of thread around one state that some of them read
  without the lock. Correct if a kill tries to close every booked trade, at
  most the order already decided on comes after it, nothing but a reset undoes a
  kill, every call returns, and audit log and table agree. (The code does not
  quite achieve the third; `KillStands` names the races.)
* *Circuit breaker* — a state machine over sums that are reset by the clock
  while it runs. Correct if the sums stay tied to the balance, trials are
  bounded and conclude, halts last a cooldown, and no turn acts on a known loss.
* *Model assignment* — two processes, a lossy channel, one consumer, threads
  that start late and end early. Correct if the table, the channel and the
  running threads agree in the end, and never two threads trade one account.
* *Terminal link* — a protocol without request ids, answers that come late or
  unreadable, and two threads on one socket. Correct if answers go to the request
  they belong to, and an order is executed once and reported as what became of it.
* *Tick processor* — a timer and a receiver that flush one buffer into a bounded
  queue, behind a lossy feed. Correct if a tick is stored once, in order, or
  given up for a reason, and the last ticks before a pause are stored as well.
* *Gap detector* — windows of the past looked at from time to time. Correct if a
  gap falls into the window of some check, and into few.
* *Alert feed* — tasks of one event loop that suspend at every send. Correct if
  alerts keep their order, every socket that stays gets them, and the tables
  agree after each interleaving.
* *Dashboard socket* — callbacks of sockets that are no longer the current one,
  and calls that were suspended while the world changed. Correct if the server
  knows what the page wants, and a page is not left without a socket.

`PROJECT.json` lists the hazards line by line, with the property that would
catch each one or the reason why none does.

## 2. Plan

The most dangerous behaviour first; each step leaves a module that is checked
and proved before the next one is begun.

1. **Done.** `OrderLedger` and `OrderManagement`; `KillSwitch`;
   `CircuitBreaker` with the turn of the loop; `ModelAssignment`.
2. **Done.** `TerminalLink`, with the executor, the account and the advisor;
   `TickFeed` and `TickProcessor`; `GapDetector`; `AlertFeed`;
   `DashboardSocket`.
3. **Dropped.** Model promotion, paper sessions and experiments, which earlier
   plans listed: section 6 says why they have no behaviour to model.
4. **Done: proofs** of every safety property a run checks and of both
   refinements, for all constants.
5. **Done: proofs** of the safety halves of the liveness properties that have one:
   nothing under way vanishes on its way (`NothingVanishes`, `EventsKept`,
   `AlertsKept`), and what is wedged stays so (`WedgedForGood`, `EntriesStand`).

The number of runs is kept small: each answers one question, and when a later
module makes an earlier question redundant its run is replaced. A property that
TLAPS proves for all constants gives up its place in a run to one that only TLC
can check.

## 3. The modules

### OrderLedger and OrderManagement (`TS/risk/oms.py`)

`OrderLedger` is what a caller relies on: one order id per client order id for
ever, and positions that move one symbol at a time by fills. It knows no restart.

`OrderManagement` is the code. Every public method holds one re-entrant lock, so
a method is an action: `SubmitOrder`, `SubmitAgain` (the key is known), the state
changes, `HandleFill`, `CancelAllOrders`, `SyncPositions`. Each ends in
`Persist`, as `_persist_state` does: one upsert per changed row, each of which
may fail by itself, and a rewrite of the file. `Restart` is a crash followed by
the constructor: the table if there is one, else the file. The table yields open
orders only (`LoadFromDb`) and positions rebuilt from filled rows; the file
yields everything. uuids are the numbers 1, 2, ... in the order they are drawn.
Prices, profit, metadata and the update callbacks, which nothing installs, are
left out. In the program the service gives the OMS a database and no file, and
no loop calls `submit_order` yet: the model is of the component as its callers
may use it.

History variables: `answers` (what `submit_order` returned), `booked` (the net
of accepted fills), `intact` (no statement has failed).

### KillSwitch (`TS/risk/kill_switch.py`)

A method that holds the lock is cut where other threads can look in, because
`is_active` takes no lock: `StartKill` sets TRIGGERED, `BeginCallback` records the
event and starts the controller's callback, `CloseTrade` is one `close_order` of
it, `EndKill` releases the lock; `arm`, `disarm`, `reset` and the controller's
`stop` are cut likewise. `pc` is the place of each thread, `owner` the holder of
the lock. Monitors come in two kinds: those whose flag stays up (kill file,
environment variable) and those that consume it (UDP). `HandleSignal` runs
SIGUSR1's handler between any two steps of the operator's thread. `Decide`,
`Execute` and `EndTurn` are a turn of the trading loop: it looks at the switch,
then at `trading_enabled`, and then waits for the terminal.

`trigger` itself closes nothing. `_close_all_positions` asks the adapter, and
`MT5BrokerAdapter` has neither `close_all_positions` nor `close_position` and
always lists no positions (`mt5_adapter.py:100-119`): the branches that close
(`kill_switch.py:560`, `:563-569`) are dead in this program and not in the
model. What is closed are the trades in `account.current_trade`, by the callback
(`trading_controller.py:165-171`), after the event was recorded; `close_order`
swallows every failure. `trade` is therefore the book of this process: each
ticket is unbooked, booked, on the callback's list, refused, or booked too late.
A `Restart` loses the book, and with it what a kill could close.

History variables: `served` (where the operator's thread was when the kill in
force was last served, or that a signal handler interrupted a call of that
thread), `unlogged` (a statement failed).

### CircuitBreaker (`TS/risk/circuit_breaker.py`, `TS/trading_controller.py`)

One turn of `TradingController.start`: `ResetPeriods`, then `check` as
`CheckRefuses`, `CheckTrips` or `CheckPermits`, then `Skip` (no market) or
`Execute` (hold, open, close, or an exception), then `RecordTrade`. Each is one
call under the breaker's lock; the operator's `Reset`, the broker's `StopOut`
and the clock (`Tick`) come in between. `balance` is the cache of the account,
renewed by the answer to a close and by nothing else; `broker` is the truth.
Money and time are small integers, the limits are percentages, and the deques
that no check reads are left out. `Restart` builds a new breaker, as the
assignment service does.

### ModelAssignment (`API`, Redis, `TS/infrastructure`, `TS/services`)

`AssignModel` is the API's handler: deactivate, insert, commit under the table's
constraint `UNIQUE (account_id, is_active)`, publish. `UnassignModel` commits and
publishes nothing, as the code does. `channel` is what the subscription holds;
`Drop` and `Resubscribe` are the connection; `TakeEvent`, `EnterService`,
`Refuse` and `StartController` are the only consumer thread inside
`handle_model_assignment`. When the account already has an entry the thread goes
(`WhereTo`) to "relock", the second acquisition of its own lock, and there is no step out of
it: that is what the code does. `BeginTrading` and `EndTrading` are the trading
threads. API handlers run one after the other on the event loop of one API
process, which is why an assignment and its publication are one action; the
publication may fail by itself.

### TerminalLink (`TS/mt5_connection`, `TS/application/trading`, the advisor)

One account, its REQ socket, the expert advisor and the broker behind it. Two
threads use the socket: the trading loop opens positions (`Decide`, `Ping`,
`Open`), the kill switch's callback closes them (`Kill`, `Close`). No lock keeps
them apart: `get_terminal_lock` belongs to a manager the program does not use.
`Send` needs the socket "ready" and leaves it "waiting"; `Receive` is the way
back. A close may also go out unsent: the market is closed
(`trade_executor.py:154`) or the socket has no peer (`zeromq_conn.py:54`). The
model starts when the queries before the first turn (authentication,
`account.py:49`), which read in the same way, have been answered in time. A read
does not wait (`NOBLOCK`): when the answer is not there,
`NoAnswer` gives it up and the socket stays as it is. `Again` is the retry of
`zeromq_terminal.py:105`, which only an unreadable answer sets off. `Missed`,
`ReadOpen`, `ReadClose` turn an answer into the executor's verdict and the
account's book. `OnTimer` is the advisor, which takes one request per second,
clamps the lots (`Clamped`), executes all or a part (`Executable`) and replies.
The broker closes positions by itself (`StopOut`), the advisor may be loaded anew.

History variables: `awaited` (the request a thread reads an answer for), and the
orders whose answer was unreadable, partial or given up (`garbled`, `short`,
`unread`).

### TickFeed and TickProcessor (`TS/mt5_connection`, `TS/infrastructure`)

`TickFeed` is what the pipeline promises: a published tick is under way, and then
stored once or lost for good. `TickProcessor` is the pipeline of one symbol:
`Publish` (advisor and broker), `Forward` and `Register` (the discovery thread),
`PutTick` (the streamer's queue, which drops the newest), `Read`, `Process`,
`Add` (the receiver), `TimerFires` (the flush timer, which starts itself anew in
`Release`), `PutBatch`, `DropOldest`, `PutAgain` (a full write queue), `Look`,
`Get`, `Insert` (the writer), `EndReceiving`, `Finish`, `InsertDirectly` (the end
of the receiver). A step is what happens under one lock or between two queue
operations; the flush lock is kept over the waits for the queue. `fate` says why
a tick was lost, `direct` that the receiver has written by itself. The quality
gate, whose module is not in the repository, refuses what it likes.

Two branches for exceptions are left out. `_validate_tick_order` accepts a tick
whose time it cannot parse (`:314`): the terminal writes one format.
`_flush_ticks_to_db` goes through the batch a second time when something outside
the inserts raises (`:497`): that can only be a call that logs or prints, and would
store ticks twice. With a plain logger `performance_context` and `log_event` do
not exist, but then the constructor already fails (`:121`).

### GapDetector (`TS/monitoring/gap_detector.py`)

Time is a counter. A row holds the broker's time of its tick, and becomes visible
only after the buffer, the flush timer (2 seconds) and the write queue:
`StoreTick` shows a row whose time is up to `Delay` in the past, or up to `Ahead`
in the future when the broker's clock runs ahead of the server's (the zone is
guessed, `tick_processor.py:146`); rows of one symbol appear in order of time.
`Check` runs the two queries over the lookback window and logs what it finds,
`CheckNothing` is a turn that finds the market closed or whose query fails,
`HealthCheck` does the same for a caller, `Stop` and `Start` are the process. The
next check is due `interval` after the last, and may be late by `Jitter`; time
waits for a check that is due. `config` is chosen at the start among the settings
of the run and never changes.

### AlertFeed (`TS`, Redis, `API`)

`Publish` is the trading server, `RedisFails` and `RedisReturns` the server
between. The consumer is one task with a place `pc`: `Connect`, `Subscribe`,
`Take`/`Read` a message, a `Send` per socket of the copy of the channel,
`EndBroadcast` (the cleanup of sockets that raised), `Wake` (a failed attempt).
`ListenFails` is the exception that a broken connection or five idle seconds
raise. Handlers of sockets are tasks of the same loop: `Open`, `SubscribeSocket`,
`UnsubscribeSocket`, `HandlerEnds`; a step is what happens between two awaits.
`Stop`, `TaskEnds`, `DisconnectAll` are the shutdown. Sockets of `Direct` belong
to the handler of one channel, the others to the generic one.

### DashboardSocket (`src/src/dashboard/src`, `API/websocket/channels.py`)

`WebSocketService` is one object per page. `BeginConnect` is `connect` up to its await,
`Token` and `NoToken` the rest; `Opened` and `Closed` are the events of a socket,
of any socket the page ever made; `ScheduleReconnect` and `Timer` are the
back-off, without the lengths of the delays. `SignIn` and `SignOut` are the
effects of the provider, `Mount` and `Unmount` the `useEffect` of a component that
subscribes. `ServerReads` is the handler of the API. When the provider mounts,
Clerk may not know yet whether the user is signed in ("loading", the normal
case), or it may ("in").

History variables: `deaf` (paths whose channel another path unsubscribed),
`raced` (a call of `connect` went ahead beside another one).

The definitions that every module has are called `PageInit`, `PageNext`,
`PageSpec`, `PageTypeOK` and `PageBoundAssumption` here, so that the proofs about
this end of the socket and about `AlertFeed`, the other one, share one module.

### How they fit together

The modules share no variables. `KillSwitch` models the part of the loop that a
kill interrupts, `CircuitBreaker` the part that gains and loses money, and
`ModelAssignment` only whether the loop runs; `Restart` means the same process
death in all four. `TerminalLink` is what happens to an order that the loop
sends, or to the closing that a kill asks for: the broker that may refuse in
`KillSwitch` and the answers and stop-outs of `CircuitBreaker` are its outcomes.
`GapDetector` reads the rows `TickProcessor` writes, `DashboardSocket` is the
other end of a socket of `AlertFeed`. `OrderManagement` instantiates `OrderLedger`
(`Ledger == INSTANCE OrderLedger WITH position <- positions`) and `TickProcessor`
instantiates `TickFeed`; the
`MC*` modules give the constants that a `.cfg` file cannot hold.

## 4. What is checked

`tlc -config <cfg> <module>` runs one of them. `Deadlock` is off where the bounds
or the operator may let the system stop.

| Run | Module, cfg | Shows |
|---|---|---|
| `oms_database` | `MCOrderManagement`, `OmsDatabase` | the store the program uses, with upserts and the rebuilding query failing at any time: no client has two live orders in memory and table together, and without failures open orders survive a restart and positions are rebuilt when nothing is partly filled |
| `oms_file` | `MCOrderManagement`, `OmsFile` | the file store without failures is an `OrderLedger`: restarts are invisible |
| `oms_both_stores` | `MCOrderManagement`, `OmsBothStores` | index and orders agree also when a file is stale or torn, the table cannot be read at start, and the broker's positions are synced |
| `kill_switch` | `KillSwitch` | a kill tries to close every booked trade and leaves at most one that was booked behind it, only a reset, a restart or one of two named races ends it, log and table agree, a watched flag kills, and every call of the operator returns although `disarm` joins threads that wait for its lock |
| `circuit_breaker` | `MCCircuitBreaker`, `CircuitBreaker` | bounded trials, books tied to the balance, no turn on a known loss |
| `model_assignment` | `ModelAssignment` | one thread per account, the first assignment stands, arriving events are served |
| `model_assignment_swap` (violated) | `ModelAssignment`, `ModelAssignmentSwap` | the second assignment of an account that missed no event reaches the handler, which waits for its own lock for ever |
| `terminal_link` | `TerminalLink` | answers match their requests, a second execution takes an unreadable answer and there is no third, a position behind a rejection has one of three causes, one answer given up is the last word of the link, the loop is always answered |
| `tick_processor` | `TickProcessor` | the pipeline is a `TickFeed`, nothing overtakes, only the oldest batch is given up at a full queue, late ticks have a cause, and what reached the streamer settles |
| `gap_detector` | `MCGapDetector`, `GapDetector` | a gap that fits into the lookback less one interval, the jitter and the delay of rows is reported, and none more often than its window allows |
| `alert_feed` | `AlertFeed` | alerts keep their order, manager and handlers agree, the consumer subscribes anew, every socket that stays gets what arrived |
| `dashboard_socket` | `DashboardSocket` | the server knows what the components want, one socket unless calls raced, a page that may reconnect is never stranded |

The violated run states what a document and a warning in the code say of a swap; the
entry under `findings` quotes the line. For each property of the other runs
`PROJECT.json` names a mutant: a plausible mistake in one definition, kept next
to that definition in the module, under which TLC finds the property violated.

### Bounds, and why they are enough

* *OMS*: two orders (a client id and its retry), quantity 2 filled one unit at a
  time (so that orders are partly filled), one restart with faults and two
  without. A second client is present where clients could be confused
  (`OmsFile`) and left out where faults multiply the states; the theorems cover
  any number.
* *Kill switch*: one polled trigger and one signal, two kills (so that a second
  comes after a reset or meets the first), two trades (so that one close may fail
  and another succeed, or one be late), one restart. The audit log has at most
  two open events, enough for "newest" and "oldest" to differ.
* *Circuit breaker*: an hour of two ticks and a day of four, a cooldown of one,
  two trials, steps of one percent against limits of one and two percent: each
  limit is crossed by one and by several trades, hours pass, a breaker trips
  again from half open. The clock ends at two, at
  the end of an hour; the end of a day is only in the proofs.
* *Model assignment*: two accounts (one event can hold up the other's), two
  models, a thread more than the code should ever start, one broken connection,
  one restart. The number of assignments needs no bound: the table's constraint
  stops an account after two.

* *Terminal link*: two orders, so that an answer could go to the wrong one; three
  tickets, one for a second execution; three lots asked for where the advisor
  executes two, so that clamping and parts occur; all six faults.
* *Tick processor*: three ticks with two times, batches of two (one left over for
  the timer), room for two batches in the write queue and one tick in the
  streamer, all four faults. Batches smaller than two arise from the timer, so
  the write queue does fill up.
* *Gap detector*: two symbols, because a gap of the whole system takes two; four
  ticks, seven units of time; checks one unit late, rows one unit late or one
  unit ahead; one event, that is a failed check, a restart or a call of the
  endpoint. The run chooses between two settings. One has the ratio of the
  shipped ones (threshold 5, interval 5, lookback 10 minutes), under which no
  length of a gap is both above the threshold and short enough to be certain to
  be seen, so that `CoveredGapsReported` promises nothing there; it is not vacuous
  under the other one, with a wider lookback. Without `Delay` in its bound
  TLC finds it violated, and likewise `ReportsBounded` without `Ahead`.
* *Alert feed*: two alerts (an order), one socket of each kind of handler, one
  outage.
* *Dashboard socket*: two components and two paths of one channel, three sockets
  (an old one, a current one, one that raced), two losses against one attempt,
  so that the attempts can be used up and given back, one refused token, one
  sign-out, three mounts.

Symmetry is used in the gap detector only, over the symbols; elsewhere the
instances are small, and most runs need the identity of threads or orders.

### Fairness

* `KillSwitch!Fairness`: threads that can run do run (weak fairness of each
  monitor's steps and of the handler); a monitor waiting for the lock gets it in
  the end although the operator may take it again and again (strong fairness of
  `Fire`), and the operator's thread gets on between signals. Python's locks and
  scheduler give that to threads that keep asking. Nobody has to call anything,
  put a flag there or crash.
* `ModelAssignment!Fairness`: the consumer's loop, its handler, its
  resubscription and the first step of a started thread. Users, terminals, lost
  connections and ends of loops owe nothing.
* `TerminalLink!FairSpec`: the loop and the callback go on; the advisor and the
  broker owe nothing, not even an answer.
* `TickProcessor!Fairness`: the discovery thread and the writer run (weak
  fairness); receiver and timer, which compete for the flush lock, get on if
  they keep asking (strong fairness). No tick has to come.
* `AlertFeed!Fairness`: the consumer's task goes on, a broken connection to Redis
  is noticed (the socket timeout of five seconds), and a send to a socket ends
  (the server closes a socket whose peer does not answer its pings). Redis, the
  publisher and the browsers owe nothing.
* `OrderManagement`, `CircuitBreaker`, `GapDetector` and `DashboardSocket` are
  checked for safety only and state no fairness.

### What was met beyond the properties

Behaviour of the code met while modelling it, and which no run asserts: nothing in
the code forbids it, or the models leave its detail out (section 6), or nothing
in the program calls the code that way.

*Orders*

* From the table, keys of orders that are done are forgotten at a restart
  (`oms.py:890`; the docstring at `:4` promises idempotent submission): a retry
  then makes a second order. `Idempotent` is checked for the file store only.
* A fill, a rejection or an update after an order is done changes it again; fills
  are not told apart by their id (`:425`), may exceed the quantity, and one
  without a broker id goes to the first order without one (`:411`).
* Partial fills, and positions that were synced from the broker (`:702`), are lost
  when the process restarts from the table.

*Kill switch*

* A kill closes only what this process has booked. `docs/PRD_COMPLETE.md:526` asks
  to "Close all open positions immediately on trigger", the docstring of
  `KillSwitch` (`kill_switch.py:384`) says it "ensures all positions are closed", and
  that of the controller (`trading_controller.py:43`) "closes all positions"; but the
  adapter lists and closes nothing (`mt5_adapter.py:100-119`), the book is empty
  after a restart, a close that fails is not repeated, and positions that
  `TerminalLink` shows to exist behind a rejection are in no book. The event
  always records 0 closed positions. `KillLeaves` says what the callback achieves.
* No code of the program calls `register_default_triggers`, and each controller
  has a switch of its own (`model_assignment_service.py:151`).
* `disarm` clears a kill without a reset. The controller's `stop` calls it after
  `is_active` said no (`trading_controller.py:425`), which a kill in between makes
  stale, against the comment one line above ("but don't clear triggered state");
  and the handler of SIGUSR1 may run in the middle of an `arm`, `disarm` or
  `reset`, whose last write then undoes the kill (`kill_switch.py:369`).
  `KillStands` names both as ways a kill may end, and shows that there is no third
  besides a reset and a restart.
* A reset starts no monitor again that ended, so an ARMED switch may be deaf; a
  monitor that waited for the lock triggers the switch after `disarm` returned
  (`:130`); `trigger` works while disarmed (`:610`), and a restart forgets
  TRIGGERED (`:430`).
* Disarming restores the default action of SIGUSR1 (`:366`): a later signal ends
  the process, and positions stay open.
* A failed insert lets a later reset resolve an older row of the same source
  (`:697`).

*Circuit breaker*

* Losses are measured on the cached balance (`trading_controller.py:330`), which
  stop-outs by the broker never reach.
* A period is reset only in its first five minutes (`trading_controller.py:670`):
  a loop that drifts past them counts two periods as one. The model does so when
  no turn begins at the boundary; `BooksAgree` holds with it.
* A breaker whose last trial lost is half open for ever and refuses every turn
  (`circuit_breaker.py:185`).
* A breaker opened by a volatility spike opens again after each cooldown: the
  volatility is renewed only by a turn that acts (`:495`).
* It closes by itself although the comment at `:59` says that a manual reset is
  required.
* A terminal that does not answer at the start makes the balance 0, and no loss
  is a share of 0: both loss checks are off until the period is reset.

*Model assignment*

* Unassigning a model leaves its thread trading; an assignment made while the
  consumer reconnects, before the terminal connects, or before a restart of the
  server never trades (`model_assignment_service.py:47` restores nothing).
* An account that was reassigned once can be neither reassigned nor unassigned:
  its second inactive row breaks `UNIQUE (account_id, is_active)`
  (`17_mt5_accounts.sql:43`).

*Terminal link*

* Every read is `NOBLOCK` (`zeromq_conn.py:95`), so an answer that is not there at
  once is given up, and the REQ socket then refuses every send
  (`WedgedForGood`). A kill after that closes nothing; `docs/PRD_COMPLETE.md:526`
  wants all positions closed at once.
* A request is repeated only after an answer that was unreadable, that is, after
  the advisor has executed it. Each call draws a new client id
  (`trade_executor.py:80`), so nothing recognises the repetition.
* The adapter reports the ordered quantity as filled (`mt5_adapter.py:86`)
  although the advisor rounds and clamps it; `DONE_PARTIAL` counts as a rejection
  (`zeromq_terminal.py:119`), although a position was opened. Positions behind a
  rejection are unknown to the account, so the limit of open positions
  (`risk_management.py:171`) does not count them.
* The agent's CLOSE raises before it closes anything: the log line before the
  closing reads `trade.profit`, which does not exist (`close_action_strategy.py:118`).

*Ticks*

* The order check stores a tick's time before the quality gate decides, so a tick
  that the gate refuses makes an earlier one late (`LateExplained`). Equal times
  pass and nothing makes rows unique.
* A batch whose insert fails is lost. When the feed ends, the receiver sets the
  shutdown flag before it has drained the write queue (`tick_processor.py:1023`,
  `:1043`), so batches may stay there for ever, and the streamer stays registered
  with nobody reading.
* The branch for an overflowing buffer and the second `queue.Full` cannot be
  reached.

*Gaps*

* With the default settings (5, 5 and 10 minutes) there is no gap length that must
  be reported, and a gap longer than ten minutes never is, for its start has left
  the window when its end is stored. The alert for prolonged gaps, over 30
  minutes (`gap_detector.py:835`), cannot occur.
* A feed that stops and never resumes has no gap: gaps lie between two ticks.
* The health endpoint logs and sends alerts as the loop does.

*Alerts*

* `publish_alert` succeeds with nobody subscribed. Five idle seconds are taken for
  a broken connection: the consumer goes away, and what is published before it is
  back is lost. `AlertsArrive` starts where the consumer has read the alert.
* `disconnect` for one channel forgets the socket altogether, so the shutdown
  closes no socket that is still in another channel.

*Dashboard*

* `onopen` sets `reconnectAttempts` to 0 whichever socket opens
  (`websocket.ts:57`). If calls of `connect` raced and the last attempt is used
  up, a socket the service has lost hold of may give the attempts back when it
  opens: `websocket.ts:90` would then try again, but nothing is left to ask it.
  The page stays without a socket although attempts remain. `NeverStranded` first
  promised a prospect whenever attempts were left. TLC found no counterexample
  as long as losses were bounded by the attempts; the attempt to prove it for all
  bounds showed this one, and the property now says what a page that lost more
  than `maxReconnectAttempts` sockets can count on only if no calls raced.
* When the provider mounts before Clerk knows the user, it calls `disconnect`,
  which turns reconnection off for good (`websocket.ts:198`,
  `WebSocketContext.tsx:28`): a socket lost later is opened again only by another
  mount. `docs/PRD_COMPLETE.md:2243` wants reconnection. `NeverStranded` is
  therefore about pages that may reconnect.
* At sign-in the provider and every mounted component call `connect` together, and
  each opens a socket (`OneSocket` says that only such races do). The extra
  sockets survive a sign-out.
* Two paths may stand for one channel; unsubscribing one of them leaves the other
  deaf (`Served`). A refused token is retried like a lost connection, and a
  sign-in while the old socket closes is ignored.

## 5. What is proved

`tlapm <module>_proofs.tla` checks each file. The only assumptions are the named
`ASSUME`s of the modules: identities are distinct, bounds are natural numbers,
faults are of the listed kinds.

* **`OrderManagement_proofs`.** `KeysIndexOrders` alone is not inductive: a
  restart replaces memory by what the stores hold. `IInv` therefore says the same
  of every snapshot a file may hold (`FileInv`) and of every open row, which the
  key of its client must lead to (`RowsInv`). Each method is a lemma
  (`SubmitOrderInv`, `CancelAllOrdersInv`, `RestartInv`, ...); the writes share
  `RowsStep` and `FileStep`. This gives `OneOpenOrderPerClientHolds` for any
  number of clients, symbols, orders and restarts and any failing writes, as long
  as the query for open orders works: without it the property is false, for the
  table keeps an open row of a client that memory knows nothing of. The index
  itself needs less, only that snapshots agree (`KInv`) and that a rebuilt key is
  the id of a row (`SmallestId`), so `KeysIndexOrdersHolds` has no assumption on
  faults, and neither has `TypeOKHolds`. For the file store without failures `JInv` adds that the file is memory (`FileCurrent`) and that
  answers are keys (`Answered`): every step then is a step of the ledger or a
  stutter (`FileStoreImplementsLedger`), and idempotency
  (`FileStoreIdempotent`) and positions (`FileStoreKeepsFills`) follow.
  For the database `DInv` says that, while no statement has failed, every order
  in memory is its row (`RowsCurrent`) and the net of all fills is a sum over the
  rows (`Accounted`). `DatabaseKeepsOpenOrders`, `DatabaseRecoversPositions` and
  `DatabaseKeepsOpenKeys` (the key of an open order survives; of a closed one it
  is lost) are action properties that follow at the one step that restarts.
  `OneLifeHolds` says what needs no store at all. The positions
  are rebuilt by a fold of the library over a finite set, which takes elements in
  an order nothing is known about. Induction over sets with a predicate as
  parameter is out of reach, so the lemmas on sums argue by a smallest
  counterexample (`SmallestSet`, from the well-foundedness of the strict subset
  ordering): the sum exists and is an integer (`SumsExist`), does not depend on
  the order (`SumRemove`), follows a changed term (`SumChanged`) and ignores
  zeros (`SumZeros`); `ReconstructedIsSum` links the fold of the model to it.
* **`KillSwitch_proofs`.** `LockHolds` is the base: the owner of the lock is the
  thread whose `pc` is inside a method, and TRIGGERED holds throughout a kill
  and a reset. On it rest `KillLeavesHolds` (`BookInv`: once a callback has begun
  trading is off and every trade is on its list, and the list is empty when it
  is over; a turn that had passed its two looks may book one trade more), and
  `KillStandsHolds` (`StandsInv`: inside a call that holds the lock no kill is
  served to anybody but a signal handler, so `served` tells when the kill came). `TypeOKHolds` adds the log
  and the table. `AuditAgrees` alone is not inductive: a reset looks its row up by
  source among all unresolved ones, and an older one of the same source would do.
  `StoryInv` adds that the current event is the newest and unresolved outside a
  reset (`CurrentInv`), and that row for row the table is the log (`Mirrors`).
  Then the row found is that of the current event (`ResolveIsCurrent`), although
  a disarm or a restart leaves unresolved rows behind (`AuditAgreesHolds`).
* **`CircuitBreaker_proofs`.** The invariant of the loop is a conjunction of what
  a turn carries from one locked call to the next: `Books` (before the second
  reading of the balance the sums refer to the first), `Trials` (the counter lags
  by the turn under way), `Cooling`, `Known` (the breaker remembers the newest
  event), `Halted` (what `check` saw still holds when the turn acts). All three
  properties of the run are theorems, and so are `TypeOK`, `CoolsDown` (a halt
  lasts its cooldown) and `NewestEventTells` (the newest row tells the state),
  which no run repeats.
* **`ModelAssignment_proofs`.** `EventsAssigned` (every event under way follows a
  committed row) gives `TradesOnlyAssignedHolds`; `Checked` and `Entered` (a
  live thread is the entry of its account) give `OneThreadPerAccountHolds`.
  `FirstAssignmentStandsHolds` follows an account's first assignment through
  the system (`FirstComes`: it is with the controller, in the handler, or in the
  channel ahead of every other event of the account), for queues of any length.
  Two action properties follow from the same invariant: `EventsKept` (no step
  makes an event vanish; for a restart this takes `EventsAssigned`, which is why the
  account then counts as one that missed something) and `EntriesStand` (while the
  process lives an account keeps its controller and its model, and the service that
  waits for its own lock gives out no other). The second is why `HotSwap` is
  violated, for any number of accounts, models and threads and not only in the run.
* **`TerminalLink_proofs`.** The invariant says what the socket's state means for
  the request under way (`LinkInv`), what the loop's place says about it
  (`LoopInv`), which orders belong to whom (`OwnInv`), that an answer in the
  socket is one to the request last sent (`AnswerInv`), and that a rejected order
  with a position was garbled, short or given up (`RejectInv`). A request is
  shown to be executed a second time only through `Again`
  (`TwiceOnlyIfGarbledHolds`), for any number of orders, tickets and lots.
  `WedgedForGoodHolds` is the safety half of the wedge: whoever gave up an answer
  leaves a socket that no later step makes ready.
* **`GapDetector_proofs`.** `Pending` is the induction: as long as a due gap is
  unreported, the next check is near enough for the start of the gap to be in its
  window. `GapsReported` is the theorem for every threshold, interval, lookback,
  jitter and delay of rows, including the tight bound on the gap's length. `WideSymbols` counts
  symbols through `OneGapPerMinute`, an injection from gaps to symbols.
  `ReportsBoundedHolds` needs `Spaced`: the reports of a gap, less one for each
  restart, are an interval apart, and fit into the time since its end, into the
  time its start is in the window, and, while the detector runs, into the time to
  the next check.
* **`TickProcessor_proofs`.** The argument is about sets: each place a tick can be
  in (wire, streamer, hand, buffer, a thread's batch, write queue, writer, rows) is
  the set of the ticks there. `Main` is the inductive invariant: `Shape` (types,
  and what a thread has in hand when it holds the lock), `Order` (every place is
  in order, and so are the places among each other) and `Traffic` (what is under
  way is published, and neither stored nor lost). Every action is one of three
  kinds of step (`Steps`): a tick is published, ticks are moved or given up, a
  tick becomes a row. On `Main` rest `Rowed` (the rows, until the receiving thread
  writes by itself), `Overran` (what was lost at a full queue is older than what
  is behind it) and `Times` (`last` is the latest time looked at). `TypeOKHolds`,
  `InOrderHolds`, `OldestGivenUpHolds` and `LateExplainedHolds` follow, and
  `ImplementsFeed` maps each kind of step to a step of `TickFeed` or a stutter.
  `NothingVanishesHolds` is the safety half of `EveryTickSettles`: with `Accounted`,
  what was published is in one of the places of `Line` or was given up.
* **`WebSocket_proofs`.** Both ends of the socket. *The API's end*: `Order` follows an alert from the channel (`InboxOrder`)
  through the broadcast to a socket (`ReceivedOrder`: whoever is still to be sent
  the alert in hand has received only older ones). `Agree` is `ChannelsAgree` made
  inductive: a handler that is not open has subscribed to nothing
  (`HandlersAgree`), and a broadcast that outlives a registration takes out only
  sockets that are lost for good, because whoever raised has ended or has lost its
  peer (`BroadcastAgrees`). `InOrderHolds`, `ChannelsAgreeHolds` and `TypeOKHolds`
  follow for any number of alerts, sockets, channels and reconnections. So does
  `AlertsKeptHolds`, the safety half of `AlertsArrive`: the snapshot a broadcast
  takes holds every peer that is there and has subscribed, and one that raises
  does not keep another from its alert.
  *The page's end*: `PageTyped` types the four parts of the state (`PageSide`,
  `SocketSide`, `QueueSide`, `CallSide`); the sockets made so far are an initial
  segment of the identities, so a token always makes a new one (`TokenMakes`).
  `Served` is about what the handler will have registered once it has read a queue
  of any length, a fold of the library. `FoldIs` solves its recursion without
  induction: the last message about a channel decides, and a smallest set of
  indexes on which the solution and the fold differ would be no smallest one.
  From it follow the three facts about sending and reading (`FoldAppend`,
  `FoldHead`, `FoldSubscribes`), and with them `RightlyServed`, which adds that
  the unknown channel is registered for nobody, is inductive. `OneSocket` needs
  `InTurn`: unless calls raced, whoever waits for a token finds no live socket,
  and a socket that connects is what `isConnecting` says. `NeverStranded` needs
  `Attached`: `InTurn`, `Pristine` (while Clerk does not know the user nothing
  has happened), `FirstSession` (the service reconnects in the first session only,
  and there `isConnecting` speaks of the socket it holds), `AttemptsPaid`
  (attempts and timers come from losses) and `Prospects`, the property itself. The only assumptions are that
  finitely many components mount (`ComponentAssumption`: what they want is sent
  as a sequence) and that bounds are numbers.

Proved and not repeated by a run, to keep runs for what only TLC can do:
`FileStoreKeepsFills`, `DatabaseKeepsOpenKeys`, `OneLifeHolds`,
`BookHolds`, `LockHolds`, `TradesOnlyAssignedHolds`,
`BookedOnceHolds`, `WideSymbols`, `NothingVanishesHolds`, `EventsKeptHolds`,
`EntriesStandHolds`, `AlertsKeptHolds`, and `TypeOK` of `KillSwitch`, `CircuitBreaker`,
`ModelAssignment`, `TerminalLink` and `GapDetector`.

### Only model-checked

Liveness, since the prover does no reasoning about fairness: `FlagKills`,
`CallsReturn`, `EventsAreServed`, `LoopAnswered`, `EveryTickSettles`,
`Resubscribes`, `AlertsArrive`, and the violated `HotSwap`. What is proved of them is
the half without fairness: nothing vanishes while it waits (`EventsKept`,
`NothingVanishes`, `AlertsKept`), and what is wedged stays so (`WedgedForGood`,
`EntriesStand`). The other three promise that somebody gets on, and have none.

## 6. What is not modelled

* Prices, profit in money, spreads, indicator and network arithmetic:
  floating point, of which no property here depends on the digits.
* `OrderManagementSystem.reconcile` changes only counters and reports;
  `_reconcile_positions` of the loop feeds it with the adapter's positions,
  which are always the empty list (`mt5_adapter.py:100`), and returns early.
* The branches of `KillSwitch._close_all_positions` that close something: the adapter
  of the program gives them nothing to close.
* `CircuitBreaker.trip` and `record_latency`, and the registration of the kill
  switch's default triggers, are called by no code of the program; the triggers
  are modelled all the same, because they are the interface of the component.
* The body of `handle_model_unassignment`: the lock it starts with is held by
  its only caller.
* The shutdown of the consumer and of the server: the process ends and its
  threads are daemons, which `Restart` covers.
* *Experiments*: a start cannot succeed. `models.py:203` parses as JSON what the
  driver has already parsed, and `runner.py:342` wants a `LiveTradingEnv` where
  `runner.py:165` built a historical or a paper one: each start ends as FAILED.
* *Model promotion*: only tests create a `ModelPromoter`. Through the API a
  promotion to production is always refused, for the metric it asks for is never
  set, and a rollback always raises. *Paper sessions*: nothing but tests creates
  `PaperTradingSessionManager`. `AITradingIntegration` is imported by nobody.
* *Backfill*: scripts run by hand, one job at a time; the updates of its status go
  through a read-only helper that rolls back, so a job stays "pending". There is
  no second actor and no state to resume from.
* *Sessions, equity, trade log*: rows appended by one thread.
* The dashboard's other hooks, the routers and the scripts: requests without state
  of their own between calls.
* The learning code, features, environments and statistics: floating-point
  arithmetic over arrays, where nothing runs concurrently.

The map covers a small part of the repository's lines for these reasons: most of
the code is numerical, input and output, screens, scripts, or not reached by
the program. What decides about orders, kills, halts, assignments, ticks, gaps
and alerts is modelled.
