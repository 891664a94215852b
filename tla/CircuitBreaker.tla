--------------------------- MODULE CircuitBreaker ---------------------------
(***************************************************************************)
(* The circuit breaker (risk/circuit_breaker.py) and the turn of the       *)
(* trading loop that drives it (TradingController.start).  Every action of *)
(* the loop is one call under the lock of the breaker, so the operator's   *)
(* reset comes between any two of them.  The account the loop reads is a   *)
(* cache: only the answer to a close brings the balance of the broker.     *)
(***************************************************************************)
EXTENDS Integers, Sequences, FiniteSets

CONSTANTS
  StartBalance,   \* the balance of the broker at the start
  LossPct,        \* max_loss_per_hour_pct and max_loss_per_day_pct, in percent
  ErrorPct,       \* max_error_rate, in percent
  MinOperations,  \* min_operations_for_error_rate
  ErrorWindow,    \* error_window_minutes, in ticks
  Cooldown,       \* cooldown_minutes, in ticks
  MaxTrials,      \* half_open_max_trades
  Hour, Day,      \* ticks in an hour and in a day
  Results,        \* what a position may bring when it ends
  Faults,         \* "info": the first balance may be unknown; "db": a statement may fail
  MaxLoss,        \* bound: how far the broker's balance falls, and it never rises above
  MaxTime, MaxOps, MaxErrors, MaxResets, MaxRestarts  \* bounds

Periods == {"hour", "day"}

ASSUME BreakerAssumption ==
  /\ {StartBalance, ErrorPct, MinOperations, ErrorWindow, MaxLoss} \subseteq Nat
  /\ {MaxTime, MaxOps, MaxErrors, MaxResets, MaxRestarts} \subseteq Nat
  /\ {Cooldown, MaxTrials, Hour, Day} \subseteq Nat \ {0} /\ Hour <= MaxTime + 1
  /\ LossPct \in [Periods -> Nat]
  /\ Results \subseteq Int
  /\ Faults \subseteq {"info", "db"}

VARIABLES
  state,          \* _state
  pnl, start,     \* hourly_pnl and daily_pnl, and the balances they count from
  volatility,     \* current_volatility against its limit
  errors, ops,    \* the times of the recorded errors, and operation_count
  tripTime,       \* trip_time
  halfOpenTrades, \* _half_open_trades
  lastEvent,      \* _last_trip_event_id, 0 for none
  events,         \* circuit_breaker_events: is the row resumed?
  lastReset,      \* _last_hourly_reset and _last_daily_reset
  pc,             \* the loop: "top", "check", "act", "record"
  previous,       \* previous_balance
  balance,        \* account.balance, the cache
  broker,         \* the balance at the broker
  position,       \* a position there: none, or one this process knows of or not
  clock, resets, restarts,
  trials,         \* history: the turns that acted since the breaker went half open
  lastTrip,       \* history: when the breaker opened, for one that is not closed
  born,           \* history: the events older than this process
  intact          \* history: no statement of this process failed

metrics == <<pnl, start, volatility, errors, ops>>
breaker == <<state, tripTime, halfOpenTrades, lastEvent, events>>
market == <<balance, broker, position>>
bounds == <<clock, resets, restarts>>
history == <<trials, lastTrip, born, intact>>
vars == <<metrics, breaker, market, bounds, history, lastReset, pc, previous>>

Never == -1

\* _calculate_*_loss_pct against its threshold: nothing is lost of no balance.
Lost(gain, from, pct) == from > 0 /\ -gain * 100 > pct * from

\* The first balance is the broker's, or 0 when the terminal gave no answer.
FirstBalances == IF "info" \in Faults THEN {broker, 0} ELSE {broker}

Zero == [p \in Periods |-> 0]
NoResets == [p \in Periods |-> Never]

\* The constructors, and start up to its loop: initialize takes the cache.
Init ==
  /\ clock \in 0 .. Hour - 1 /\ resets = 0 /\ restarts = 0
  /\ broker = StartBalance /\ position = "none" /\ events = <<>>
  /\ state = "closed" /\ tripTime = Never /\ halfOpenTrades = 0 /\ lastEvent = 0
  /\ balance \in FirstBalances
  /\ pnl = Zero /\ start = [p \in Periods |-> balance]
  /\ volatility = "unset" /\ errors = <<>> /\ ops = 0
  /\ lastReset = NoResets /\ pc = "top" /\ previous = 0
  /\ trials = 0 /\ lastTrip = Never
  /\ born = 0 /\ intact = TRUE

-----------------------------------------------------------------------------
(* What the methods share *)

\* A statement against the table: it may fail, and the failure is swallowed.
Statements == IF "db" \in Faults THEN BOOLEAN ELSE {TRUE}

\* _trip and the row it inserts.
Trip(saved) ==
  /\ state' = "open" /\ tripTime' = clock
  /\ lastTrip' = clock /\ trials' = 0
  /\ intact' = (intact /\ saved)
  /\ IF saved
       THEN events' = Append(events, FALSE) /\ lastEvent' = Len(events) + 1
       ELSE UNCHANGED <<events, lastEvent>>

\* _close: the row it knows of is resumed, the metrics are left as they are.
Close(saved) ==
  /\ events' = IF lastEvent # 0 /\ saved
                 THEN [events EXCEPT ![lastEvent] = TRUE] ELSE events
  /\ intact' = (intact /\ (saved \/ lastEvent = 0))
  /\ state' = "closed" /\ tripTime' = Never
  /\ halfOpenTrades' = 0 /\ lastEvent' = 0
  /\ lastTrip' = Never /\ trials' = 0

\* _should_attempt_recovery
Cooled == tripTime = Never \/ clock - tripTime >= Cooldown

\* check, for a breaker that is open: it may try again.
Retries == state = "open" /\ Cooled

\* Mutant of Refuses: the trials are not counted out.
RefusesWhileOpen == state = "open" /\ ~Cooled

\* The answers of check that need no metric.
Refuses ==
  \/ state = "open" /\ ~Cooled
  \/ state = "half_open" /\ halfOpenTrades >= MaxTrials

RecentErrors == {i \in DOMAIN errors : clock - errors[i] <= ErrorWindow}

\* _check_error_rate, over the errors in the window but every operation so far.
TooManyErrors ==
  /\ ops >= MinOperations /\ ops > 0
  /\ Cardinality(RecentErrors) * 100 > ErrorPct * ops

\* Mutant of Breached: only the loss of the hour is looked at.
BreachedHourly(v) ==
  Lost(pnl["hour"], start["hour"], LossPct["hour"]) \/ v = "spike" \/ TooManyErrors

\* The five checks, of which latency is never recorded by the program.
Breached(v) ==
  \/ \E p \in Periods : Lost(pnl[p], start[p], LossPct[p])
  \/ v = "spike"
  \/ TooManyErrors

\* _check_volatility asks the price history only while nothing was recorded.
SeenVolatilities ==
  IF volatility = "unset" THEN {"unset", "calm", "spike"} ELSE {volatility}

-----------------------------------------------------------------------------
(* The loop *)

\* _check_and_reset_circuit_breaker: only in the first tick of a period.
Due(p) ==
  LET length == IF p = "hour" THEN Hour ELSE Day
  IN /\ clock % length = 0
     /\ lastReset[p] = Never \/ clock - lastReset[p] >= length

\* Mutant of ResetPeriods: the balance to count from is not taken again.
ResetPeriodsKeepingStart ==
  /\ pc = "top" /\ pc' = "check"
  /\ pnl' = [p \in Periods |-> IF Due(p) THEN 0 ELSE pnl[p]]
  /\ lastReset' = [p \in Periods |-> IF Due(p) THEN clock ELSE lastReset[p]]
  /\ UNCHANGED <<start, volatility, errors, ops, breaker, market, bounds, previous, history>>

\* The loop looks for periods to reset at the top of every turn.
ResetPeriods ==
  /\ pc = "top" /\ pc' = "check"
  /\ pnl' = [p \in Periods |-> IF Due(p) THEN 0 ELSE pnl[p]]
  /\ start' = [p \in Periods |-> IF Due(p) THEN balance ELSE start[p]]
  /\ lastReset' = [p \in Periods |-> IF Due(p) THEN clock ELSE lastReset[p]]
  /\ UNCHANGED <<volatility, errors, ops, breaker, market, bounds, previous,
                 trials, lastTrip, born, intact>>

\* check answers no before it looks at a metric; the loop sleeps.
CheckRefuses ==
  /\ pc = "check" /\ Refuses /\ pc' = "top"
  /\ UNCHANGED <<metrics, breaker, market, bounds, history, lastReset, previous>>

\* check finds a threshold crossed, also while it is half open.
CheckTrips ==
  /\ pc = "check" /\ ~Refuses /\ pc' = "top"
  /\ \E v \in SeenVolatilities, saved \in Statements :
       Breached(v) /\ volatility' = v /\ Trip(saved)
  /\ halfOpenTrades' = IF Retries THEN 0 ELSE halfOpenTrades
  /\ UNCHANGED <<pnl, start, errors, ops, market, bounds, lastReset, previous,
                 born>>

\* check lets the turn trade, half open when the cooldown is over.
CheckPermits ==
  /\ pc = "check" /\ ~Refuses /\ pc' = "act"
  /\ \E v \in SeenVolatilities : ~Breached(v) /\ volatility' = v
  /\ state' = IF Retries THEN "half_open" ELSE state
  /\ halfOpenTrades' = IF Retries THEN 0 ELSE halfOpenTrades
  /\ UNCHANGED <<pnl, start, errors, ops, tripTime, lastEvent, events, market,
                 bounds, lastReset, previous, history>>

\* The feed is stale, or trading is not enabled: nothing is recorded.
Skip ==
  /\ pc = "act" /\ pc' = "top"
  /\ UNCHANGED <<metrics, breaker, market, bounds, history, lastReset, previous>>

\* A position ends with one of the results the bound leaves.
Settle ==
  /\ position' = "none"
  /\ \E result \in Results :
       /\ broker + result \in StartBalance - MaxLoss .. StartBalance
       /\ broker' = broker + result

\* Hold, or an order that was refused: the balance stays.
Hold == UNCHANGED <<market, errors, ops>>

\* A position is opened; the account learns nothing about its balance.
Open == position' = "known" /\ UNCHANGED <<balance, broker, errors, ops>>

\* A position is closed, and the answer brings the balance of the account.
CloseOrder ==
  /\ position = "known" /\ Settle
  /\ balance' = broker'
  /\ UNCHANGED <<errors, ops>>

\* One operation more, counted up to the bound.
OneMore == IF ops < MaxOps THEN ops + 1 ELSE ops

\* _execute_action swallows what its call raised and records an error.
Fail ==
  /\ Len(errors) < MaxErrors
  /\ errors' = Append(errors, clock) /\ ops' = OneMore
  /\ UNCHANGED market

Execute ==
  /\ pc = "act" /\ pc' = "record"
  /\ previous' = balance
  /\ Hold \/ Open \/ CloseOrder \/ Fail
  /\ trials' = IF state = "half_open" THEN trials + 1 ELSE trials
  /\ UNCHANGED <<pnl, start, volatility, breaker, bounds, lastReset, lastTrip,
                 born, intact>>

\* The end of the trial when it was the last one and did not lose.
Recovers(gain) == gain >= 0 /\ halfOpenTrades + 1 >= MaxTrials

\* record_trade with the change of the balance, then record_volatility.
RecordTrade ==
  LET gain == balance - previous
  IN /\ pc = "record" /\ pc' = "top"
     /\ previous' = 0
     /\ pnl' = [p \in Periods |-> pnl[p] + gain]
     /\ ops' = OneMore
     /\ volatility' \in {volatility, "calm", "spike"}
     /\ \/ /\ state = "half_open" /\ Recovers(gain)
           /\ \E saved \in Statements : Close(saved)
        \/ /\ state = "half_open" /\ ~Recovers(gain)
           /\ halfOpenTrades' = halfOpenTrades + 1
           /\ UNCHANGED <<state, tripTime, lastEvent, events, trials, lastTrip, intact>>
        \/ state # "half_open" /\ UNCHANGED <<breaker, trials, lastTrip, intact>>
     /\ UNCHANGED <<start, errors, market, bounds, lastReset, born>>

-----------------------------------------------------------------------------
(* The rest of the world *)

\* reset(manual=True) by the operator; a breaker that is closed is left alone.
Reset ==
  /\ resets < MaxResets /\ resets' = resets + 1
  /\ state # "closed"
  /\ \E saved \in Statements : Close(saved)
  /\ UNCHANGED <<metrics, market, clock, restarts, lastReset, pc, previous,
                 born>>

\* The broker ends the position at its stop or its target: nobody is told.
StopOut ==
  /\ position # "none" /\ Settle
  /\ UNCHANGED <<metrics, breaker, balance, bounds, history, lastReset, pc, previous>>

Tick ==
  /\ clock < MaxTime /\ clock' = clock + 1
  /\ UNCHANGED <<metrics, breaker, market, resets, restarts, history, lastReset,
                 pc, previous>>

\* A new process: the breaker is closed, and the account knows of no trade.
Restart ==
  /\ restarts < MaxRestarts /\ restarts' = restarts + 1
  /\ state' = "closed" /\ tripTime' = Never
  /\ halfOpenTrades' = 0 /\ lastEvent' = 0
  /\ balance' \in FirstBalances
  /\ pnl' = Zero /\ start' = [p \in Periods |-> balance']
  /\ volatility' = "unset" /\ errors' = <<>> /\ ops' = 0
  /\ lastReset' = NoResets /\ pc' = "top" /\ previous' = 0
  /\ trials' = 0 /\ lastTrip' = Never
  /\ born' = Len(events) /\ intact' = TRUE
  /\ position' = IF position = "none" THEN "none" ELSE "unknown"
  /\ UNCHANGED <<events, broker, clock, resets>>

Next ==
  \/ ResetPeriods \/ CheckRefuses \/ CheckTrips \/ CheckPermits
  \/ Skip \/ Execute \/ RecordTrade
  \/ Reset \/ StopOut \/ Tick \/ Restart

Spec == Init /\ [][Next]_vars

-----------------------------------------------------------------------------
(* Properties *)

Times == 0 .. MaxTime

\* The type invariant.
TypeOK ==
  /\ state \in {"closed", "open", "half_open"}
  /\ pnl \in [Periods -> Int] /\ start \in [Periods -> Int]
  /\ volatility \in {"unset", "calm", "spike"}
  /\ errors \in Seq(Times) /\ ops \in 0 .. MaxOps
  /\ tripTime \in Times \cup {Never} /\ lastTrip \in Times \cup {Never}
  /\ halfOpenTrades \in 0 .. MaxTrials /\ trials \in Nat
  /\ events \in Seq(BOOLEAN) /\ lastEvent \in 0 .. Len(events)
  /\ lastReset \in [Periods -> Times \cup {Never}]
  /\ pc \in {"top", "check", "act", "record"}
  /\ {previous, balance, broker} \subseteq Int /\ position \in {"none", "known", "unknown"}
  /\ clock \in Times /\ resets \in 0 .. MaxResets /\ restarts \in 0 .. MaxRestarts
  /\ born \in 0 .. Len(events) /\ intact \in BOOLEAN

\* However check, the trades and the operator's reset interleave, a breaker that
\* is half open has let through at most half_open_max_trades turns since it
\* last opened: the counter counts every turn check permitted.
TrialsBounded == state = "half_open" => trials <= MaxTrials

\* hourly_pnl and daily_pnl are what the account lost or won since the start
\* they are divided by, whenever no trade is between its two readings of the
\* balance: over resets of either period, errors, trips and restarts.
BooksAgree ==
  pc # "record" => \A p \in Periods : pnl[p] = balance - start[p]

\* No turn acts while the account knows of a loss over a limit, also not as a
\* trial of the half-open breaker and not after the operator reset it.
LossHalts ==
  pc = "act" => \A p \in Periods : ~Lost(balance - start[p], start[p], LossPct[p])

\* A breaker that went half open did so a whole cooldown after the last time
\* it opened, not after the first.
CoolsDown == state = "half_open" => clock - lastTrip >= Cooldown

\* Unless a statement failed, the newest event of this process is unresumed
\* exactly while the breaker is not closed.
NewestEventTells ==
  intact /\ (state # "closed" \/ Len(events) > born) =>
    /\ Len(events) > born
    /\ events[Len(events)] <=> state = "closed"

=============================================================================
