----------------------- MODULE CircuitBreaker_proofs -----------------------
(***************************************************************************)
(* The safety properties of the circuit breaker, for every value of the    *)
(* constants.  The inductive invariant says, next to the types, what the   *)
(* loop carries from one call under the lock to the next.                  *)
(***************************************************************************)
EXTENDS CircuitBreaker, TLAPS

States == {"closed", "open", "half_open"}

-----------------------------------------------------------------------------
(* The inductive invariant, part by part *)

\* The metrics and the bounds of the loop.
MetricsOK ==
  /\ pnl \in [Periods -> Int] /\ start \in [Periods -> Int]
  /\ volatility \in {"unset", "calm", "spike"}
  /\ errors \in Seq(Times) /\ ops \in 0 .. MaxOps
  /\ lastReset \in [Periods -> Times \cup {Never}]
  /\ pc \in {"top", "check", "act", "record"}
  /\ previous \in Int /\ balance \in Int /\ broker \in Int
  /\ position \in {"none", "known", "unknown"}
  /\ clock \in Times /\ resets \in 0 .. MaxResets /\ restarts \in 0 .. MaxRestarts

\* The breaker itself.
BreakerOK ==
  /\ state \in States
  /\ tripTime \in Times \cup {Never} /\ lastTrip \in Times \cup {Never}
  /\ halfOpenTrades \in 0 .. MaxTrials /\ trials \in Nat

\* The events and what the breaker remembers of them.
EventsOK ==
  /\ events \in Seq(BOOLEAN) /\ lastEvent \in 0 .. Len(events)
  /\ born \in 0 .. Len(events) /\ intact \in BOOLEAN

\* While a trade is recorded, the books are those of its first reading.
Books ==
  LET known == IF pc = "record" THEN previous ELSE balance
  IN \A p \in Periods : pnl[p] = known - start[p]

\* The counter lags behind the trials by the one that is under way.
Trials ==
  /\ pc \in {"act", "record"} => state # "open"
  /\ state # "half_open" => trials = 0
  /\ state = "half_open" /\ pc # "record" => trials = halfOpenTrades
  /\ state = "half_open" /\ pc = "record" => trials = halfOpenTrades + 1
  /\ state = "half_open" /\ pc \in {"act", "record"} => halfOpenTrades < MaxTrials

\* The time of the trip is that of the last one, and half open comes after it.
Cooling ==
  /\ state # "closed" => tripTime = lastTrip /\ tripTime \in Times
  /\ state = "half_open" => clock - tripTime >= Cooldown

\* The breaker knows the newest event while it is not closed.
Known ==
  /\ state = "closed" => lastEvent = 0
  /\ intact /\ state # "closed" =>
       lastEvent = Len(events) /\ Len(events) > born /\ events[Len(events)] = FALSE
  /\ intact /\ state = "closed" /\ Len(events) > born => events[Len(events)] = TRUE

\* A permitted turn starts with no loss over a limit.
Halted == pc = "act" => \A p \in Periods : ~Lost(pnl[p], start[p], LossPct[p])

Inv == MetricsOK /\ BreakerOK /\ EventsOK /\ Books /\ Trials /\ Cooling /\ Known /\ Halted

-----------------------------------------------------------------------------
(* The constants, one by one *)

LEMMA Constants ==
  /\ StartBalance \in Nat /\ MaxTime \in Nat /\ MaxOps \in Nat
  /\ MaxResets \in Nat /\ MaxRestarts \in Nat
  /\ Cooldown \in Nat \ {0} /\ MaxTrials \in Nat \ {0} /\ Hour \in Nat \ {0}
  /\ Hour <= MaxTime + 1 /\ Results \subseteq Int
BY BreakerAssumption

-----------------------------------------------------------------------------
(* The initial state *)

LEMMA Initial == Init => Inv
<1>0. USE Constants
<1>. SUFFICES ASSUME Init PROVE Inv
  OBVIOUS
<1>1. MetricsOK
  BY DEF Init, MetricsOK, FirstBalances, Zero, NoResets, Times, Never
<1>2. BreakerOK
  BY DEF Init, BreakerOK, States
<1>3. EventsOK
  BY DEF Init, EventsOK
<1>4. Books
  BY <1>1 DEF Init, Books, MetricsOK, Zero
<1>5. Trials /\ Cooling /\ Known /\ Halted
  BY DEF Init, Trials, Cooling, Known, Halted
<1>6. QED
  BY <1>1, <1>2, <1>3, <1>4, <1>5 DEF Inv

-----------------------------------------------------------------------------
(* Trip and Close, which three of the actions share *)

LEMMA TripKeeps ==
  ASSUME EventsOK, Known, clock \in Times, NEW saved \in BOOLEAN, Trip(saved),
         born' = born
  PROVE  EventsOK' /\ Known'
<1>1. CASE saved
  <2>1. events' = Append(events, FALSE) /\ lastEvent' = Len(events) + 1
    BY <1>1 DEF Trip
  <2>2. events' \in Seq(BOOLEAN) /\ Len(events') = Len(events) + 1
        /\ events'[Len(events')] = FALSE
    BY <2>1 DEF EventsOK
  <2>3. QED
    BY <2>1, <2>2 DEF Trip, EventsOK, Known
<1>2. CASE ~saved
  BY <1>2 DEF Trip, EventsOK, Known
<1>3. QED
  BY <1>1, <1>2

LEMMA CloseKeeps ==
  ASSUME EventsOK, Known, state # "closed", NEW saved \in BOOLEAN, Close(saved),
         born' = born
  PROVE  EventsOK' /\ Known'
<1>1. CASE lastEvent # 0 /\ saved
  <2>1. events' = [events EXCEPT ![lastEvent] = TRUE]
    BY <1>1 DEF Close
  <2>2. events' \in Seq(BOOLEAN) /\ Len(events') = Len(events)
        /\ events'[lastEvent] = TRUE
    BY <1>1, <2>1 DEF EventsOK
  <2>3. intact' = intact
    BY <1>1 DEF Close, EventsOK
  <2>4. EventsOK'
    BY <2>2, <2>3 DEF Close, EventsOK
  <2>5. state' = "closed" /\ lastEvent' = 0
    BY DEF Close
  <2>6. intact' => events'[Len(events')] = TRUE
    BY <2>2, <2>3 DEF Known
  <2>7. QED
    BY <2>4, <2>5, <2>6 DEF Known
<1>2. CASE ~(lastEvent # 0 /\ saved)
  <2>1. events' = events
    BY <1>2 DEF Close
  <2>2. CASE lastEvent = 0
    BY <2>1, <2>2 DEF Close, EventsOK, Known
  <2>3. CASE lastEvent # 0
    BY <1>2, <2>1, <2>3 DEF Close, EventsOK, Known
  <2>4. QED
    BY <2>2, <2>3
<1>3. QED
  BY <1>1, <1>2

-----------------------------------------------------------------------------
(* One lemma per part: which actions can disturb it, and why they do not *)

\* The metrics, the account and the bounds keep their types.
LEMMA MetricsStep ==
  ASSUME MetricsOK, Next
  PROVE  MetricsOK'
<1>0. USE Constants DEF MetricsOK, Times, Never
<1>1. CASE ResetPeriods
  BY <1>1 DEF ResetPeriods, market, bounds, Periods
<1>2. CASE CheckRefuses
  BY <1>2 DEF CheckRefuses, metrics, market, bounds
<1>3. CASE CheckTrips
  BY <1>3 DEF CheckTrips, market, bounds, SeenVolatilities
<1>4. CASE CheckPermits
  BY <1>4 DEF CheckPermits, market, bounds, SeenVolatilities
<1>5. CASE Skip
  BY <1>5 DEF Skip, metrics, market, bounds
<1>6. CASE Execute
  <2>1. CASE Hold
    BY <1>6, <2>1 DEF Execute, Hold, market, bounds
  <2>2. CASE Open
    BY <1>6, <2>2 DEF Execute, Open, bounds
  <2>3. CASE CloseOrder
    <3>1. broker' \in Int
      BY <2>3 DEF CloseOrder, Settle
    <3>2. QED
      BY <1>6, <2>3, <3>1 DEF Execute, CloseOrder, Settle, bounds
  <2>4. CASE Fail
    <3>1. errors' \in Seq(Times)
      BY <2>4 DEF Fail
    <3>2. QED
      BY <1>6, <2>4, <3>1 DEF Execute, Fail, OneMore, market, bounds
  <2>5. QED
    BY <1>6, <2>1, <2>2, <2>3, <2>4 DEF Execute
<1>7. CASE RecordTrade
  <2>1. pnl' \in [Periods -> Int]
    BY <1>7 DEF RecordTrade
  <2>2. ops' \in 0 .. MaxOps
    BY <1>7 DEF RecordTrade, OneMore
  <2>3. volatility' \in {"unset", "calm", "spike"} /\ pc' = "top" /\ previous' = 0
    BY <1>7 DEF RecordTrade
  <2>4. UNCHANGED <<start, errors, market, bounds, lastReset>>
    BY <1>7 DEF RecordTrade
  <2>5. QED
    BY <2>1, <2>2, <2>3, <2>4 DEF market, bounds
<1>8. CASE Reset
  BY <1>8 DEF Reset, metrics, market
<1>9. CASE StopOut
  BY <1>9 DEF StopOut, Settle, metrics, bounds
<1>10. CASE Tick
  BY <1>10 DEF Tick, metrics, market
<1>11. CASE Restart
  BY <1>11 DEF Restart, FirstBalances, Zero, NoResets
<1>12. QED
  BY <1>1, <1>2, <1>3, <1>4, <1>5, <1>6, <1>7, <1>8, <1>9, <1>10, <1>11 DEF Next

LEMMA BreakerStep ==
  ASSUME MetricsOK, BreakerOK, Trials, Next
  PROVE  BreakerOK'
<1>0. USE Constants DEF BreakerOK, MetricsOK, Times, Never, States
<1>1. CASE ResetPeriods
  BY <1>1 DEF ResetPeriods, breaker
<1>2. CASE CheckRefuses
  BY <1>2 DEF CheckRefuses, breaker, history
<1>3. CASE CheckTrips
  BY <1>3 DEF CheckTrips, Trip
<1>4. CASE CheckPermits
  BY <1>4 DEF CheckPermits, history
<1>5. CASE Skip
  BY <1>5 DEF Skip, breaker, history
<1>6. CASE Execute
  BY <1>6 DEF Execute, breaker
<1>7. CASE RecordTrade
  <2>1. CASE \E saved \in Statements : Close(saved)
    BY <2>1 DEF Close
  <2>2. CASE /\ state = "half_open" /\ halfOpenTrades' = halfOpenTrades + 1
             /\ UNCHANGED <<state, tripTime, trials, lastTrip>>
    <3>1. halfOpenTrades < MaxTrials
      BY <1>7, <2>2 DEF RecordTrade, Trials
    <3>2. QED
      BY <2>2, <3>1
  <2>3. CASE UNCHANGED <<breaker, trials, lastTrip>>
    BY <2>3 DEF breaker
  <2>4. QED
    BY <1>7, <2>1, <2>2, <2>3 DEF RecordTrade
<1>8. CASE Reset
  BY <1>8 DEF Reset, Close
<1>9. CASE StopOut
  BY <1>9 DEF StopOut, breaker, history
<1>10. CASE Tick
  BY <1>10 DEF Tick, breaker, history
<1>11. CASE Restart
  BY <1>11 DEF Restart
<1>12. QED
  BY <1>1, <1>2, <1>3, <1>4, <1>5, <1>6, <1>7, <1>8, <1>9, <1>10, <1>11 DEF Next

LEMMA EventsStep ==
  ASSUME MetricsOK, EventsOK, Known, Next
  PROVE  EventsOK' /\ Known'
<1>1. ASSUME UNCHANGED breaker, UNCHANGED <<born, intact>>
      PROVE  EventsOK' /\ Known'
  BY <1>1 DEF EventsOK, Known, breaker
<1>2. CASE ResetPeriods \/ CheckRefuses \/ Skip \/ Execute \/ StopOut \/ Tick
  BY <1>1, <1>2 DEF ResetPeriods, CheckRefuses, Skip, Execute, StopOut, Tick, history
<1>3. CASE CheckTrips
  <2>1. PICK saved \in Statements : Trip(saved)
    BY <1>3 DEF CheckTrips
  <2>2. QED
    BY <1>3, <2>1, TripKeeps DEF CheckTrips, MetricsOK, Statements
<1>4. CASE CheckPermits
  BY <1>4 DEF CheckPermits, Retries, EventsOK, Known, history
<1>5. CASE RecordTrade
  <2>1. CASE state = "half_open" /\ \E saved \in Statements : Close(saved)
    BY <1>5, <2>1, CloseKeeps DEF RecordTrade, Statements
  <2>2. CASE UNCHANGED <<state, lastEvent, events, intact>>
    BY <1>5, <2>2 DEF RecordTrade, EventsOK, Known
  <2>3. CASE UNCHANGED <<breaker, intact>>
    BY <1>1, <1>5, <2>3 DEF RecordTrade
  <2>4. QED
    BY <1>5, <2>1, <2>2, <2>3 DEF RecordTrade
<1>6. CASE Reset
  BY <1>6, CloseKeeps DEF Reset, Statements
<1>7. CASE Restart
  BY <1>7 DEF Restart, EventsOK, Known
<1>8. QED
  BY <1>2, <1>3, <1>4, <1>5, <1>6, <1>7 DEF Next

LEMMA BooksStep ==
  ASSUME MetricsOK, Books, Next
  PROVE  Books'
<1>0. USE Constants DEF MetricsOK, Books
<1>1. CASE ResetPeriods
  BY <1>1 DEF ResetPeriods, market
<1>2. CASE CheckRefuses \/ Skip
  BY <1>2 DEF CheckRefuses, Skip, metrics, market
<1>3. CASE CheckTrips \/ CheckPermits
  BY <1>3 DEF CheckTrips, CheckPermits, market
<1>4. CASE Execute
  BY <1>4 DEF Execute
<1>5. CASE RecordTrade
  BY <1>5 DEF RecordTrade, market
<1>6. CASE Reset \/ StopOut \/ Tick
  BY <1>6 DEF Reset, StopOut, Tick, metrics, market
<1>7. CASE Restart
  <2>1. balance' \in Int
    BY <1>7 DEF Restart, FirstBalances
  <2>2. \A p \in Periods : pnl'[p] = 0 /\ start'[p] = balance'
    BY <1>7 DEF Restart, Zero
  <2>3. pc' = "top"
    BY <1>7 DEF Restart
  <2>4. QED
    BY <2>1, <2>2, <2>3
<1>8. QED
  BY <1>1, <1>2, <1>3, <1>4, <1>5, <1>6, <1>7 DEF Next

LEMMA TrialsStep ==
  ASSUME MetricsOK, BreakerOK, Trials, Next
  PROVE  Trials'
<1>0. USE Constants DEF MetricsOK, BreakerOK, States
<1>1. CASE ResetPeriods
  BY <1>1 DEF ResetPeriods, breaker, Trials
<1>2. CASE CheckRefuses \/ Skip
  BY <1>2 DEF CheckRefuses, Skip, breaker, history, Trials
<1>3. CASE CheckTrips
  BY <1>3 DEF CheckTrips, Trip, Trials
<1>4. CASE CheckPermits
  <2>1. CASE Retries
    BY <1>4, <2>1 DEF CheckPermits, Retries, history, Trials
  <2>2. CASE ~Retries
    <3>1. state # "open"
      BY <1>4, <2>2 DEF CheckPermits, Refuses, Retries
    <3>2. state = "half_open" => halfOpenTrades < MaxTrials
      BY <1>4 DEF CheckPermits, Refuses
    <3>3. QED
      BY <1>4, <2>2, <3>1, <3>2 DEF CheckPermits, history, Trials
  <2>3. QED
    BY <2>1, <2>2
<1>5. CASE Execute
  BY <1>5 DEF Execute, breaker, Trials
<1>6. CASE RecordTrade
  <2>1. CASE \E saved \in Statements : Close(saved)
    BY <1>6, <2>1 DEF RecordTrade, Close, Trials
  <2>2. CASE /\ state = "half_open" /\ halfOpenTrades' = halfOpenTrades + 1
             /\ UNCHANGED <<state, trials>>
    BY <1>6, <2>2 DEF RecordTrade, Trials
  <2>3. CASE state # "half_open" /\ UNCHANGED <<breaker, trials>>
    BY <1>6, <2>3 DEF RecordTrade, breaker, Trials
  <2>4. QED
    BY <1>6, <2>1, <2>2, <2>3 DEF RecordTrade
<1>7. CASE Reset
  BY <1>7 DEF Reset, Close, Trials
<1>8. CASE StopOut \/ Tick
  BY <1>8 DEF StopOut, Tick, breaker, history, Trials
<1>9. CASE Restart
  BY <1>9 DEF Restart, Trials
<1>10. QED
  BY <1>1, <1>2, <1>3, <1>4, <1>5, <1>6, <1>7, <1>8, <1>9 DEF Next

LEMMA CoolingStep ==
  ASSUME MetricsOK, BreakerOK, Cooling, Next
  PROVE  Cooling'
<1>0. USE Constants DEF MetricsOK, BreakerOK, States, Times
<1>1. CASE ResetPeriods \/ CheckRefuses \/ Skip \/ Execute \/ StopOut
  BY <1>1 DEF ResetPeriods, CheckRefuses, Skip, Execute, StopOut, breaker, bounds,
              history, Cooling
<1>2. CASE CheckTrips
  BY <1>2 DEF CheckTrips, Trip, bounds, Cooling
<1>3. CASE CheckPermits
  BY <1>3 DEF CheckPermits, Retries, Cooled, bounds, history, Cooling, Never
<1>4. CASE RecordTrade
  <2>1. CASE \E saved \in Statements : Close(saved)
    BY <2>1 DEF Close, Cooling
  <2>2. CASE UNCHANGED <<state, tripTime, lastTrip, clock>>
    BY <2>2 DEF Cooling
  <2>3. QED
    BY <1>4, <2>1, <2>2 DEF RecordTrade, breaker, bounds
<1>5. CASE Reset
  BY <1>5 DEF Reset, Close, Cooling
<1>6. CASE Tick
  BY <1>6 DEF Tick, breaker, history, Cooling
<1>7. CASE Restart
  BY <1>7 DEF Restart, Cooling
<1>8. QED
  BY <1>1, <1>2, <1>3, <1>4, <1>5, <1>6, <1>7 DEF Next

LEMMA HaltedStep ==
  ASSUME Halted, Next
  PROVE  Halted'
<1>1. CASE ResetPeriods \/ CheckRefuses \/ CheckTrips \/ Skip \/ Execute \/ RecordTrade
  BY <1>1 DEF ResetPeriods, CheckRefuses, CheckTrips, Skip, Execute, RecordTrade, Halted
<1>2. CASE CheckPermits
  <2>1. \A p \in Periods : ~Lost(pnl[p], start[p], LossPct[p])
    BY <1>2 DEF CheckPermits, Breached
  <2>2. pnl' = pnl /\ start' = start
    BY <1>2 DEF CheckPermits
  <2>3. QED
    BY <2>1, <2>2 DEF Halted, Lost
<1>3. CASE Reset \/ StopOut \/ Tick
  BY <1>3 DEF Reset, StopOut, Tick, metrics, Halted, Lost
<1>4. CASE Restart
  BY <1>4 DEF Restart, Halted
<1>5. QED
  BY <1>1, <1>2, <1>3, <1>4 DEF Next

LEMMA Inductive == Inv /\ [Next]_vars => Inv'
<1>1. CASE Next
  BY <1>1, MetricsStep, BreakerStep, EventsStep, BooksStep, TrialsStep, CoolingStep,
     HaltedStep DEF Inv
<1>2. CASE UNCHANGED vars
  BY <1>2 DEF vars, metrics, breaker, market, bounds, history, Inv, MetricsOK,
     BreakerOK, EventsOK, Books, Trials, Cooling, Known, Halted, Lost
<1>3. QED
  BY <1>1, <1>2

-----------------------------------------------------------------------------
(* The theorems *)

\* What the turns of the loop carry along holds in every reachable state.
THEOREM Invariance == Spec => []Inv
BY Initial, Inductive, PTL DEF Spec

\* Every variable keeps to its type.
THEOREM TypeOKHolds == Spec => []TypeOK
<1>1. Inv => TypeOK
  BY DEF Inv, MetricsOK, BreakerOK, EventsOK, TypeOK, States
<1>2. QED
  BY <1>1, Invariance, PTL

\* At most MaxTrials turns act before a half-open breaker closes or opens.
THEOREM TrialsBoundedHolds == Spec => []TrialsBounded
<1>1. Inv => TrialsBounded
  BY Constants DEF Inv, MetricsOK, BreakerOK, Trials, TrialsBounded
<1>2. QED
  BY <1>1, Invariance, PTL

\* The profit and loss of a period is what the account's balance did in it.
THEOREM BooksAgreeHolds == Spec => []BooksAgree
<1>1. Inv => BooksAgree
  BY DEF Inv, Books, BooksAgree
<1>2. QED
  BY <1>1, Invariance, PTL

\* No turn acts on a balance that is over a loss limit.
THEOREM LossHaltsHolds == Spec => []LossHalts
<1>1. Inv => LossHalts
  <2>1. SUFFICES ASSUME Inv, pc = "act", NEW p \in Periods
                 PROVE  ~Lost(balance - start[p], start[p], LossPct[p])
    BY DEF LossHalts
  <2>2. ~Lost(pnl[p], start[p], LossPct[p])
    BY <2>1 DEF Inv, Halted
  <2>3. pnl[p] = balance - start[p]
    BY <2>1 DEF Inv, Books
  <2>4. QED
    BY <2>2, <2>3
<1>2. QED
  BY <1>1, Invariance, PTL

\* Half open comes a whole cooldown after the last trip.
THEOREM CoolsDownHolds == Spec => []CoolsDown
<1>1. Inv => CoolsDown
  BY DEF Inv, Cooling, CoolsDown
<1>2. QED
  BY <1>1, Invariance, PTL

\* Without failed statements the newest event is open while the breaker is not
\* closed, and only then.
THEOREM NewestEventTellsHolds == Spec => []NewestEventTells
<1>1. Inv => NewestEventTells
  BY DEF Inv, EventsOK, Known, NewestEventTells
<1>2. QED
  BY <1>1, Invariance, PTL
=============================================================================
