------------------------------ MODULE KillSwitch ------------------------------
(***************************************************************************)
(* The kill switch of risk/kill_switch.py: its three states, the re-entrant *)
(* lock, the monitor threads of its triggers, and the operator's thread     *)
(* that arms, disarms, triggers and resets it.  A method that holds the     *)
(* lock is cut into the steps that another thread can see in between (state *)
(* is read without the lock), and a signal handler runs on the operator's   *)
(* thread between any two of them, re-entering the lock that thread holds.  *)
(*                                                                         *)
(* trigger() closes nothing itself: MT5BrokerAdapter has no method to close *)
(* a position and lists none.  What is closed are the trades booked in this *)
(* process, by the callback of the trading controller, one after the other. *)
(*                                                                         *)
(* A trigger's monitor is one thread here; the thread a re-arm starts       *)
(* beside one that outlived its stop polls the same flag.                   *)
(***************************************************************************)
EXTENDS Naturals, Sequences

CONSTANTS
  Polled,        \* triggers whose flag stays up: kill file, environment
  Pushed,        \* triggers with a listener: UDP datagrams
  Signalled,     \* triggers with a signal handler: SIGUSR1
  Main,          \* the operator's thread
  Nobody,        \* owner of the free lock
  Trades,        \* tickets of the account's trades
  CloseMayFail,  \* closing a trade may fail: market closed, terminal silent
  LogMayFail,    \* a statement on kill_switch_events may fail
  MaxEvents,     \* bound: no request, start or stop after so many kills
  MaxRestarts    \* bound on restarts of the process

Monitors == Polled \cup Pushed
Triggers == Monitors \cup Signalled
Threads == Monitors \cup {Main}

ASSUME ThreadAssumption ==
  /\ Main \notin Triggers /\ Nobody \notin Threads
  /\ Polled \cap Pushed = {} /\ Signalled \cap Monitors = {}
ASSUME FaultAssumption == CloseMayFail \in BOOLEAN /\ LogMayFail \in BOOLEAN
ASSUME BoundAssumption == MaxEvents \in Nat /\ MaxRestarts \in Nat

VARIABLES
  state,       \* self._state
  owner,       \* the thread that holds self._lock
  pc,          \* where each thread is
  monitoring,  \* trigger._monitoring; for a signal, the handler is installed
  flag,        \* kill file exists, variable is set, datagram or signal waits
  running,     \* the controller's is_running
  enabled,     \* the controller's trading_enabled
  turn,        \* how far the loop's turn is: none, past the look at is_active,
               \* past the look at trading_enabled
  trade,       \* what is booked in account.current_trade, and what became of it
  log,         \* self._events, saved as the audit log
  current,     \* self._current_event: an index into log, 0 for None
  rows,        \* the kill_switch_events table
  restarts,    \* how often the process was restarted
  served,      \* history: where the operator's thread was when the kill in force was
               \* last served to somebody; or that a signal interrupted a call of it
  unlogged     \* history: a statement on kill_switch_events has failed

auditVars == <<log, current, rows, unlogged>>
tradeVars == <<running, enabled, turn, trade>>
vars == <<state, owner, pc, monitoring, flag, tradeVars, auditVars, restarts, served>>

\* Places of a monitor thread: not running; in its loop; back from a check
\* that said yes, before or while waiting for the lock; inside trigger(),
\* before and in the controller's callback.
MonitorPlaces == {"off", "watch", "fire", "sweep", "closing"}
\* Places of the operator's thread: no call; inside trigger() as above; inside
\* arm(); in TradingController.stop after it read is_active(); inside disarm();
\* inside reset(), before and after the triggers are reset.
MainPlaces == {"idle", "sweep", "closing", "arming", "stopping", "disarming",
               "resetting", "rearming"}
Turns == {"none", "decided", "ordering"}
\* A trade is not open; booked; on the list of the callback that is under way;
\* left open by a close that failed; booked after a callback took its list.
Fates == {"none", "booked", "listed", "refused", "late"}

Init ==
  /\ state = "DISABLED" /\ owner = Nobody
  /\ pc = [t \in Threads |-> IF t = Main THEN "idle" ELSE "off"]
  /\ monitoring = [t \in Triggers |-> FALSE]
  /\ flag = [t \in Triggers |-> FALSE]
  /\ running = FALSE /\ enabled = TRUE /\ turn = "none"
  /\ trade = [p \in Trades |-> "none"]
  /\ log = <<>> /\ current = 0 /\ rows = <<>>
  /\ restarts = 0 /\ served = "idle" /\ unlogged = FALSE
-----------------------------------------------------------------------------
(* The environment.                                                        *)

\* A kill is requested: the file or variable is put there, a datagram reaches
\* a bound socket, a signal reaches an installed handler.
Request(t) ==
  /\ ~flag[t] /\ Len(log) < MaxEvents
  /\ t \in Polled \/ monitoring[t]
  /\ flag' = [flag EXCEPT ![t] = TRUE]
  /\ UNCHANGED <<state, owner, pc, monitoring, tradeVars, auditVars, restarts, served>>
-----------------------------------------------------------------------------
(* A turn of the trading loop, on a thread of its own.                     *)

\* The loop, which start() enters after arm(), goes on while the controller runs,
\* and looks at is_active() without the lock before it asks the model for an
\* action.
Decide ==
  /\ turn = "none" /\ running /\ pc[Main] # "arming"
  /\ state # "TRIGGERED"
  /\ turn' = "decided"
  /\ UNCHANGED <<state, owner, pc, monitoring, flag, running, enabled, trade,
                 auditVars, restarts, served>>

\* The action is carried out only if trading is enabled by then.
Execute ==
  /\ turn = "decided"
  /\ turn' = IF enabled THEN "ordering" ELSE "none"
  /\ UNCHANGED <<state, owner, pc, monitoring, flag, running, enabled, trade,
                 auditVars, restarts, served>>

\* The terminal's answer: a trade is booked, a booked one is closed, or neither.
EndTurn ==
  /\ turn = "ordering"
  /\ turn' = "none"
  /\ \/ UNCHANGED trade
     \/ \E p \in Trades :
          /\ trade[p] = "none"
          /\ trade' = [trade EXCEPT ![p] = IF enabled THEN "booked" ELSE "late"]
     \/ \E p \in Trades :
          /\ trade[p] # "none"
          /\ trade' = [trade EXCEPT ![p] = "none"]
  /\ UNCHANGED <<state, owner, pc, monitoring, flag, running, enabled, auditVars,
                 restarts, served>>
-----------------------------------------------------------------------------
(* trigger()                                                               *)

\* The event is appended and saved, and a row is inserted unless that fails.
Record(source) ==
  /\ log' = Append(log, [source |-> source, resolved |-> FALSE])
  /\ current' = Len(log) + 1
  /\ \/ /\ rows' = Append(rows, [source |-> source, event |-> Len(log) + 1,
                                resolved |-> FALSE])
        /\ UNCHANGED unlogged
     \/ LogMayFail /\ UNCHANGED rows /\ unlogged' = TRUE

\* The callback ends the loop, takes trading away and lists the booked trades.
HaltTrading == running' = FALSE /\ enabled' = FALSE

Listed == {p \in Trades : trade[p] = "listed"}
Listing == [p \in Trades |-> IF trade[p] = "none" THEN "none" ELSE "listed"]

\* Mutant of Refused: a close that fails ends the callback.
RefusedEndsCallback(p) ==
  [q \in Trades |-> IF q = p THEN "refused"
                    ELSE IF trade[q] = "listed" THEN "booked" ELSE trade[q]]

\* A close that fails is logged, and the next trade is tried.
Refused(p) == [trade EXCEPT ![p] = "refused"]

\* Mutant of StartKill: whether the switch is triggered is read without the lock.
StartKillUnlocked(t, found) ==
  /\ served' = pc[Main]
  /\ \/ /\ state = "TRIGGERED"
        /\ pc' = [pc EXCEPT ![t] = found]
        /\ UNCHANGED <<state, owner>>
     \/ /\ state # "TRIGGERED" /\ owner = Nobody
        /\ state' = "TRIGGERED"
        /\ owner' = t
        /\ pc' = [pc EXCEPT ![t] = "sweep"]
  /\ UNCHANGED <<monitoring, flag, tradeVars, auditVars, restarts>>

\* trigger() takes the lock. Whoever finds the switch triggered returns.
StartKill(t, found) ==
  /\ owner = Nobody
  /\ served' = pc[Main]
  /\ \/ /\ state = "TRIGGERED"
        /\ pc' = [pc EXCEPT ![t] = found]
        /\ UNCHANGED <<state, owner>>
     \/ /\ state # "TRIGGERED"
        /\ state' = "TRIGGERED"
        /\ owner' = t
        /\ pc' = [pc EXCEPT ![t] = "sweep"]
  /\ UNCHANGED <<monitoring, flag, tradeVars, auditVars, restarts>>

\* The adapter is asked for its positions and lists none; the event is recorded;
\* the callback begins.
BeginCallback(t) ==
  /\ pc[t] = "sweep"
  /\ Record(t)
  /\ HaltTrading /\ trade' = Listing
  /\ pc' = [pc EXCEPT ![t] = "closing"]
  /\ UNCHANGED <<state, owner, monitoring, flag, turn, restarts, served>>

\* account.close_order swallows every failure; the trade then stays booked.
CloseTrade(t) ==
  /\ pc[t] = "closing"
  /\ \E p \in Listed :
       \/ trade' = [trade EXCEPT ![p] = "none"]
       \/ CloseMayFail /\ trade' = Refused(p)
  /\ UNCHANGED <<state, owner, pc, monitoring, flag, running, enabled, turn,
                 auditVars, restarts, served>>

\* The callback is through with its list and the lock is released.
EndKill(t) ==
  /\ pc[t] = "closing" /\ Listed = {}
  /\ owner' = Nobody
  /\ pc' = [pc EXCEPT ![t] = IF t = Main THEN "idle" ELSE "watch"]
  /\ UNCHANGED <<state, monitoring, flag, tradeVars, auditVars, restarts, served>>

FinishKill(t) == BeginCallback(t) \/ CloseTrade(t) \/ EndKill(t)
-----------------------------------------------------------------------------
(* Monitor threads.                                                        *)

\* One turn of _monitor_loop or _udp_listen_loop: the loop ends when
\* monitoring stopped; a request that is there sends the thread to the switch,
\* and a datagram is used up by receiving it.
Poll(t) ==
  /\ pc[t] = "watch"
  /\ \/ /\ ~monitoring[t]
        /\ pc' = [pc EXCEPT ![t] = "off"]
        /\ UNCHANGED flag
     \/ /\ monitoring[t] /\ flag[t]
        /\ pc' = [pc EXCEPT ![t] = "fire"]
        /\ flag' = [flag EXCEPT ![t] = t \in Polled]
  /\ UNCHANGED <<state, owner, monitoring, tradeVars, auditVars, restarts, served>>

\* Mutant of Fire: a monitor that finds the switch triggered ends.
FireOnce(t) == pc[t] = "fire" /\ StartKill(t, "off")

\* The thread is back from check() and calls trigger().
Fire(t) == pc[t] = "fire" /\ StartKill(t, "watch")

MonitorStep(t) == Poll(t) \/ Fire(t) \/ FinishKill(t)
-----------------------------------------------------------------------------
(* The operator's thread.                                                  *)

NoSignal == \A t \in Signalled : ~flag[t]
Ready(place) == pc[Main] = place /\ NoSignal
Goto(place) == pc' = [pc EXCEPT ![Main] = place]

ManualTrigger == Ready("idle") /\ StartKill(Main, "idle")

\* TradingController.start does nothing when the loop runs or the switch is
\* active; arm() looks again with the lock, then sets the state and starts the
\* monitors.
ArmBegin ==
  /\ Ready("idle") /\ owner = Nobody /\ Len(log) < MaxEvents
  /\ ~running /\ state # "TRIGGERED"
  /\ running' = TRUE
  /\ owner' = Main /\ Goto("arming")
  /\ UNCHANGED <<state, monitoring, flag, enabled, turn, trade, auditVars, restarts,
                 served>>

\* start_monitoring of each trigger leaves one that is monitoring alone.
ArmEnd ==
  /\ Ready("arming")
  /\ state' = "ARMED"
  /\ monitoring' = [t \in Triggers |-> TRUE]
  /\ pc' = [t \in Threads |-> IF t = Main THEN "idle"
                              ELSE IF pc[t] = "off" THEN "watch" ELSE pc[t]]
  /\ owner' = Nobody
  /\ served' = "idle"
  /\ UNCHANGED <<flag, tradeVars, auditVars, restarts>>

\* TradingController.stop ends the loop, and disarms only a switch that is not
\* active when it looks.
StopCheck ==
  /\ Ready("idle") /\ Len(log) < MaxEvents
  /\ running
  /\ running' = FALSE
  /\ IF state # "TRIGGERED" THEN Goto("stopping") ELSE UNCHANGED pc
  /\ UNCHANGED <<state, owner, monitoring, flag, enabled, turn, trade, auditVars,
                 restarts, served>>

\* disarm() takes the lock and stops the triggers one after the other.
DisarmBegin ==
  /\ Ready("stopping") /\ owner = Nobody
  /\ owner' = Main /\ Goto("disarming")
  /\ UNCHANGED <<state, monitoring, flag, tradeVars, auditVars, restarts, served>>

\* stop_monitoring: a listener's socket is closed with what it has queued.
StopMonitoring(t) ==
  /\ Ready("disarming") /\ monitoring[t]
  /\ monitoring' = [monitoring EXCEPT ![t] = FALSE]
  /\ flag' = [flag EXCEPT ![t] = @ /\ t \in Polled]
  /\ UNCHANGED <<state, owner, pc, tradeVars, auditVars, restarts, served>>

\* Mutant of Joined: the join has no timeout.
JoinedForever(t) == pc[t] = "off"

\* The thread is joined for two seconds: it ended, or it waits for the lock
\* that disarm holds and the join gives up.
Joined(t) == pc[t] \in {"off", "fire"}

DisarmEnd ==
  /\ Ready("disarming")
  /\ \A t \in Triggers : ~monitoring[t]
  /\ \A t \in Monitors : Joined(t)
  /\ state' = "DISABLED"
  /\ owner' = Nobody /\ Goto("idle")
  /\ served' = "idle"
  /\ UNCHANGED <<monitoring, flag, tradeVars, auditVars, restarts>>

\* Mutant of Resolve: the oldest unresolved row is taken.
ResolveOldest(row) ==
  /\ row \in 1 .. Len(rows)
  /\ ~rows[row].resolved /\ rows[row].source = log[current].source
  /\ \A other \in 1 .. row - 1 :
       rows[other].resolved \/ rows[other].source # log[current].source

\* reset(approver): the current event is resolved in the audit log, and the
\* newest unresolved row of its source in the database.
Resolve(row) ==
  /\ row \in 1 .. Len(rows)
  /\ ~rows[row].resolved /\ rows[row].source = log[current].source
  /\ \A other \in 1 .. Len(rows) :
       other > row => rows[other].resolved
                      \/ rows[other].source # log[current].source

Resolved(entry, now) == [entry EXCEPT !.resolved = @ \/ now]

ResetBegin ==
  /\ Ready("idle") /\ owner = Nobody /\ Len(log) <= MaxEvents
  /\ state = "TRIGGERED"
  /\ IF current = 0 THEN UNCHANGED <<log, rows, unlogged>>
     ELSE /\ log' = [log EXCEPT ![current] = Resolved(@, TRUE)]
          /\ \/ /\ rows' = [row \in DOMAIN rows |->
                              Resolved(rows[row], Resolve(row))]
                /\ UNCHANGED unlogged
             \/ LogMayFail /\ UNCHANGED rows /\ unlogged' = TRUE
  /\ owner' = Main /\ Goto("resetting")
  /\ UNCHANGED <<state, monitoring, flag, tradeVars, current, restarts, served>>

\* Each trigger's reset(): the file is removed, the variable is cleared.
ResetTriggers ==
  /\ Ready("resetting")
  /\ flag' = [t \in Triggers |-> flag[t] /\ t \in Pushed]
  /\ Goto("rearming")
  /\ UNCHANGED <<state, owner, monitoring, tradeVars, auditVars, restarts, served>>

ResetEnd ==
  /\ Ready("rearming")
  /\ state' = "ARMED" /\ current' = 0
  /\ owner' = Nobody /\ Goto("idle")
  /\ served' = "idle"
  /\ UNCHANGED <<monitoring, flag, tradeVars, log, rows, unlogged, restarts>>

\* _handle_signal runs on the operator's thread wherever that is, and
\* re-enters the lock if that thread holds it: trigger() in one go.
HandleSignal(t) ==
  /\ flag[t]
  /\ owner \in {Nobody, Main}
  /\ flag' = [flag EXCEPT ![t] = FALSE]
  /\ served' = IF owner = Main THEN "signal" ELSE pc[Main]
  /\ \/ state = "TRIGGERED" /\ UNCHANGED <<state, tradeVars, auditVars>>
     \/ /\ state # "TRIGGERED" /\ state' = "TRIGGERED"
        /\ Record(t)
        /\ HaltTrading
        /\ \E kept \in SUBSET {p \in Trades : trade[p] # "none"} :
             /\ kept # {} => CloseMayFail
             /\ trade' = [p \in Trades |-> IF p \in kept THEN "refused" ELSE "none"]
        /\ UNCHANGED turn
  /\ UNCHANGED <<owner, pc, monitoring, restarts>>

\* A crash, and the constructors of the next process: the kill file, the audit
\* log and the table are still there. The broker's positions are too, but nothing
\* books them again.
Restart ==
  /\ restarts < MaxRestarts
  /\ restarts' = restarts + 1
  /\ state' = "DISABLED" /\ owner' = Nobody /\ current' = 0 /\ served' = "idle"
  /\ pc' = [t \in Threads |-> IF t = Main THEN "idle" ELSE "off"]
  /\ monitoring' = [t \in Triggers |-> FALSE]
  /\ flag' = [t \in Triggers |-> flag[t] /\ t \in Polled]
  /\ running' = FALSE /\ enabled' = TRUE /\ turn' = "none"
  /\ trade' = [p \in Trades |-> "none"]
  /\ UNCHANGED <<log, rows, unlogged>>

\* What the operator's thread does once it is inside a call.
MainStep ==
  \/ FinishKill(Main) /\ NoSignal
  \/ ArmEnd \/ DisarmBegin \/ DisarmEnd \/ ResetTriggers \/ ResetEnd
  \/ \E t \in Triggers : StopMonitoring(t)

Next ==
  \/ \E t \in Triggers : Request(t)
  \/ Decide \/ Execute \/ EndTurn
  \/ \E t \in Monitors : MonitorStep(t)
  \/ ManualTrigger \/ ArmBegin \/ StopCheck \/ ResetBegin
  \/ MainStep
  \/ \E t \in Signalled : HandleSignal(t)
  \/ Restart

Spec == Init /\ [][Next]_vars

\* Threads that can run do run; a monitor that waits for the lock gets it in the
\* end, however often the operator takes it, and the operator's thread gets on
\* between two signals.  Calls come, requests arrive and processes crash without
\* any obligation to.
Fairness ==
  /\ SF_vars(MainStep)
  /\ \A t \in Signalled : WF_vars(HandleSignal(t))
  /\ \A t \in Monitors : WF_vars(MonitorStep(t)) /\ SF_vars(Fire(t))
FairSpec == Spec /\ Fairness
-----------------------------------------------------------------------------
(* Correctness properties.                                                 *)

Sources == Triggers \cup {Main}

\* The audit log and the table: a row belongs to an event of the log.
AuditTypeOK ==
  /\ log \in Seq([source : Sources, resolved : BOOLEAN])
  /\ rows \in Seq([source : Sources, event : DOMAIN log, resolved : BOOLEAN])
  /\ current \in {0} \cup DOMAIN log
  /\ unlogged \in BOOLEAN

\* The type invariant.
TypeOK ==
  /\ state \in {"DISABLED", "ARMED", "TRIGGERED"}
  /\ owner \in Threads \cup {Nobody}
  /\ pc \in [Threads -> MonitorPlaces \cup MainPlaces]
  /\ pc[Main] \in MainPlaces /\ \A t \in Monitors : pc[t] \in MonitorPlaces
  /\ monitoring \in [Triggers -> BOOLEAN] /\ flag \in [Triggers -> BOOLEAN]
  /\ running \in BOOLEAN /\ enabled \in BOOLEAN /\ turn \in Turns
  /\ trade \in [Trades -> Fates]
  /\ served \in {"idle", "stopping", "signal"}
  /\ restarts \in 0 .. MaxRestarts
  /\ AuditTypeOK

\* When a kill has been carried out, every trade that was booked when its callback
\* took its list is closed or was tried and refused: a close that fails keeps no
\* other trade from being tried.
NoneForgotten ==
  state = "TRIGGERED" /\ owner = Nobody
    => \A p \in Trades : trade[p] \notin {"booked", "listed"}

\* At most one trade is booked behind the back of a callback, by the turn that had
\* passed its looks at is_active and trading_enabled, and no turn after it sends an
\* order, a reset or not.
OneLateTrade ==
  \A p \in Trades :
    trade[p] = "late" => /\ turn # "ordering"
                         /\ ~enabled
                         /\ \A q \in Trades : trade[q] = "late" => q = p

\* What a kill leaves open was refused by the terminal, but for one late trade.
KillLeaves == NoneForgotten /\ OneLateTrade

\* A kill that was served ends with the process; by a reset that was begun after
\* it; by the disarm of a stop() that had found the switch quiet before it; or, the
\* kill of a signal handler that interrupted such a call, by the call's last
\* statement. No other call, of whatever thread, undoes it.
KillStands ==
  [][state = "TRIGGERED" /\ state' # "TRIGGERED"
       => \/ restarts' # restarts
          \/ pc[Main] = "rearming" /\ served \notin {"resetting", "rearming"}
          \/ pc[Main] = "disarming" /\ served = "stopping"
          \/ served = "signal"]_vars

\* The audit log and the table tell the same story as long as no statement
\* failed: a row is resolved exactly when the kill it stands for was reset.
AuditAgrees ==
  ~unlogged => \A row \in DOMAIN rows :
                 rows[row].resolved = log[rows[row].event].resolved

\* A kill file or variable that a running monitor watches triggers the switch,
\* unless it is taken away or the monitor is stopped first.
FlagKills ==
  \A t \in Polled : flag[t] /\ monitoring[t]
                    ~> state = "TRIGGERED" \/ ~flag[t] \/ ~monitoring[t]

\* Every call of the operator returns: disarm does not wait for ever for a
\* monitor thread that waits for the lock disarm holds.
CallsReturn == pc[Main] # "idle" ~> pc[Main] = "idle"
=============================================================================
