-------------------------- MODULE KillSwitch_proofs --------------------------
(***************************************************************************)
(* Proofs about KillSwitch for any triggers, faults and bounds.  The first  *)
(* invariants speak of the lock, the threads, the state and the trades; the *)
(* audit log and the table come in with the types, and the last theorem is  *)
(* about them.                                                             *)
(***************************************************************************)
EXTENDS KillSwitch, SequenceTheorems, TLAPS

\* Places at which the operator's thread holds the lock.
Holding == {"sweep", "closing", "arming", "disarming", "resetting", "rearming"}

\* The types of the variables other than the audit log and the table.
ControlTypeOK ==
  /\ state \in {"DISABLED", "ARMED", "TRIGGERED"}
  /\ pc \in [Threads -> MonitorPlaces \cup MainPlaces]
  /\ pc[Main] \in MainPlaces /\ \A t \in Monitors : pc[t] \in MonitorPlaces

\* The lock is held by the thread that is inside a method, and by no other; the
\* switch is triggered while a kill or a reset is under way.
LockInv ==
  /\ owner = Main <=> pc[Main] \in Holding
  /\ \A t \in Monitors : owner = t <=> pc[t] \in {"sweep", "closing"}
  /\ \A t \in Threads : pc[t] \in {"sweep", "closing"} => state = "TRIGGERED"
  /\ pc[Main] \in {"resetting", "rearming"} => state = "TRIGGERED"

\* Every kill in force has begun its callback; no callback is under way.
CallbackBegun == \A t \in Threads : pc[t] # "sweep"
CallbackOver == \A t \in Threads : pc[t] # "closing"

\* The types of the controller's variables.
TradeTypeOK ==
  /\ running \in BOOLEAN /\ enabled \in BOOLEAN /\ turn \in Turns
  /\ trade \in [Trades -> Fates]

\* The list of a callback takes in every trade, and trading is off by then, so that
\* what is booked afterwards is late; the list is empty when the callback is over.
BookInv ==
  /\ TradeTypeOK
  /\ state = "TRIGGERED" /\ CallbackBegun
       => ~enabled /\ \A p \in Trades : trade[p] # "booked"
  /\ CallbackOver => \A p \in Trades : trade[p] # "listed"
  /\ OneLateTrade

\* Where a kill in force was served, should the operator's thread be in a call that
\* will set the state.
StandsInv ==
  /\ served \in {"idle", "stopping", "signal"}
  /\ state = "TRIGGERED"
       => /\ pc[Main] = "stopping" => served = "stopping"
          /\ pc[Main] = "disarming" => served \in {"stopping", "signal"}
          /\ pc[Main] = "arming" => served = "signal"

LockIInv == ControlTypeOK /\ LockInv

LEMMA ThreadFacts ==
  /\ Main \in Threads /\ Monitors \subseteq Threads /\ Monitors \subseteq Triggers
  /\ Main \notin Monitors /\ Nobody \notin Threads
  /\ Threads = Monitors \cup {Main}
BY ThreadAssumption DEF Threads, Monitors, Triggers

LEMMA LockInit == Init => LockIInv
<1> SUFFICES ASSUME Init PROVE LockIInv
  OBVIOUS
<1>1. pc[Main] = "idle" /\ \A t \in Monitors : pc[t] = "off"
  BY ThreadFacts DEF Init
<1>2. ControlTypeOK
  BY <1>1 DEF Init, ControlTypeOK, MonitorPlaces, MainPlaces
<1>3. LockInv
  BY <1>1, ThreadFacts DEF Init, LockInv, Holding
<1> QED BY <1>2, <1>3 DEF LockIInv

\* The lock's invariant is kept by every step.
LEMMA LockStep == LockIInv /\ [Next]_vars => LockIInv'
<1> SUFFICES ASSUME LockIInv, [Next]_vars PROVE LockIInv'
  OBVIOUS
<1> USE ThreadFacts DEF LockIInv, ControlTypeOK, LockInv, Holding, MonitorPlaces,
               MainPlaces
<1>1. CASE \E t \in Triggers : Request(t)
  BY <1>1 DEF Request
<1>2. CASE Decide \/ Execute \/ EndTurn
  BY <1>2 DEF Decide, Execute, EndTurn
<1>3. CASE \E t \in Monitors : MonitorStep(t)
  <2>1. PICK t \in Monitors : MonitorStep(t)
    BY <1>3
  <2>2. t \in Threads /\ t # Main
    OBVIOUS
  <2>3. CASE Poll(t)
    BY <2>2, <2>3 DEF Poll
  <2>4. CASE Fire(t)
    BY <2>2, <2>4 DEF Fire, StartKill
  <2>5. CASE BeginCallback(t)
    BY <2>2, <2>5 DEF BeginCallback
  <2>6. CASE CloseTrade(t)
    BY <2>6 DEF CloseTrade
  <2>7. CASE EndKill(t)
    BY <2>2, <2>7 DEF EndKill
  <2> QED BY <2>1, <2>3, <2>4, <2>5, <2>6, <2>7 DEF MonitorStep, FinishKill
<1>4. CASE ManualTrigger
  BY <1>4 DEF ManualTrigger, StartKill, Ready
<1>5. CASE ArmBegin
  BY <1>5 DEF ArmBegin, Ready, Goto
<1>6. CASE StopCheck
  BY <1>6 DEF StopCheck, Ready, Goto
<1>7. CASE ResetBegin
  BY <1>7 DEF ResetBegin, Ready, Goto
<1>8. CASE FinishKill(Main)
  <2>1. CASE BeginCallback(Main)
    BY <2>1 DEF BeginCallback
  <2>2. CASE CloseTrade(Main)
    BY <2>2 DEF CloseTrade
  <2>3. CASE EndKill(Main)
    BY <2>3 DEF EndKill
  <2> QED BY <1>8, <2>1, <2>2, <2>3 DEF FinishKill
<1>9. CASE ArmEnd
  BY <1>9 DEF ArmEnd, Ready
<1>10. CASE DisarmBegin
  BY <1>10 DEF DisarmBegin, Ready, Goto
<1>11. CASE DisarmEnd
  BY <1>11 DEF DisarmEnd, Ready, Goto
<1>12. CASE ResetTriggers
  BY <1>12 DEF ResetTriggers, Ready, Goto
<1>13. CASE ResetEnd
  BY <1>13 DEF ResetEnd, Ready, Goto
<1>14. CASE \E t \in Triggers : StopMonitoring(t)
  BY <1>14 DEF StopMonitoring, Ready
<1>15. CASE \E t \in Signalled : HandleSignal(t)
  <2>1. UNCHANGED <<owner, pc>> /\ state' = "TRIGGERED"
    BY <1>15 DEF HandleSignal
  <2> QED BY <2>1
<1>16. CASE Restart
  BY <1>16 DEF Restart
<1>17. CASE UNCHANGED vars
  BY <1>17 DEF vars
<1> QED BY <1>1, <1>2, <1>3, <1>4, <1>5, <1>6, <1>7, <1>8, <1>9, <1>10, <1>11,
           <1>12, <1>13, <1>14, <1>15, <1>16, <1>17 DEF Next, MainStep

THEOREM LockHolds == Spec => []LockIInv
BY LockInit, LockStep, PTL DEF Spec
-----------------------------------------------------------------------------
(* The account's book.                                                     *)

\* The callback: it begins with a list of every trade, and ends with none left.
LEMMA CallbackStep ==
  ASSUME LockIInv, BookInv, NEW t \in Threads, FinishKill(t)
  PROVE  BookInv'
<1> USE ThreadFacts DEF LockIInv, ControlTypeOK, LockInv, Holding, MonitorPlaces,
               MainPlaces, BookInv, TradeTypeOK, CallbackBegun, CallbackOver,
               OneLateTrade, Fates, Turns
<1>1. CASE BeginCallback(t)
  <2>1. trade' = Listing /\ enabled' = FALSE /\ running' = FALSE /\ UNCHANGED turn
    BY <1>1 DEF BeginCallback, HaltTrading
  <2>2. trade' \in [Trades -> {"none", "listed"}]
    BY <2>1 DEF Listing
  <2>3. pc'[t] = "closing"
    BY <1>1 DEF BeginCallback
  <2> QED BY <2>1, <2>2, <2>3
<1>2. CASE CloseTrade(t)
  <2>1. PICK p \in Trades : /\ trade[p] = "listed"
                            /\ \/ trade' = [trade EXCEPT ![p] = "none"]
                               \/ trade' = [trade EXCEPT ![p] = "refused"]
    BY <1>2 DEF CloseTrade, Listed, Refused
  <2>2. UNCHANGED <<state, pc, running, enabled, turn>> /\ pc[t] = "closing"
    BY <1>2 DEF CloseTrade
  <2>3. \A q \in Trades : trade'[q] \in {trade[q], "none", "refused"}
    BY <2>1
  <2>4. trade' \in [Trades -> Fates]
    BY <2>1
  <2> QED BY <2>2, <2>3, <2>4
<1>3. CASE EndKill(t)
  <2>1. \A p \in Trades : trade[p] # "listed"
    BY <1>3 DEF EndKill, Listed
  <2>2. UNCHANGED <<state, running, enabled, turn, trade>>
    BY <1>3 DEF EndKill, tradeVars
  <2>3. /\ pc[t] = "closing"
        /\ \A u \in Threads : u # t => pc'[u] = pc[u]
    BY <1>3 DEF EndKill
  <2>4. CallbackBegun' => CallbackBegun
    BY <2>3
  <2> QED BY <2>1, <2>2, <2>4
<1> QED BY <1>1, <1>2, <1>3 DEF FinishKill

\* The answer to the order of the turn under way.
LEMMA TurnStep ==
  ASSUME BookInv, EndTurn
  PROVE  BookInv'
<1> USE DEF BookInv, TradeTypeOK, CallbackBegun, CallbackOver, OneLateTrade, Fates,
            Turns
<1>1. /\ turn = "ordering" /\ turn' = "none"
      /\ UNCHANGED <<state, pc, running, enabled>>
  BY DEF EndTurn
<1>2. \A p \in Trades : trade[p] # "late"
  BY <1>1
<1>3. CASE UNCHANGED trade
  BY <1>1, <1>3
<1>4. ASSUME NEW p \in Trades,
             trade' = [trade EXCEPT ![p] = IF enabled THEN "booked" ELSE "late"]
      PROVE  BookInv'
  <2>1. trade' \in [Trades -> Fates]
    BY <1>4
  <2>2. /\ trade'[p] = IF enabled THEN "booked" ELSE "late"
        /\ \A q \in Trades : q # p => trade'[q] = trade[q]
    BY <1>4
  <2> QED BY <1>1, <1>2, <2>1, <2>2
<1>5. ASSUME NEW p \in Trades, trade' = [trade EXCEPT ![p] = "none"]
      PROVE  BookInv'
  <2>1. trade' \in [Trades -> Fates]
    BY <1>5
  <2>2. \A q \in Trades : trade'[q] \in {trade[q], "none"}
    BY <1>5
  <2> QED BY <1>1, <1>2, <2>1, <2>2
<1> QED BY <1>3, <1>4, <1>5 DEF EndTurn

\* A signal handler's kill in one go.
LEMMA SignalStep ==
  ASSUME LockIInv, BookInv, NEW t \in Signalled, HandleSignal(t)
  PROVE  BookInv'
<1> USE DEF BookInv, TradeTypeOK, CallbackBegun, CallbackOver, OneLateTrade, Fates,
            Turns
<1>1. UNCHANGED pc
  BY DEF HandleSignal
<1>2. CASE UNCHANGED <<state, tradeVars>>
  BY <1>1, <1>2 DEF tradeVars
<1>3. CASE state # "TRIGGERED" /\ ~UNCHANGED <<state, tradeVars>>
  <2>1. running' = FALSE /\ enabled' = FALSE /\ UNCHANGED turn
    BY <1>3 DEF HandleSignal, HaltTrading
  <2>2. trade' \in [Trades -> {"refused", "none"}]
    BY <1>3 DEF HandleSignal
  <2> QED BY <1>1, <2>1, <2>2
<1> QED BY <1>2, <1>3 DEF HandleSignal

\* A step that leaves the controller's variables alone, triggers nothing without a
\* callback to come, and ends no callback.
LEMMA BookKept ==
  ASSUME BookInv, UNCHANGED <<enabled, turn, trade>>, running' \in BOOLEAN,
         state' = "TRIGGERED" /\ CallbackBegun' => state = "TRIGGERED" /\ CallbackBegun,
         CallbackOver' => CallbackOver
  PROVE  BookInv'
BY DEF BookInv, TradeTypeOK, OneLateTrade

LEMMA BookStep == LockIInv /\ BookInv /\ [Next]_vars => BookInv'
<1> SUFFICES ASSUME LockIInv, BookInv, [Next]_vars PROVE BookInv'
  OBVIOUS
<1> DEFINE Kept == /\ UNCHANGED <<enabled, turn, trade>> /\ running' \in BOOLEAN
                   /\ state' = "TRIGGERED" /\ CallbackBegun'
                        => state = "TRIGGERED" /\ CallbackBegun
                   /\ CallbackOver' => CallbackOver
<1>0. ASSUME Kept PROVE BookInv'
  BY <1>0, BookKept
<1> USE ThreadFacts DEF LockIInv, ControlTypeOK, LockInv, Holding, MonitorPlaces,
               MainPlaces, CallbackBegun, CallbackOver, tradeVars
<1>00. running \in BOOLEAN
  BY DEF BookInv, TradeTypeOK
<1>1. CASE \E t \in Triggers : Request(t) \/ StopMonitoring(t)
  BY <1>0, <1>00, <1>1 DEF Request, StopMonitoring
<1>2. CASE Decide \/ Execute
  BY <1>2 DEF Decide, Execute, BookInv, TradeTypeOK, OneLateTrade, Turns
<1>3. CASE EndTurn
  BY <1>3, TurnStep
<1>4. CASE \E t \in Monitors : MonitorStep(t)
  <2>1. PICK t \in Monitors : MonitorStep(t)
    BY <1>4
  <2>2. t \in Threads /\ t # Main
    OBVIOUS
  <2>3. CASE Poll(t)
    <3>1. Kept
      BY <1>00, <2>2, <2>3 DEF Poll
    <3> QED BY <1>0, <3>1
  <2>4. CASE Fire(t)
    <3>1. Kept
      BY <1>00, <2>2, <2>4 DEF Fire, StartKill
    <3> QED BY <1>0, <3>1
  <2>5. CASE FinishKill(t)
    BY <2>2, <2>5, CallbackStep
  <2> QED BY <2>1, <2>3, <2>4, <2>5 DEF MonitorStep
<1>5. CASE ManualTrigger
  <2>1. Kept
    BY <1>00, <1>5 DEF ManualTrigger, StartKill, Ready
  <2> QED BY <1>0, <2>1
<1>6. CASE ArmBegin \/ StopCheck
  <2>1. Kept
    BY <1>6 DEF ArmBegin, StopCheck, Ready, Goto
  <2> QED BY <1>0, <2>1
<1>7. CASE ResetBegin \/ ResetTriggers \/ DisarmBegin
  <2>1. Kept
    BY <1>00, <1>7 DEF ResetBegin, ResetTriggers, DisarmBegin, Ready, Goto
  <2> QED BY <1>0, <2>1
<1>8. CASE ArmEnd \/ DisarmEnd \/ ResetEnd
  <2>1. Kept
    BY <1>00, <1>8 DEF ArmEnd, DisarmEnd, ResetEnd, Ready, Goto
  <2> QED BY <1>0, <2>1
<1>9. CASE FinishKill(Main)
  BY <1>9, CallbackStep
<1>10. CASE \E t \in Signalled : HandleSignal(t)
  BY <1>10, SignalStep
<1>11. CASE Restart
  <2>1. /\ state' = "DISABLED" /\ running' = FALSE /\ enabled' = TRUE
        /\ turn' = "none" /\ trade' = [p \in Trades |-> "none"]
    BY <1>11 DEF Restart
  <2> QED BY <2>1 DEF BookInv, TradeTypeOK, OneLateTrade, Turns, Fates
<1>12. CASE UNCHANGED vars
  <2>1. Kept
    BY <1>00, <1>12 DEF vars
  <2> QED BY <1>0, <2>1
<1> QED BY <1>1, <1>2, <1>3, <1>4, <1>5, <1>6, <1>7, <1>8, <1>9, <1>10, <1>11,
           <1>12 DEF Next, MainStep

\* In every reachable state, for any trades, triggers and faults.
THEOREM BookHolds == Spec => []BookInv
<1>1. Init => BookInv
  BY DEF Init, BookInv, TradeTypeOK, OneLateTrade, Turns, Fates
<1> QED BY <1>1, BookStep, LockHolds, PTL DEF Spec

\* For any trades, triggers, faults and bounds: a close that fails keeps no other
\* trade from being tried, and at most one trade is booked behind a kill.
THEOREM KillLeavesHolds == Spec => []KillLeaves
<1>1. LockIInv /\ BookInv => KillLeaves
  BY ThreadFacts DEF LockIInv, LockInv, BookInv, KillLeaves, NoneForgotten,
                     CallbackBegun, CallbackOver, Holding
<1> QED BY <1>1, LockHolds, BookHolds, PTL
-----------------------------------------------------------------------------
(* What ends a kill.                                                       *)

LEMMA StandsStep == LockIInv /\ StandsInv /\ [Next]_vars => StandsInv'
<1> SUFFICES ASSUME LockIInv, StandsInv, [Next]_vars PROVE StandsInv'
  OBVIOUS
<1> USE ThreadFacts DEF LockIInv, ControlTypeOK, LockInv, Holding, MonitorPlaces,
               MainPlaces, StandsInv
<1>1. CASE \E t \in Triggers : Request(t) \/ StopMonitoring(t)
  BY <1>1 DEF Request, StopMonitoring
<1>2. CASE Decide \/ Execute \/ EndTurn
  BY <1>2 DEF Decide, Execute, EndTurn
<1>3. CASE \E t \in Monitors : MonitorStep(t)
  <2>1. PICK t \in Monitors : MonitorStep(t)
    BY <1>3
  <2>2. t \in Threads /\ t # Main
    OBVIOUS
  <2>3. CASE Poll(t)
    BY <2>2, <2>3 DEF Poll
  <2>4. CASE Fire(t)
    BY <2>2, <2>4 DEF Fire, StartKill
  <2>5. CASE FinishKill(t)
    BY <2>2, <2>5 DEF FinishKill, BeginCallback, CloseTrade, EndKill
  <2> QED BY <2>1, <2>3, <2>4, <2>5 DEF MonitorStep
<1>4. CASE ManualTrigger
  BY <1>4 DEF ManualTrigger, StartKill, Ready
<1>5. CASE ArmBegin \/ StopCheck
  BY <1>5 DEF ArmBegin, StopCheck, Ready, Goto
<1>6. CASE ResetBegin \/ ResetTriggers \/ DisarmBegin
  BY <1>6 DEF ResetBegin, ResetTriggers, DisarmBegin, Ready, Goto
<1>7. CASE ArmEnd \/ DisarmEnd \/ ResetEnd
  BY <1>7 DEF ArmEnd, DisarmEnd, ResetEnd, Ready, Goto
<1>8. CASE FinishKill(Main)
  BY <1>8 DEF FinishKill, BeginCallback, CloseTrade, EndKill
<1>9. CASE \E t \in Signalled : HandleSignal(t)
  <2>1. /\ UNCHANGED <<owner, pc>> /\ owner \in {Nobody, Main}
        /\ served' = IF owner = Main THEN "signal" ELSE pc[Main]
    BY <1>9 DEF HandleSignal
  <2> QED BY <2>1
<1>10. CASE Restart
  BY <1>10 DEF Restart
<1>11. CASE UNCHANGED vars
  BY <1>11 DEF vars
<1> QED BY <1>1, <1>2, <1>3, <1>4, <1>5, <1>6, <1>7, <1>8, <1>9, <1>10,
           <1>11 DEF Next, MainStep

THEOREM StandsInvHolds == Spec => []StandsInv
<1>1. Init => StandsInv
  BY DEF Init, StandsInv
<1> QED BY <1>1, StandsStep, LockHolds, PTL DEF Spec

\* For any triggers, faults and bounds: a kill ends with the process, by a reset
\* begun after it, by a stop() that found the switch quiet before it, or, if a signal
\* handler served it inside a call that holds the lock, by that call. The lock keeps
\* every other call and thread from undoing it.
THEOREM KillStandsHolds == Spec => KillStands
<1> DEFINE Allowed == state = "TRIGGERED" /\ state' # "TRIGGERED"
                      => \/ restarts' # restarts
                         \/ pc[Main] = "rearming" /\ served \notin {"resetting", "rearming"}
                         \/ pc[Main] = "disarming" /\ served = "stopping"
                         \/ served = "signal"
<1>1. ASSUME LockIInv, StandsInv, [Next]_vars PROVE Allowed \/ UNCHANGED vars
  <2> SUFFICES ASSUME state = "TRIGGERED", state' # "TRIGGERED" PROVE Allowed
    OBVIOUS
  <2>1. CASE ArmEnd \/ DisarmEnd
    BY <1>1, <2>1 DEF ArmEnd, DisarmEnd, Ready, StandsInv
  <2>2. CASE ResetEnd
    BY <1>1, <2>2 DEF ResetEnd, Ready, StandsInv
  <2>3. CASE Restart
    <3>1. restarts' = restarts + 1 /\ restarts < MaxRestarts
      BY <2>3 DEF Restart
    <3> QED BY <3>1
  <2>4. CASE UNCHANGED state
    BY <2>4
  <2>5. CASE \E t \in Monitors : MonitorStep(t)
    <3>1. UNCHANGED state \/ state' = "TRIGGERED"
      BY <2>5 DEF MonitorStep, Poll, Fire, StartKill, FinishKill, BeginCallback,
                  CloseTrade, EndKill
    <3> QED BY <3>1
  <2>6. CASE FinishKill(Main)
    BY <2>6 DEF FinishKill, BeginCallback, CloseTrade, EndKill
  <2>7. CASE ManualTrigger
    BY <2>7 DEF ManualTrigger, StartKill
  <2>8. CASE \E t \in Triggers : Request(t) \/ StopMonitoring(t)
    BY <2>8 DEF Request, StopMonitoring
  <2>9. CASE \E t \in Signalled : HandleSignal(t)
    BY <2>9 DEF HandleSignal
  <2>10. CASE Decide \/ Execute \/ EndTurn
    BY <2>10 DEF Decide, Execute, EndTurn
  <2>11. CASE ArmBegin \/ StopCheck \/ DisarmBegin \/ ResetBegin \/ ResetTriggers
    BY <2>11 DEF ArmBegin, StopCheck, DisarmBegin, ResetBegin, ResetTriggers
  <2>12. CASE UNCHANGED vars
    BY <2>12 DEF vars
  <2> QED BY <1>1, <2>1, <2>2, <2>3, <2>5, <2>6, <2>7, <2>8, <2>9, <2>10, <2>11,
             <2>12 DEF Next, MainStep
<1>2. Spec => [][Allowed]_vars
  BY <1>1, LockHolds, StandsInvHolds, PTL DEF Spec
<1> QED BY <1>2 DEF KillStands
-----------------------------------------------------------------------------
(* Type correctness.                                                       *)

\* Recording an event keeps log and table well-formed: rows of earlier events
\* still belong to the longer log.
LEMMA RecordTypes ==
  ASSUME AuditTypeOK, NEW source \in Sources, Record(source)
  PROVE  AuditTypeOK'
<1> DEFINE event == [source |-> source, resolved |-> FALSE]
           row == [source |-> source, event |-> Len(log) + 1, resolved |-> FALSE]
           Events == [source : Sources, resolved : BOOLEAN]
           RowsOf(l) == [source : Sources, event : DOMAIN l, resolved : BOOLEAN]
<1>1. log \in Seq(Events) /\ event \in Events /\ log' = Append(log, event)
  BY DEF AuditTypeOK, Record
<1>2. log' \in Seq(Events) /\ Len(log') = Len(log) + 1 /\ Len(log) \in Nat
  BY <1>1
<1>3. DOMAIN log = 1 .. Len(log) /\ DOMAIN log' = 1 .. Len(log) + 1
  BY <1>1, <1>2
<1>4. rows \in Seq(RowsOf(log'))
  <2>1. RowsOf(log) \subseteq RowsOf(log')
    BY <1>2, <1>3
  <2>2. rows \in Seq(RowsOf(log))
    BY DEF AuditTypeOK
  <2> HIDE DEF RowsOf
  <2> QED BY <2>1, <2>2, SeqMonotonic
<1>5. row \in RowsOf(log')
  BY <1>2, <1>3
<1>6. rows' \in Seq(RowsOf(log'))
  <2>1. CASE rows' = Append(rows, row)
    BY <1>4, <1>5, <2>1
  <2>2. CASE UNCHANGED rows
    BY <1>4, <2>2
  <2> QED BY <2>1, <2>2 DEF Record
<1>7. current' \in DOMAIN log'
  BY <1>2, <1>3 DEF Record
<1>8. unlogged' \in BOOLEAN
  BY DEF AuditTypeOK, Record
<1> QED BY <1>2, <1>6, <1>7, <1>8 DEF AuditTypeOK

\* Resolving an entry keeps its type.
LEMMA ResolvedEvent ==
  ASSUME NEW S, NEW entry \in [source : S, resolved : BOOLEAN], NEW now \in BOOLEAN
  PROVE  Resolved(entry, now) \in [source : S, resolved : BOOLEAN]
BY DEF Resolved

LEMMA ResolvedRow ==
  ASSUME NEW S, NEW T, NEW entry \in [source : S, event : T, resolved : BOOLEAN],
         NEW now \in BOOLEAN
  PROVE  Resolved(entry, now) \in [source : S, event : T, resolved : BOOLEAN]
BY DEF Resolved

\* reset() keeps log and table well-formed.
LEMMA ResetTypes == AuditTypeOK /\ ResetBegin => AuditTypeOK'
<1> SUFFICES ASSUME AuditTypeOK, ResetBegin PROVE AuditTypeOK'
  OBVIOUS
<1> DEFINE Events == [source : Sources, resolved : BOOLEAN]
           Rows == [source : Sources, event : DOMAIN log, resolved : BOOLEAN]
<1>1. log \in Seq(Events) /\ rows \in Seq(Rows) /\ unlogged \in BOOLEAN
  BY DEF AuditTypeOK
<1>2. current' = current /\ current \in {0} \cup DOMAIN log
  BY DEF AuditTypeOK, ResetBegin
<1>3. log' \in Seq(Events) /\ DOMAIN log' = DOMAIN log
  <2>1. CASE current = 0
    BY <1>1, <2>1 DEF ResetBegin
  <2>2. CASE current # 0
    <3> DEFINE event == Resolved(log[current], TRUE)
               resolved == [log EXCEPT ![current] = event]
    <3>1. log' = resolved
      BY <2>2 DEF ResetBegin
    <3>2. current \in 1 .. Len(log) /\ log[current] \in Events
      <4> HIDE DEF Events
      <4> QED BY <1>1, <1>2, <2>2
    <3>3. event \in Events
      BY <3>2, ResolvedEvent
    <3> HIDE DEF Events, event
    <3>4. resolved \in Seq(Events) /\ Len(resolved) = Len(log)
      BY <1>1, <3>2, <3>3, ExceptSeq
    <3> HIDE DEF resolved
    <3>5. DOMAIN resolved = 1 .. Len(resolved) /\ DOMAIN log = 1 .. Len(log)
      BY <1>1, <3>4
    <3> QED BY <3>1, <3>4, <3>5
  <2> QED BY <2>1, <2>2
<1>4. rows' \in Seq(Rows)
  <2>1. CASE UNCHANGED rows
    BY <1>1, <2>1
  <2>2. CASE rows' = [row \in DOMAIN rows |-> Resolved(rows[row], Resolve(row))]
    <3>1. \A row \in DOMAIN rows : rows[row] \in Rows
      <4> HIDE DEF Rows
      <4> QED BY <1>1
    <3>2. \A row \in DOMAIN rows : Resolved(rows[row], Resolve(row)) \in Rows
      <4> SUFFICES ASSUME NEW row \in DOMAIN rows
                   PROVE  Resolved(rows[row], Resolve(row)) \in Rows
        OBVIOUS
      <4>1. Resolve(row) \in BOOLEAN
        BY Zenon DEF Resolve
      <4> QED BY <3>1, <4>1, ResolvedRow
    <3>3. DOMAIN rows = 1 .. Len(rows) /\ Len(rows) \in Nat
      BY <1>1
    <3> HIDE DEF Rows
    <3> DEFINE resolution == [row \in DOMAIN rows |-> Resolved(rows[row], Resolve(row))]
    <3>4. resolution \in [1 .. Len(rows) -> Rows]
      BY <3>2, <3>3
    <3> HIDE DEF resolution
    <3>5. resolution \in Seq(Rows)
      BY <3>3, <3>4, SeqDef
    <3> QED BY <2>2, <3>5 DEF resolution
  <2> QED BY <2>1, <2>2 DEF ResetBegin
<1>5. unlogged' \in BOOLEAN
  BY <1>1 DEF ResetBegin
<1> QED BY <1>2, <1>3, <1>4, <1>5 DEF AuditTypeOK

\* Every step keeps log and table well-formed.
LEMMA AuditStep == AuditTypeOK /\ [Next]_vars => AuditTypeOK'
<1> SUFFICES ASSUME AuditTypeOK, [Next]_vars PROVE AuditTypeOK'
  OBVIOUS
<1>1. CASE UNCHANGED auditVars
  BY <1>1 DEF auditVars, AuditTypeOK
<1>2. CASE \E source \in Sources : Record(source)
  BY <1>2, RecordTypes
<1>3. CASE ResetBegin
  BY <1>3, ResetTypes
<1>4. CASE ResetEnd \/ Restart
  BY <1>4 DEF ResetEnd, Restart, AuditTypeOK
<1>5. Main \in Sources /\ Monitors \subseteq Sources /\ Signalled \subseteq Sources
  BY DEF Sources, Monitors, Triggers
<1>6. CASE \E t \in Triggers : Request(t) \/ StopMonitoring(t)
  BY <1>1, <1>6 DEF Request, StopMonitoring
<1>7. CASE Decide \/ Execute \/ EndTurn
  BY <1>1, <1>7 DEF Decide, Execute, EndTurn
<1>8. CASE \E t \in Monitors : MonitorStep(t)
  <2>1. PICK t \in Monitors : MonitorStep(t)
    BY <1>8
  <2>2. CASE Poll(t) \/ Fire(t)
    BY <1>1, <2>2 DEF Poll, Fire, StartKill
  <2>3. CASE FinishKill(t)
    BY <1>1, <1>2, <1>5, <2>3 DEF FinishKill, BeginCallback, CloseTrade, EndKill
  <2> QED BY <2>1, <2>2, <2>3 DEF MonitorStep
<1>9. CASE ManualTrigger \/ ArmBegin \/ StopCheck \/ ArmEnd \/ DisarmBegin
            \/ DisarmEnd \/ ResetTriggers
  BY <1>1, <1>9 DEF ManualTrigger, StartKill, ArmBegin, StopCheck, ArmEnd,
                    DisarmBegin, DisarmEnd, ResetTriggers
<1>10. CASE FinishKill(Main)
  BY <1>1, <1>2, <1>5, <1>10 DEF FinishKill, BeginCallback, CloseTrade, EndKill
<1>11. CASE \E t \in Signalled : HandleSignal(t)
  <2>1. PICK t \in Signalled : HandleSignal(t)
    BY <1>11
  <2>2. UNCHANGED auditVars \/ Record(t)
    BY <2>1 DEF HandleSignal
  <2> QED BY <1>1, <1>2, <1>5, <2>2
<1>12. CASE UNCHANGED vars
  BY <1>1, <1>12 DEF vars
<1> QED BY <1>3, <1>4, <1>6, <1>7, <1>8, <1>9, <1>10, <1>11, <1>12 DEF Next, MainStep

\* The types of the variables that LockIInv and AuditTypeOK say nothing of.
OtherTypeOK ==
  /\ owner \in Threads \cup {Nobody}
  /\ monitoring \in [Triggers -> BOOLEAN] /\ flag \in [Triggers -> BOOLEAN]
  /\ restarts \in 0 .. MaxRestarts

\* Every step keeps the other types.
LEMMA OtherStep == OtherTypeOK /\ [Next]_vars => OtherTypeOK'
<1> SUFFICES ASSUME OtherTypeOK, [Next]_vars PROVE OtherTypeOK'
  OBVIOUS
<1> USE ThreadFacts, BoundAssumption, FaultAssumption DEF OtherTypeOK
<1>1. CASE \E t \in Triggers : Request(t)
  BY <1>1 DEF Request
<1>2. CASE Decide \/ Execute \/ EndTurn
  BY <1>2 DEF Decide, Execute, EndTurn
<1>3. CASE \E t \in Monitors : MonitorStep(t)
  <2>1. PICK t \in Monitors : MonitorStep(t)
    BY <1>3
  <2>2. CASE Poll(t)
    <3>1. flag' \in [Triggers -> BOOLEAN]
      <4>1. CASE UNCHANGED flag
        BY <4>1
      <4>2. CASE flag' = [flag EXCEPT ![t] = TRUE]
        BY <4>2
      <4>3. CASE flag' = [flag EXCEPT ![t] = FALSE]
        BY <4>3
      <4>4. (t \in Polled) = TRUE \/ (t \in Polled) = FALSE
        OBVIOUS
      <4> QED BY <2>2, <4>1, <4>2, <4>3, <4>4 DEF Poll
    <3> QED BY <2>2, <3>1 DEF Poll
  <2>3. CASE Fire(t)
    BY <2>3 DEF Fire, StartKill
  <2>4. CASE FinishKill(t)
    BY <2>4 DEF FinishKill, BeginCallback, CloseTrade, EndKill
  <2> QED BY <2>1, <2>2, <2>3, <2>4 DEF MonitorStep
<1>4. CASE ManualTrigger
  BY <1>4 DEF ManualTrigger, StartKill
<1>5. CASE ArmBegin \/ ArmEnd
  BY <1>5 DEF ArmBegin, ArmEnd
<1>6. CASE StopCheck \/ DisarmBegin \/ DisarmEnd
  BY <1>6 DEF StopCheck, DisarmBegin, DisarmEnd
<1>7. CASE ResetBegin \/ ResetTriggers \/ ResetEnd
  BY <1>7 DEF ResetBegin, ResetTriggers, ResetEnd
<1>8. CASE FinishKill(Main)
  BY <1>8 DEF FinishKill, BeginCallback, CloseTrade, EndKill
<1>9. CASE \E t \in Triggers : StopMonitoring(t)
  BY <1>9 DEF StopMonitoring
<1>10. CASE \E t \in Signalled : HandleSignal(t)
  BY <1>10 DEF HandleSignal
<1>11. CASE Restart
  <2>1. restarts' \in 0 .. MaxRestarts
    BY <1>11 DEF Restart
  <2>2. monitoring' \in [Triggers -> BOOLEAN] /\ flag' \in [Triggers -> BOOLEAN]
    BY <1>11 DEF Restart
  <2> QED BY <1>11, <2>1, <2>2 DEF Restart
<1>12. CASE UNCHANGED vars
  BY <1>12 DEF vars
<1> QED BY <1>1, <1>2, <1>3, <1>4, <1>5, <1>6, <1>7, <1>8, <1>9,
   <1>10, <1>11, <1>12 DEF Next, MainStep

\* For any triggers, faults and bounds the type invariant holds.
THEOREM TypeOKHolds == Spec => []TypeOK
<1>1. Init => OtherTypeOK /\ AuditTypeOK
  <2> SUFFICES ASSUME Init PROVE OtherTypeOK /\ AuditTypeOK
    OBVIOUS
  <2>1. restarts \in 0 .. MaxRestarts
    BY BoundAssumption DEF Init
  <2>2. monitoring \in [Triggers -> BOOLEAN] /\ flag \in [Triggers -> BOOLEAN]
    BY DEF Init
  <2>3. OtherTypeOK
    BY <2>1, <2>2 DEF Init, OtherTypeOK
  <2>4. AuditTypeOK
    BY EmptySeq DEF Init, AuditTypeOK
  <2> QED BY <2>3, <2>4
<1>2. LockIInv /\ BookInv /\ StandsInv /\ OtherTypeOK /\ AuditTypeOK => TypeOK
  BY DEF LockIInv, ControlTypeOK, BookInv, TradeTypeOK, StandsInv, OtherTypeOK, TypeOK
<1> QED BY <1>1, <1>2, LockHolds, BookHolds, StandsInvHolds, OtherStep, AuditStep, PTL DEF Spec
-----------------------------------------------------------------------------
(* The audit log and the table.                                            *)

\* The switch's current event is the newest one and is not resolved before a
\* reset resolves it; while no statement failed, the table is the log row by row.
CurrentInv ==
  /\ current \in {0, Len(log)}
  /\ current # 0 /\ pc[Main] \notin {"resetting", "rearming"} => ~log[current].resolved

Mirrors(table, events) ==
  /\ DOMAIN table = DOMAIN events
  /\ \A i \in DOMAIN events :
       /\ table[i].event = i /\ table[i].source = events[i].source
       /\ table[i].resolved = events[i].resolved

StoryInv == CurrentInv /\ (~unlogged => Mirrors(rows, log))

\* The types in the form the proofs below use.
LEMMA AuditShape ==
  ASSUME AuditTypeOK
  PROVE  /\ Len(log) \in Nat /\ DOMAIN log = 1 .. Len(log)
         /\ Len(rows) \in Nat /\ DOMAIN rows = 1 .. Len(rows)
         /\ \A i \in DOMAIN log : log[i] \in [source : Sources, resolved : BOOLEAN]
         /\ \A i \in DOMAIN rows :
              rows[i] \in [source : Sources, event : DOMAIN log, resolved : BOOLEAN]
<1> DEFINE Events == [source : Sources, resolved : BOOLEAN]
           Rows == [source : Sources, event : DOMAIN log, resolved : BOOLEAN]
<1>1. log \in Seq(Events) /\ rows \in Seq(Rows)
  BY DEF AuditTypeOK
<1> HIDE DEF Events, Rows
<1>2. /\ Len(log) \in Nat /\ DOMAIN log = 1 .. Len(log)
      /\ Len(rows) \in Nat /\ DOMAIN rows = 1 .. Len(rows)
      /\ \A i \in DOMAIN log : log[i] \in Events
      /\ \A i \in DOMAIN rows : rows[i] \in Rows
  BY <1>1
<1> QED BY <1>2 DEF Events, Rows

\* Adding a line to a sequence leaves the other lines alone.
LEMMA Appended ==
  ASSUME NEW S, NEW seq \in Seq(S), NEW e
  PROVE  /\ DOMAIN Append(seq, e) = 1 .. Len(seq) + 1
         /\ \A i \in 1 .. Len(seq) : Append(seq, e)[i] = seq[i]
         /\ Append(seq, e)[Len(seq) + 1] = e
OBVIOUS

\* Recording an event: it becomes the current one, and its row, if it is
\* inserted, stands at the place the event has in the log.
LEMMA RecordStory ==
  ASSUME AuditTypeOK, StoryInv, NEW source \in Sources, Record(source)
  PROVE  StoryInv'
<1> DEFINE event == [source |-> source, resolved |-> FALSE]
           row == [source |-> source, event |-> Len(log) + 1, resolved |-> FALSE]
           Rows == [source : Sources, event : DOMAIN log, resolved : BOOLEAN]
           n == Len(log)
<1>1. n \in Nat /\ DOMAIN log = 1 .. n
  BY AuditShape
<1>2. /\ DOMAIN log' = 1 .. n + 1
      /\ \A i \in 1 .. n : log'[i] = log[i]
      /\ log'[n + 1] = event
      /\ Len(log') = n + 1
  <2>1. log \in Seq([source : Sources, resolved : BOOLEAN])
    BY DEF AuditTypeOK
  <2>2. log' = Append(log, event)
    BY DEF Record
  <2>3. Len(Append(log, event)) = n + 1
    BY <2>1
  <2> HIDE DEF event
  <2> QED BY <2>1, <2>2, <2>3, Appended
<1>3. CurrentInv'
  BY <1>1, <1>2 DEF CurrentInv, Record
<1>4. ASSUME ~unlogged' PROVE Mirrors(rows', log')
  <2>1. rows' = Append(rows, row) /\ ~unlogged
    BY <1>4 DEF Record
  <2>2. Mirrors(rows, log) /\ Len(rows) = n
    BY <2>1, <1>1, AuditShape DEF StoryInv, Mirrors
  <2>3. /\ DOMAIN rows' = 1 .. n + 1
        /\ \A i \in 1 .. n : rows'[i] = rows[i]
        /\ rows'[n + 1] = row
    <3>1. rows \in Seq(Rows)
      BY DEF AuditTypeOK
    <3> HIDE DEF Rows, row, n
    <3> QED BY <3>1, <2>1, <2>2, Appended
  <2>4. \A i \in 1 .. n + 1 : i \in 1 .. n \/ i = n + 1
    BY <1>1
  <2>5. ASSUME NEW i \in 1 .. n
        PROVE  /\ rows'[i].event = i /\ rows'[i].source = log'[i].source
               /\ rows'[i].resolved = log'[i].resolved
    BY <1>1, <1>2, <2>2, <2>3 DEF Mirrors
  <2>6. /\ rows'[n + 1].event = n + 1 /\ rows'[n + 1].source = log'[n + 1].source
        /\ rows'[n + 1].resolved = log'[n + 1].resolved
    BY <1>2, <2>3
  <2> QED BY <1>2, <2>3, <2>4, <2>5, <2>6 DEF Mirrors
<1> QED BY <1>3, <1>4 DEF StoryInv

\* What resolving does to the fields of an entry.
LEMMA ResolvedFields ==
  ASSUME NEW S, NEW entry \in [source : S, resolved : BOOLEAN], NEW now \in BOOLEAN
  PROVE  /\ Resolved(entry, now).source = entry.source
         /\ Resolved(entry, now).resolved = (entry.resolved \/ now)
BY DEF Resolved

LEMMA ResolvedRowFields ==
  ASSUME NEW S, NEW T, NEW entry \in [source : S, event : T, resolved : BOOLEAN],
         NEW now \in BOOLEAN
  PROVE  /\ Resolved(entry, now).source = entry.source
         /\ Resolved(entry, now).event = entry.event
         /\ Resolved(entry, now).resolved = (entry.resolved \/ now)
BY DEF Resolved

\* While the table is the log, the row that a reset resolves is the one of the
\* current event and no other: it is the newest of all, so the newest of its
\* source, and it is not resolved yet.
LEMMA ResolveIsCurrent ==
  ASSUME AuditTypeOK, StoryInv, ~unlogged, current # 0,
         pc[Main] \notin {"resetting", "rearming"},
         NEW i \in DOMAIN rows
  PROVE  Resolve(i) <=> i = current
<1>1. /\ Len(rows) \in Nat /\ DOMAIN rows = 1 .. Len(rows) /\ DOMAIN log = 1 .. Len(log)
      /\ Len(log) \in Nat
  BY AuditShape
<1>2. Mirrors(rows, log) /\ Len(log) = Len(rows)
  <2>1. Mirrors(rows, log) /\ 1 .. Len(rows) = 1 .. Len(log)
    BY <1>1 DEF StoryInv, Mirrors
  <2>2. \A m, n \in Nat : 1 .. m = 1 .. n => m = n
    OBVIOUS
  <2> QED BY <1>1, <2>1, <2>2
<1>3. current = Len(rows) /\ ~log[current].resolved
  BY <1>2 DEF StoryInv, CurrentInv
<1>4. current \in DOMAIN rows /\ current \in DOMAIN log
  BY <1>1, <1>2, <1>3
<1>5. ~rows[current].resolved /\ rows[current].source = log[current].source
  BY <1>2, <1>3, <1>4 DEF Mirrors
<1>6. ASSUME i = current PROVE Resolve(i)
  BY <1>1, <1>3, <1>4, <1>5, <1>6 DEF Resolve
<1>7. ASSUME Resolve(i), i # current PROVE FALSE
  BY <1>1, <1>3, <1>4, <1>5, <1>7 DEF Resolve
<1> QED BY <1>6, <1>7

\* reset() resolves the current event in the log and its row in the table.
LEMMA ResetStory ==
  ASSUME LockIInv, AuditTypeOK, StoryInv, ResetBegin
  PROVE  StoryInv'
<1>1. /\ Len(log) \in Nat /\ DOMAIN log = 1 .. Len(log)
      /\ Len(rows) \in Nat /\ DOMAIN rows = 1 .. Len(rows)
      /\ \A i \in DOMAIN log : log[i] \in [source : Sources, resolved : BOOLEAN]
      /\ \A i \in DOMAIN rows :
           rows[i] \in [source : Sources, event : DOMAIN log, resolved : BOOLEAN]
  BY AuditShape
<1>2. pc[Main] = "idle" /\ pc'[Main] = "resetting" /\ current' = current
  BY ThreadFacts DEF ResetBegin, Ready, Goto, LockIInv, ControlTypeOK
<1>3. CASE current = 0
  BY <1>2, <1>3 DEF ResetBegin, StoryInv, CurrentInv
<1>4. CASE current # 0
  <2> DEFINE event == Resolved(log[current], TRUE)
  <2>1. current = Len(log) /\ current \in DOMAIN log
    <3>1. current = Len(log)
      BY <1>4 DEF StoryInv, CurrentInv
    <3>2. Len(log) \in Nat /\ DOMAIN log = 1 .. Len(log)
      BY <1>1
    <3> QED BY <1>4, <3>1, <3>2
  <2>2. log' = [log EXCEPT ![current] = event]
    BY <1>4 DEF ResetBegin
  <2>3. /\ DOMAIN log' = DOMAIN log
        /\ \A i \in DOMAIN log : log'[i] = IF i = current THEN event ELSE log[i]
    <3> HIDE DEF event
    <3> QED BY <2>1, <2>2
  <2>4. Len(log') = Len(log)
    <3>1. log \in Seq([source : Sources, resolved : BOOLEAN])
      BY DEF AuditTypeOK
    <3>2. event \in [source : Sources, resolved : BOOLEAN]
      BY <1>1, <2>1, ResolvedEvent
    <3> HIDE DEF event
    <3> QED BY <3>1, <3>2, <2>1, <2>2, ExceptSeq
  <2>5. CurrentInv'
    BY <1>2, <2>1, <2>4 DEF CurrentInv
  <2>6. ASSUME ~unlogged' PROVE Mirrors(rows', log')
    <3>1. /\ ~unlogged
          /\ rows' = [row \in DOMAIN rows |-> Resolved(rows[row], Resolve(row))]
      BY <1>4, <2>6 DEF ResetBegin
    <3>2. Mirrors(rows, log)
      BY <3>1 DEF StoryInv
    <3>3. ASSUME NEW i \in DOMAIN log
          PROVE  /\ rows'[i].event = i /\ rows'[i].source = log'[i].source
                 /\ rows'[i].resolved = log'[i].resolved
      <4>1. /\ i \in DOMAIN rows /\ rows[i].event = i
            /\ rows[i].source = log[i].source /\ rows[i].resolved = log[i].resolved
        BY <3>2 DEF Mirrors
      <4>2. rows'[i] = Resolved(rows[i], Resolve(i))
        BY <3>1, <4>1
      <4>3. Resolve(i) <=> i = current
        BY <1>2, <1>4, <3>1, <4>1, ResolveIsCurrent
      <4>4. Resolve(i) \in BOOLEAN
        BY Zenon DEF Resolve
      <4>5. /\ rows'[i].source = rows[i].source /\ rows'[i].event = rows[i].event
            /\ rows'[i].resolved = (rows[i].resolved \/ Resolve(i))
        BY <1>1, <4>1, <4>2, <4>4, ResolvedRowFields
      <4>6. CASE i = current
        <5>1. log'[i].source = log[i].source /\ log'[i].resolved = TRUE
          <6>1. /\ event.source = log[i].source
                /\ event.resolved = (log[i].resolved \/ TRUE)
            BY <1>1, <2>1, <4>6, ResolvedFields
          <6> QED BY <2>3, <4>6, <6>1
        <5>2. rows'[i].resolved = TRUE
          BY <4>3, <4>5, <4>6
        <5> QED BY <4>1, <4>5, <5>1, <5>2
      <4>7. CASE i # current
        <5>1. log'[i] = log[i]
          BY <2>3, <4>7
        <5>2. rows[i].resolved \in BOOLEAN
          BY <1>1, <4>1
        <5>3. rows'[i].resolved = rows[i].resolved
          BY <4>3, <4>5, <4>7, <5>2
        <5> QED BY <4>1, <4>5, <5>1, <5>3
      <4> QED BY <4>6, <4>7
    <3>4. DOMAIN rows' = DOMAIN log'
      BY <2>3, <3>1, <3>2 DEF Mirrors
    <3> QED BY <2>3, <3>3, <3>4 DEF Mirrors
  <2> QED BY <2>5, <2>6 DEF StoryInv
<1> QED BY <1>3, <1>4

\* A step that leaves log and table alone, and takes the operator's thread out of
\* no reset.
LEMMA StoryKept ==
  ASSUME StoryInv, UNCHANGED auditVars,
         pc[Main] \in {"resetting", "rearming"} => pc'[Main] \in {"resetting", "rearming"}
  PROVE  StoryInv'
BY DEF StoryInv, CurrentInv, auditVars

LEMMA StoryStep == LockIInv /\ AuditTypeOK /\ StoryInv /\ [Next]_vars => StoryInv'
<1> SUFFICES ASSUME LockIInv, AuditTypeOK, StoryInv, [Next]_vars PROVE StoryInv'
  OBVIOUS
<1> DEFINE Stays == pc[Main] \in {"resetting", "rearming"}
                    => pc'[Main] \in {"resetting", "rearming"}
<1>1. ASSUME UNCHANGED auditVars, Stays PROVE StoryInv'
  BY <1>1, StoryKept
<1>2. ASSUME NEW source \in Sources, Record(source) PROVE StoryInv'
  BY <1>2, RecordStory
<1>3. pc \in [Threads -> MonitorPlaces \cup MainPlaces]
  BY DEF LockIInv, ControlTypeOK
<1>4. Main \in Sources /\ Monitors \subseteq Sources /\ Signalled \subseteq Sources
  BY DEF Sources, Monitors, Triggers
<1>5. CASE \E t \in Triggers : Request(t) \/ StopMonitoring(t)
  BY <1>1, <1>5 DEF Request, StopMonitoring
<1>6. CASE Decide \/ Execute \/ EndTurn
  BY <1>1, <1>6 DEF Decide, Execute, EndTurn
<1>7. CASE \E t \in Monitors : MonitorStep(t)
  <2>1. PICK t \in Monitors : MonitorStep(t)
    BY <1>7
  <2>2. t \in Threads /\ t # Main
    BY ThreadFacts
  <2>3. CASE Poll(t) \/ Fire(t)
    BY <1>1, <1>3, <2>2, <2>3, ThreadFacts DEF Poll, Fire, StartKill
  <2>4. CASE BeginCallback(t)
    BY <1>2, <1>4, <2>4 DEF BeginCallback
  <2>5. CASE CloseTrade(t) \/ EndKill(t)
    BY <1>1, <1>3, <2>2, <2>5, ThreadFacts DEF CloseTrade, EndKill
  <2> QED BY <2>1, <2>3, <2>4, <2>5 DEF MonitorStep, FinishKill
<1>8. CASE ManualTrigger \/ ArmBegin \/ StopCheck \/ ArmEnd \/ DisarmBegin
           \/ DisarmEnd \/ ResetTriggers
  <2>1. UNCHANGED auditVars
    BY <1>8 DEF ManualTrigger, StartKill, ArmBegin, StopCheck, ArmEnd,
                DisarmBegin, DisarmEnd, ResetTriggers
  <2>2. Stays
    BY <1>3, <1>8, ThreadFacts DEF ManualTrigger, ArmBegin, StopCheck, ArmEnd,
       DisarmBegin, DisarmEnd, ResetTriggers, Ready, Goto
  <2> QED BY <1>1, <2>1, <2>2
<1>9. CASE ResetBegin
  BY <1>9, ResetStory
<1>10. CASE ResetEnd \/ Restart
  BY <1>10 DEF ResetEnd, Restart, StoryInv, CurrentInv
<1>11. CASE FinishKill(Main)
  <2>1. CASE BeginCallback(Main)
    BY <1>2, <1>4, <2>1 DEF BeginCallback
  <2>2. CASE CloseTrade(Main) \/ EndKill(Main)
    BY <1>1, <1>3, <2>2, ThreadFacts DEF CloseTrade, EndKill
  <2> QED BY <1>11, <2>1, <2>2 DEF FinishKill
<1>12. CASE \E t \in Signalled : HandleSignal(t)
  <2>1. PICK t \in Signalled : HandleSignal(t)
    BY <1>12
  <2>2. UNCHANGED pc /\ (UNCHANGED auditVars \/ Record(t))
    BY <2>1 DEF HandleSignal
  <2> QED BY <1>1, <1>2, <1>4, <2>2
<1>13. CASE UNCHANGED vars
  BY <1>1, <1>13 DEF vars
<1> QED BY <1>5, <1>6, <1>7, <1>8, <1>9, <1>10, <1>11, <1>12, <1>13 DEF Next, MainStep

\* For any triggers and bounds, kills of any source in any order: as long as no
\* statement failed, a row of kill_switch_events is resolved exactly when the kill
\* it stands for was reset.
THEOREM AuditAgreesHolds == Spec => []AuditAgrees
<1>1. Init => AuditTypeOK /\ StoryInv
  <2> SUFFICES ASSUME Init PROVE AuditTypeOK /\ StoryInv
    OBVIOUS
  <2>1. log = <<>> /\ rows = <<>> /\ current = 0 /\ unlogged = FALSE
    BY DEF Init
  <2>2. Len(<<>>) = 0 /\ DOMAIN <<>> = {}
    OBVIOUS
  <2> QED BY <2>1, <2>2, EmptySeq DEF AuditTypeOK, StoryInv, CurrentInv, Mirrors
<1>2. AuditTypeOK /\ StoryInv => AuditAgrees
  BY DEF StoryInv, Mirrors, AuditAgrees
<1> QED BY <1>1, <1>2, LockHolds, AuditStep, StoryStep, PTL DEF Spec
=============================================================================
