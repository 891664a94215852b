------------------------ MODULE ModelAssignment_proofs ------------------------
(***************************************************************************)
(* Proofs about ModelAssignment, for every set of accounts, models and     *)
(* threads and every combination of faults.                                *)
(***************************************************************************)
EXTENDS ModelAssignment, TLAPS

\* Every event under way, queued or being handled, follows a committed row.
EventsAssigned ==
  /\ \A i \in DOMAIN channel :
       EverAssigned(channel[i].account, channel[i].model)
  /\ call # Idle => EverAssigned(call.account, call.model)

\* The account was assigned the model in the next state's table.
WillBeAssigned(a, m) == \E i \in DOMAIN rows'[a] : rows'[a][i].model = m

\* A step keeps the account's rows, their order and their models.
RowsKept(a) == \A i \in DOMAIN rows[a] : /\ i \in DOMAIN rows'[a]
                                        /\ rows'[a][i].model = rows[a][i].model

\* The account the handler builds a controller for has none.
Checked == call.at = "checking" => ~HasController(call.account)

\* A live thread is the one its account's entry names.
Entered == \A t \in Threads : Live(t) => controllers[threads[t].account] = t

\* An entry names a started thread, and its account was assigned a model.
EntriesStarted ==
  \A a \in Accounts :
    HasController(a) => rows[a] # <<>> /\ threads[controllers[a]] \in Started

\* Where the first assignment of an account is: with its controller, in the
\* handler, or in the channel ahead of every other event of the account.
First(a) == rows[a][1].model
Served(a) == HasController(a) /\ threads[controllers[a]].model = First(a)
Handled(a) ==
  ~HasController(a) /\ call.account = a /\ call.model = First(a)
Waits(a) ==
  /\ ~HasController(a)
  /\ call.account # a
  /\ \E i \in DOMAIN channel :
       /\ channel[i].account = a
       /\ channel[i].model = First(a)
       /\ \A j \in DOMAIN channel : j < i => channel[j].account # a

FirstComes ==
  \A a \in Accounts \ missed :
    rows[a] # <<>> => Served(a) \/ Handled(a) \/ Waits(a)

Inv == /\ TypeOK /\ EventsAssigned /\ TradesOnlyAssigned /\ Checked /\ Entered
       /\ EntriesStarted /\ FirstComes

-----------------------------------------------------------------------------
LEMMA NoOneElse == NoOne \notin Accounts /\ NoOne \notin Models /\ NoOne \notin Threads
BY NoOneAssumption

\* Deactivating rows keeps their number, their order and their models.
LEMMA DeactivateKeeps ==
  ASSUME NEW rs \in Seq(Row)
  PROVE  /\ Deactivate(rs) \in Seq(Row)
         /\ Len(Deactivate(rs)) = Len(rs)
         /\ \A i \in DOMAIN rs : /\ i \in DOMAIN Deactivate(rs)
                                 /\ Deactivate(rs)[i].model = rs[i].model
<1>. DEFINE Off(r) == [r EXCEPT !.active = FALSE]
<1>1. \A r \in Row : Off(r) \in Row /\ Off(r).model = r.model
  BY DEF Row
<1>2. Deactivate(rs) = [i \in 1..Len(rs) |-> Off(rs[i])]
  BY DEF Deactivate
<1>3. \A i \in 1..Len(rs) : rs[i] \in Row
  OBVIOUS
<1>. HIDE DEF Off
<1>4. Deactivate(rs) \in Seq(Row) /\ Len(Deactivate(rs)) = Len(rs)
  BY <1>1, <1>2, <1>3
<1>5. \A i \in DOMAIN rs : /\ i \in DOMAIN Deactivate(rs)
                           /\ Deactivate(rs)[i].model = rs[i].model
  BY <1>1, <1>2, <1>3
<1>. QED  BY <1>4, <1>5

\* A new row is added after the rows there are.
LEMMA AppendKeeps ==
  ASSUME NEW rs \in Seq(Row), NEW m \in Models
  PROVE  LET new == Append(Deactivate(rs), NewRow(m))
         IN  /\ new \in Seq(Row)
             /\ \A i \in DOMAIN rs : /\ i \in DOMAIN new
                                     /\ new[i].model = rs[i].model
             /\ Len(rs) + 1 \in DOMAIN new /\ new[Len(rs) + 1].model = m
<1>. DEFINE ds == Deactivate(rs)
            new == Append(ds, NewRow(m))
<1>1. ds \in Seq(Row) /\ Len(ds) = Len(rs)
      /\ \A i \in DOMAIN rs : i \in DOMAIN ds /\ ds[i].model = rs[i].model
  BY DeactivateKeeps
<1>2. NewRow(m) \in Row /\ NewRow(m).model = m
  BY DEF NewRow, Row
<1>. HIDE DEF ds
<1>3. new \in Seq(Row) /\ Len(new) = Len(ds) + 1
  BY <1>1, <1>2
<1>4. \A i \in 1..Len(ds) : new[i] = ds[i]
  BY <1>1, <1>2
<1>5. new[Len(ds) + 1].model = m
  BY <1>1, <1>2
<1>. HIDE DEF new
<1>6. DOMAIN new = 1..(Len(ds) + 1) /\ DOMAIN rs = 1..Len(ds) /\ Len(ds) \in Nat
  BY <1>1, <1>3
<1>7. \A i \in DOMAIN rs : i \in DOMAIN new /\ new[i].model = rs[i].model
  BY <1>1, <1>4, <1>6
<1>8. Len(rs) + 1 \in DOMAIN new /\ new[Len(rs) + 1].model = m
  BY <1>1, <1>5, <1>6
<1>. QED  BY <1>3, <1>7, <1>8 DEF new, ds

\* No step removes a row, moves one or changes the model of one.
LEMMA RowsKeep ==
  ASSUME TypeOK, [Next]_vars, NEW a \in Accounts
  PROVE  RowsKept(a)
<1>. USE DEF RowsKept
<1>1. rows \in [Accounts -> Seq(Row)]
  BY DEF TypeOK
<1>2. ASSUME NEW b \in Accounts, NEW k \in Models, AssignModel(b, k)
      PROVE  RowsKept(a)
  <2>1. rows' = [rows EXCEPT ![b] = Append(Deactivate(rows[b]), NewRow(k))]
    BY <1>2 DEF AssignModel
  <2>2. CASE a = b
    <3>1. rows'[a] = Append(Deactivate(rows[a]), NewRow(k))
      BY <1>1, <2>1, <2>2
    <3>. QED  BY <1>1, <3>1, AppendKeeps
  <2>3. CASE a # b
    BY <1>1, <2>1, <2>3
  <2>. QED  BY <2>2, <2>3
<1>3. ASSUME NEW b \in Accounts, UnassignModel(b)
      PROVE  RowsKept(a)
  <2>1. rows' = [rows EXCEPT ![b] = Deactivate(rows[b])]
    BY <1>3 DEF UnassignModel
  <2>2. CASE a = b
    <3>1. rows'[a] = Deactivate(rows[a])
      BY <1>1, <2>1, <2>2
    <3>. QED  BY <1>1, <3>1, DeactivateKeeps
  <2>3. CASE a # b
    BY <1>1, <2>1, <2>3
  <2>. QED  BY <2>2, <2>3
<1>4. CASE UNCHANGED rows
  BY <1>4
<1>. HIDE DEF RowsKept
<1>. QED
  BY <1>2, <1>3, <1>4 DEF Next, vars, ConnectAccount, TakeEvent, EnterService,
     Refuse, StartController, Drop, Resubscribe, BeginTrading, EndTrading,
     Restart

\* An account never forgets a model it was assigned.
LEMMA RowsStay ==
  ASSUME TypeOK, [Next]_vars, NEW a \in Accounts, NEW m, EverAssigned(a, m)
  PROVE  WillBeAssigned(a, m)
BY RowsKeep DEF RowsKept, EverAssigned, WillBeAssigned

-----------------------------------------------------------------------------
\* The types hold initially, and every step keeps them.
LEMMA TypeInit == Init => TypeOK
<1>. SUFFICES ASSUME Init  PROVE TypeOK
  OBVIOUS
<1>1. rows \in [Accounts -> Seq(Row)] /\ channel \in Seq(Event)
  BY DEF Init
<1>2. call.at = "idle" /\ lock = FALSE
  BY DEF Init, Idle
<1>3. threads \in [Threads -> Started \cup {Unused}]
  BY DEF Init
<1>4. drops \in 0..MaxDrops /\ restarts \in 0..MaxRestarts
  BY BoundsAssumption DEF Init
<1>. QED  BY <1>1, <1>2, <1>3, <1>4 DEF Init, TypeOK

\* What a busy consumer and a started thread hold.
LEMMA CallFields ==
  ASSUME TypeOK, call.at # "idle"
  PROVE  call \in Call /\ call # Idle
BY DEF TypeOK, Idle

LEMMA ThreadFields ==
  ASSUME TypeOK, NEW t \in Threads, threads[t].at # "unused"
  PROVE  threads[t] \in Started
<1>1. threads[t] \in Started \cup {Unused}
  BY DEF TypeOK
<1>. QED  BY <1>1 DEF Unused

\* A started thread that moves on keeps its account and its model.
LEMMA MovesOn ==
  ASSUME TypeOK, NEW t \in Threads, NEW at \in {"new", "trading", "ended"},
         threads[t].at # "unused",
         threads' = [threads EXCEPT ![t] = [@ EXCEPT !.at = at]]
  PROVE  /\ threads' \in [Threads -> Started \cup {Unused}]
         /\ threads'[t].account = threads[t].account
         /\ threads'[t].model = threads[t].model
         /\ \A u \in Threads \ {t} : threads'[u] = threads[u]
<1>1. threads[t] \in Started
  BY ThreadFields
<1>2. DEFINE moved == [threads[t] EXCEPT !.at = at]
<1>3. moved \in Started /\ moved.account = threads[t].account
      /\ moved.model = threads[t].model
  BY <1>1 DEF Started
<1>4. threads \in [Threads -> Started \cup {Unused}]
  BY DEF TypeOK
<1>5. threads' = [threads EXCEPT ![t] = moved]
  OBVIOUS
<1>. HIDE DEF moved
<1>. QED  BY <1>3, <1>4, <1>5

\* The thread the handler starts takes over the event's account and model.
LEMMA StartsNew ==
  ASSUME TypeOK, NEW t \in Threads, StartController(t)
  PROVE  /\ call \in Call /\ call # Idle
         /\ threads' \in [Threads -> Started \cup {Unused}]
         /\ threads'[t].account = call.account
         /\ threads'[t].model = call.model
         /\ \A u \in Threads \ {t} : threads'[u] = threads[u]
<1>1. call \in Call /\ call # Idle
  BY CallFields DEF StartController
<1>2. DEFINE new == [call EXCEPT !.at = "new"]
<1>3. new \in Started /\ new.account = call.account /\ new.model = call.model
  BY <1>1 DEF Call, Started
<1>4. threads \in [Threads -> Started \cup {Unused}]
  BY DEF TypeOK
<1>5. threads' = [threads EXCEPT ![t] = new]
  BY DEF StartController
<1>. HIDE DEF new
<1>. QED  BY <1>1, <1>3, <1>4, <1>5

LEMMA TypeStep == TypeOK /\ [Next]_vars => TypeOK'
<1>. SUFFICES ASSUME TypeOK, [Next]_vars  PROVE TypeOK'
  OBVIOUS
<1>. USE BoundsAssumption
<1>1. ASSUME NEW a \in Accounts, NEW m \in Models, AssignModel(a, m)
      PROVE  TypeOK'
  <2>1. rows[a] \in Seq(Row)
    BY DEF TypeOK
  <2>2. Append(Deactivate(rows[a]), NewRow(m)) \in Seq(Row)
    BY <2>1, AppendKeeps
  <2>3. rows' \in [Accounts -> Seq(Row)]
    BY <1>1, <2>2 DEF AssignModel, TypeOK
  <2>4. [account |-> a, model |-> m] \in Event
    BY DEF Event
  <2>5. channel \in Seq(Event) /\ missed \subseteq Accounts
    BY DEF TypeOK
  <2>6. channel' \in Seq(Event)
    BY <1>1, <2>4, <2>5 DEF AssignModel, Publish
  <2>7. missed' \subseteq Accounts
    BY <1>1, <2>5 DEF AssignModel, Publish
  <2>. QED  BY <1>1, <2>3, <2>6, <2>7 DEF AssignModel, TypeOK
<1>2. ASSUME NEW a \in Accounts, UnassignModel(a)
      PROVE  TypeOK'
  <2>1. rows[a] \in Seq(Row)
    BY DEF TypeOK
  <2>2. Deactivate(rows[a]) \in Seq(Row)
    BY <2>1, DeactivateKeeps
  <2>3. rows' \in [Accounts -> Seq(Row)]
    BY <1>2, <2>2 DEF UnassignModel, TypeOK
  <2>. QED  BY <1>2, <2>3 DEF UnassignModel, TypeOK
<1>3. ASSUME NEW a \in Accounts, ConnectAccount(a)
      PROVE  TypeOK'
  BY <1>3 DEF ConnectAccount, TypeOK
<1>4. CASE TakeEvent
  <2>1. channel \in Seq(Event) /\ channel # <<>>
    BY <1>4 DEF TakeEvent, TypeOK
  <2>2. Head(channel) \in Event /\ Tail(channel) \in Seq(Event)
    BY <2>1
  <2>3. call' \in Call /\ call'.at = "enter"
    BY <1>4, <2>2 DEF TakeEvent, Event, Call
  <2>4. lock' = FALSE
    BY <1>4 DEF TakeEvent, TypeOK, Idle
  <2>. QED  BY <1>4, <2>2, <2>3, <2>4 DEF TakeEvent, TypeOK
<1>5. CASE EnterService
  <2>1. call \in Call
    BY <1>5, CallFields DEF EnterService, WhereTo
  <2>2. call'.at \in {"checking", "relock"} /\ call' \in Call
    BY <1>5, <2>1 DEF EnterService, WhereTo, Call
  <2>. QED  BY <1>5, <2>2 DEF EnterService, TypeOK
<1>6. CASE Refuse
  <2>1. call.account \in Accounts
    BY <1>6, CallFields DEF Refuse, Call
  <2>2. call' = Idle /\ lock' = FALSE /\ call'.at = "idle"
    BY <1>6 DEF Refuse, Return, Idle
  <2>. QED  BY <1>6, <2>1, <2>2 DEF Refuse, TypeOK
<1>7. ASSUME NEW t \in Threads, StartController(t)
      PROVE  TypeOK'
  <2>1. threads' \in [Threads -> Started \cup {Unused}]
    BY <1>7, StartsNew
  <2>2. controllers' \in [Accounts -> Threads \cup {NoOne}]
    BY <1>7 DEF StartController, TypeOK
  <2>3. call' = Idle /\ lock' = FALSE /\ call'.at = "idle"
    BY <1>7 DEF StartController, Return, Idle
  <2>. QED  BY <1>7, <2>1, <2>2, <2>3 DEF StartController, TypeOK
<1>8. CASE Drop
  <2>1. channel \in Seq(Event) /\ missed \subseteq Accounts
    BY DEF TypeOK
  <2>2. \A i \in DOMAIN channel : channel[i] \in Event
    BY <2>1
  <2>3. \A e \in Event : e.account \in Accounts
    BY DEF Event
  <2>4. missed' \subseteq Accounts
    BY <1>8, <2>1, <2>2, <2>3 DEF Drop
  <2>5. channel' \in Seq(Event)
    BY <1>8 DEF Drop
  <2>6. drops' \in 0..MaxDrops
    BY <1>8 DEF Drop, TypeOK
  <2>. QED  BY <1>8, <2>4, <2>5, <2>6 DEF Drop, TypeOK
<1>9. CASE Resubscribe
  BY <1>9 DEF Resubscribe, TypeOK
<1>10. ASSUME NEW t \in Threads, BeginTrading(t)
       PROVE  TypeOK'
  <2>1. threads' \in [Threads -> Started \cup {Unused}]
    BY <1>10, MovesOn DEF BeginTrading
  <2>. QED  BY <1>10, <2>1 DEF BeginTrading, TypeOK
<1>11. ASSUME NEW t \in Threads, EndTrading(t)
       PROVE  TypeOK'
  <2>1. threads' \in [Threads -> Started \cup {Unused}]
    BY <1>11, MovesOn DEF EndTrading
  <2>. QED  BY <1>11, <2>1 DEF EndTrading, TypeOK
<1>12. CASE Restart
  <2>1. call' = Idle /\ call'.at = "idle" /\ lock' = FALSE
    BY <1>12 DEF Restart, Idle
  <2>2. threads' \in [Threads -> Started \cup {Unused}]
    BY <1>12 DEF Restart
  <2>3. controllers' \in [Accounts -> Threads \cup {NoOne}]
    BY <1>12 DEF Restart
  <2>4. connected' \subseteq Accounts /\ missed' \subseteq Accounts
    BY <1>12 DEF Restart, TypeOK
  <2>5. channel' = <<>> /\ linked' = FALSE
    BY <1>12 DEF Restart
  <2>6. restarts' \in 0..MaxRestarts
    BY <1>12 DEF Restart, TypeOK
  <2>7. rows' = rows /\ drops' = drops
    BY <1>12 DEF Restart
  <2>8. channel' \in Seq(Event)
    BY <2>5
  <2>9. linked' \in BOOLEAN
    BY <2>5
  <2>10. lock' <=> call'.at \in {"checking", "relock"}
    BY <2>1
  <2>11. rows' \in [Accounts -> Seq(Row)] /\ drops' \in 0..MaxDrops
    BY <2>7 DEF TypeOK
  <2>. QED  BY <2>1, <2>2, <2>3, <2>4, <2>6, <2>8, <2>9, <2>10, <2>11
           DEF TypeOK
<1>13. CASE UNCHANGED vars
  BY <1>13 DEF vars, TypeOK
<1>. QED
  BY <1>1, <1>2, <1>3, <1>4, <1>5, <1>6, <1>7, <1>8, <1>9, <1>10, <1>11,
     <1>12, <1>13 DEF Next

-----------------------------------------------------------------------------
\* An event enters the channel after its row was committed, and the row stays.
LEMMA EventsStep ==
  ASSUME TypeOK, EventsAssigned, [Next]_vars
  PROVE  EventsAssigned'
<1>1. \A e \in Event : EverAssigned(e.account, e.model)
                          => WillBeAssigned(e.account, e.model)
  BY RowsStay DEF Event
<1>2. channel \in Seq(Event)
  BY DEF TypeOK
<1>3. call # Idle => WillBeAssigned(call.account, call.model)
  <2>1. call # Idle => call.account \in Accounts
    BY DEF TypeOK, Call
  <2>. QED  BY <2>1, RowsStay DEF EventsAssigned
<1>4. \A i \in DOMAIN channel :
        WillBeAssigned(channel[i].account, channel[i].model)
  <2>1. \A i \in DOMAIN channel : channel[i] \in Event
    BY <1>2
  <2>. QED  BY <1>1, <2>1 DEF EventsAssigned
<1>5. ASSUME NEW a \in Accounts, NEW m \in Models, AssignModel(a, m)
      PROVE  EventsAssigned'
  <2>1. rows \in [Accounts -> Seq(Row)]
        /\ rows' = [rows EXCEPT ![a] = Append(Deactivate(@), NewRow(m))]
    BY <1>5 DEF AssignModel, TypeOK
  <2>2. rows[a] \in Seq(Row) /\ rows'[a] = Append(Deactivate(rows[a]), NewRow(m))
    BY <2>1
  <2>3. WillBeAssigned(a, m)
    BY <2>2, AppendKeeps DEF WillBeAssigned
  <2>4. \A i \in DOMAIN channel' :
          WillBeAssigned(channel'[i].account, channel'[i].model)
    <3>1. CASE channel' = channel
      BY <1>4, <3>1
    <3>2. CASE channel' = Append(channel, [account |-> a, model |-> m])
      <4>. DEFINE e == [account |-> a, model |-> m]
      <4>1. WillBeAssigned(e.account, e.model)
        BY <2>3
      <4>2. e \in Event
        BY DEF Event
      <4>. HIDE DEF e
      <4>3. \A i \in DOMAIN channel' : (i \in DOMAIN channel /\ channel'[i] = channel[i])
                                       \/ channel'[i] = e
        BY <1>2, <3>2, <4>2 DEF e
      <4>. QED  BY <1>4, <4>1, <4>3
    <3>. QED  BY <1>5, <3>1, <3>2 DEF AssignModel, Publish
  <2>5. call' = call
    BY <1>5 DEF AssignModel
  <2>. QED  BY <1>3, <2>4, <2>5 DEF EventsAssigned, EverAssigned, WillBeAssigned
<1>6. CASE TakeEvent
  <2>1. channel # <<>> /\ channel' = Tail(channel)
        /\ call'.account = Head(channel).account
        /\ call'.model = Head(channel).model
    BY <1>6 DEF TakeEvent
  <2>2. \A i \in DOMAIN channel' : i + 1 \in DOMAIN channel
                                   /\ channel'[i] = channel[i + 1]
    BY <1>2, <2>1
  <2>3. 1 \in DOMAIN channel /\ Head(channel) = channel[1]
    BY <1>2, <2>1
  <2>4. WillBeAssigned(call'.account, call'.model)
    BY <1>4, <2>1, <2>3
  <2>5. \A i \in DOMAIN channel' :
          WillBeAssigned(channel'[i].account, channel'[i].model)
    BY <1>4, <2>2
  <2>. QED  BY <2>4, <2>5 DEF EventsAssigned, EverAssigned, WillBeAssigned
<1>7. CASE Drop \/ Restart
  <2>1. channel' = <<>> /\ (call' = call \/ call' = Idle)
    BY <1>7 DEF Drop, Restart
  <2>. QED  BY <1>3, <2>1 DEF EventsAssigned, Idle, EverAssigned, WillBeAssigned
<1>8. CASE EnterService
  <2>1. call \in Call /\ call # Idle
    BY <1>8, CallFields DEF EnterService, WhereTo
  <2>2. channel' = channel
        /\ call'.account = call.account /\ call'.model = call.model
    BY <1>8, <2>1 DEF EnterService, WhereTo, Call
  <2>. QED  BY <1>3, <1>4, <2>1, <2>2 DEF EventsAssigned, EverAssigned, WillBeAssigned
<1>9. CASE channel' = channel /\ (call' = call \/ call' = Idle)
  BY <1>3, <1>4, <1>9 DEF EventsAssigned, Idle, EverAssigned, WillBeAssigned
<1>. QED
  BY <1>5, <1>6, <1>7, <1>8, <1>9 DEF Next, vars, UnassignModel,
     ConnectAccount, Refuse, StartController, Return, Resubscribe,
     BeginTrading, EndTrading

\* A thread is started for an event, so for a row that is there.
LEMMA TradesStep ==
  ASSUME TypeOK, EventsAssigned, TradesOnlyAssigned, [Next]_vars
  PROVE  TradesOnlyAssigned'
<1>. SUFFICES ASSUME NEW t \in Threads, Live(t)'
              PROVE  WillBeAssigned(threads'[t].account, threads'[t].model)
  BY DEF TradesOnlyAssigned, EverAssigned, WillBeAssigned
<1>1. CASE Live(t) /\ threads'[t].account = threads[t].account
                   /\ threads'[t].model = threads[t].model
  <2>1. threads[t].account \in Accounts
    BY <1>1, ThreadFields DEF Live, Started
  <2>. QED  BY <1>1, <2>1, RowsStay DEF TradesOnlyAssigned
<1>2. ASSUME StartController(t)
      PROVE  WillBeAssigned(threads'[t].account, threads'[t].model)
  <2>1. /\ call \in Call /\ call # Idle
        /\ threads'[t].account = call.account
        /\ threads'[t].model = call.model
    BY <1>2, StartsNew
  <2>2. call.account \in Accounts
    BY <2>1 DEF Call
  <2>. QED  BY <2>1, <2>2, RowsStay DEF EventsAssigned
<1>3. ASSUME NEW u \in Threads, BeginTrading(u) \/ EndTrading(u)
      PROVE  WillBeAssigned(threads'[t].account, threads'[t].model)
  <2>1. /\ threads'[u].account = threads[u].account
        /\ threads'[u].model = threads[u].model
        /\ \A v \in Threads \ {u} : threads'[v] = threads[v]
    BY <1>3, MovesOn DEF BeginTrading, EndTrading
  <2>2. threads[u].at \in {"new", "trading"}
    BY <1>3 DEF BeginTrading, EndTrading
  <2>. QED  BY <1>1, <2>1, <2>2 DEF Live
<1>4. CASE \E u \in Threads \ {t} : StartController(u)
  BY <1>1, <1>4, StartsNew DEF Live
<1>5. CASE Restart
  BY <1>5 DEF Restart, Live, Unused
<1>6. CASE threads' = threads
  BY <1>1, <1>6 DEF Live
<1>. QED
  BY <1>2, <1>3, <1>4, <1>5, <1>6 DEF Next, vars, AssignModel, UnassignModel,
     ConnectAccount, TakeEvent, EnterService, Refuse, Drop, Resubscribe

-----------------------------------------------------------------------------
\* The handler checks for a controller and builds one under the same lock, and
\* nothing else makes an entry.
LEMMA EntriesStep ==
  ASSUME TypeOK, Checked, Entered, [Next]_vars
  PROVE  Checked' /\ Entered'
<1>1. ASSUME NEW t \in Threads, StartController(t)
      PROVE  Checked' /\ Entered'
  <2>1. call' = Idle
    BY <1>1 DEF StartController, Return
  <2>2. /\ call \in Call
        /\ threads'[t].account = call.account
        /\ \A u \in Threads \ {t} : threads'[u] = threads[u]
    BY <1>1, StartsNew
  <2>3. call.account \in Accounts /\ controllers[call.account] = NoOne
    BY <1>1, <2>2 DEF StartController, Checked, HasController, Call
  <2>4. controllers' = [controllers EXCEPT ![call.account] = t]
        /\ controllers \in [Accounts -> Threads \cup {NoOne}]
    BY <1>1 DEF StartController, TypeOK
  <2>5. ASSUME NEW u \in Threads \ {t}, Live(u)'
        PROVE  controllers'[threads'[u].account] = u
    <3>1. Live(u) /\ threads'[u].account = threads[u].account
      BY <2>2, <2>5 DEF Live
    <3>2. controllers[threads[u].account] = u /\ threads[u].account \in Accounts
      BY <3>1, ThreadFields DEF Entered, Live, Started
    <3>3. threads[u].account # call.account
      BY <2>3, <3>2, NoOneElse
    <3>. QED  BY <2>3, <2>4, <3>1, <3>2, <3>3
  <2>6. controllers'[threads'[t].account] = t
    BY <2>2, <2>3, <2>4
  <2>7. Entered'
    BY <2>5, <2>6 DEF Entered
  <2>8. Checked'
    BY <2>1 DEF Checked, Idle
  <2>. QED  BY <2>7, <2>8
<1>2. CASE EnterService
  <2>1. call \in Call
    BY <1>2, CallFields DEF EnterService, WhereTo
  <2>2. /\ call'.account = call.account
        /\ call'.at = IF HasController(call.account) THEN "relock" ELSE "checking"
        /\ controllers' = controllers /\ threads' = threads
    BY <1>2, <2>1 DEF EnterService, WhereTo, Call
  <2>3. Checked'
    BY <2>2 DEF Checked, HasController
  <2>4. Entered'
    BY <2>2 DEF Entered, Live
  <2>. QED  BY <2>3, <2>4
<1>3. ASSUME NEW t \in Threads, BeginTrading(t) \/ EndTrading(t)
      PROVE  Checked' /\ Entered'
  <2>1. /\ threads'[t].account = threads[t].account
        /\ \A u \in Threads \ {t} : threads'[u] = threads[u]
    BY <1>3, MovesOn DEF BeginTrading, EndTrading
  <2>2. threads[t].at \in {"new", "trading"}
    BY <1>3 DEF BeginTrading, EndTrading
  <2>3. controllers' = controllers /\ call' = call
    BY <1>3 DEF BeginTrading, EndTrading
  <2>4. Entered'
    BY <2>1, <2>2, <2>3 DEF Entered, Live
  <2>5. Checked'
    BY <2>3 DEF Checked, HasController
  <2>. QED  BY <2>4, <2>5
<1>4. CASE Restart
  <2>1. call' = Idle /\ threads' = [t \in Threads |-> Unused]
    BY <1>4 DEF Restart
  <2>. QED  BY <2>1 DEF Checked, Entered, Live, Idle, Unused
<1>5. CASE TakeEvent
  <2>1. call'.at = "enter" /\ controllers' = controllers /\ threads' = threads
    BY <1>5 DEF TakeEvent
  <2>. QED  BY <2>1 DEF Checked, Entered, Live
<1>6. CASE /\ controllers' = controllers /\ threads' = threads
           /\ call' \in {call, Idle}
  <2>1. Checked'
    BY <1>6 DEF Checked, HasController, Idle
  <2>2. Entered'
    BY <1>6 DEF Entered, Live
  <2>. QED  BY <2>1, <2>2
<1>. QED
  BY <1>1, <1>2, <1>3, <1>4, <1>5, <1>6 DEF Next, vars, AssignModel,
     UnassignModel, ConnectAccount, Refuse, Return, Drop, Resubscribe

-----------------------------------------------------------------------------
\* The first row of an account stays its first.
LEMMA FirstStays ==
  ASSUME TypeOK, [Next]_vars, NEW a \in Accounts, rows[a] # <<>>
  PROVE  rows'[a] # <<>> /\ rows'[a][1].model = First(a)
<1>1. rows[a] \in Seq(Row)
  BY DEF TypeOK
<1>2. 1 \in DOMAIN rows[a]
  BY <1>1
<1>3. 1 \in DOMAIN rows'[a] /\ rows'[a][1].model = rows[a][1].model
  BY <1>2, RowsKeep DEF RowsKept
<1>. QED  BY <1>3 DEF First

\* Until it ends the server, no step takes an entry or its thread's model away.
LEMMA EntriesStartedStep ==
  ASSUME TypeOK, EventsAssigned, EntriesStarted, [Next]_vars
  PROVE  EntriesStarted'
<1>. SUFFICES ASSUME NEW a \in Accounts, HasController(a)'
              PROVE  rows'[a] # <<>> /\ threads'[controllers'[a]] \in Started
  BY DEF EntriesStarted
<1>1. HasController(a) => controllers[a] \in Threads
  BY DEF TypeOK, HasController
<1>2. ASSUME NEW t \in Threads, StartController(t)
      PROVE  rows'[a] # <<>> /\ threads'[controllers'[a]] \in Started
  <2>1. /\ call \in Call /\ call # Idle
        /\ threads' \in [Threads -> Started \cup {Unused}]
        /\ \A u \in Threads \ {t} : threads'[u] = threads[u]
    BY <1>2, StartsNew
  <2>2. threads' = [threads EXCEPT ![t] = [call EXCEPT !.at = "new"]]
        /\ threads[t] = Unused /\ rows' = rows
        /\ controllers' = [controllers EXCEPT ![call.account] = t]
    BY <1>2 DEF StartController
  <2>3. [call EXCEPT !.at = "new"] \in Started
    BY <2>1 DEF Call, Started
  <2>4. threads'[t] \in Started
    BY <2>2, <2>3 DEF TypeOK
  <2>5. CASE a = call.account
    <3>1. rows[a] # <<>>
      BY <2>1, <2>5 DEF EventsAssigned, EverAssigned
    <3>2. controllers'[a] = t
      BY <2>2, <2>5 DEF TypeOK
    <3>. QED  BY <2>2, <2>4, <3>1, <3>2
  <2>6. CASE a # call.account
    <3>1. controllers'[a] = controllers[a] /\ HasController(a)
      BY <2>2, <2>6 DEF TypeOK, HasController
    <3>2. rows[a] # <<>> /\ threads[controllers[a]] \in Started
      BY <3>1 DEF EntriesStarted
    <3>3. threads'[controllers[a]] \in Started
      BY <1>1, <2>1, <2>4, <3>1, <3>2
    <3>. QED  BY <2>2, <3>1, <3>2, <3>3
  <2>. QED  BY <2>5, <2>6
<1>3. CASE controllers' = controllers
  <2>1. HasController(a) /\ rows[a] # <<>> /\ threads[controllers[a]] \in Started
    BY <1>3 DEF HasController, EntriesStarted
  <2>2. rows'[a] # <<>>
    BY <2>1, FirstStays
  <2>3. ASSUME NEW t \in Threads, BeginTrading(t) \/ EndTrading(t)
        PROVE  threads'[controllers[a]] \in Started
    <3>1. PICK at \in {"trading", "ended"} :
            threads' = [threads EXCEPT ![t] = [@ EXCEPT !.at = at]]
      BY <2>3 DEF BeginTrading, EndTrading
    <3>2. [threads[controllers[a]] EXCEPT !.at = at] \in Started
      BY <2>1 DEF Started
    <3>. QED  BY <1>1, <2>1, <3>1, <3>2 DEF TypeOK
  <2>4. ASSUME threads' = threads
        PROVE  threads'[controllers[a]] \in Started
    BY <2>1, <2>4
  <2>5. ASSUME NEW t \in Threads, StartController(t)
        PROVE  threads'[controllers[a]] \in Started
    BY <1>2, <1>3, <2>5
  <2>6. ~Restart
    BY <1>3, <2>1 DEF Restart, HasController
  <2>7. threads'[controllers[a]] \in Started
    BY <2>3, <2>4, <2>5, <2>6 DEF Next, vars, AssignModel, UnassignModel,
       ConnectAccount, TakeEvent, EnterService, Refuse, Drop, Resubscribe
  <2>. QED  BY <1>3, <2>2, <2>7
<1>4. CASE Restart
  BY <1>4 DEF Restart, HasController
<1>. QED
  BY <1>2, <1>3, <1>4 DEF Next, vars, AssignModel, UnassignModel,
     ConnectAccount, TakeEvent, EnterService, Refuse, Drop, Resubscribe,
     BeginTrading, EndTrading

\* The first assignment of an account goes from the channel to the handler and
\* from the handler to its controller, and no other overtakes it.
LEMMA FirstStep ==
  ASSUME TypeOK, EventsAssigned, Checked, EntriesStarted, FirstComes,
         [Next]_vars
  PROVE  FirstComes'
<1>. SUFFICES ASSUME NEW a \in Accounts, a \notin missed', rows'[a] # <<>>
              PROVE  Served(a)' \/ Handled(a)' \/ Waits(a)'
  BY DEF FirstComes
<1>1. missed' = missed \/ missed \subseteq missed'
  BY DEF Next, vars, AssignModel, Publish, UnassignModel, ConnectAccount,
     TakeEvent, EnterService, Refuse, StartController, Drop, Resubscribe,
     BeginTrading, EndTrading, Restart
<1>2. rows[a] # <<>> => Served(a) \/ Handled(a) \/ Waits(a)
  BY <1>1 DEF FirstComes
<1>0. rows[a] # <<>> => rows'[a][1].model = First(a)
  BY FirstStays
<1>3. channel \in Seq(Event)
  BY DEF TypeOK
<1>4. ASSUME rows[a] # <<>>, Waits(a), ~HasController(a)', call'.account # a,
             channel' = channel \/ \E e \in Event : channel' = Append(channel, e)
      PROVE  Waits(a)'
  <2>1. PICK i \in DOMAIN channel :
          /\ channel[i].account = a
          /\ channel[i].model = First(a)
          /\ \A j \in DOMAIN channel : j < i => channel[j].account # a
    BY <1>4 DEF Waits
  <2>2. /\ i \in DOMAIN channel' /\ channel'[i] = channel[i]
        /\ \A j \in DOMAIN channel' :
             j < i => j \in DOMAIN channel /\ channel'[j] = channel[j]
    BY <1>3, <1>4, <2>1
  <2>3. rows'[a][1].model = First(a)
    BY <1>0, <1>4
  <2>. QED  BY <1>4, <2>1, <2>2, <2>3 DEF Waits, First
<1>5. Idle.account # a /\ \A t \in Threads : threads[t] = Unused => threads[t] \notin Started
  BY NoOneElse DEF Idle, Unused, Started
<1>6. ASSUME NEW b \in Accounts, NEW m \in Models, AssignModel(b, m)
      PROVE  Served(a)' \/ Handled(a)' \/ Waits(a)'
  <2>1. /\ rows' = [rows EXCEPT ![b] = Append(Deactivate(rows[b]), NewRow(m))]
        /\ call' = call /\ controllers' = controllers /\ threads' = threads
    BY <1>6 DEF AssignModel
  <2>2. [account |-> b, model |-> m] \in Event
    BY DEF Event
  <2>3. CASE rows[a] # <<>>
    <3>1. CASE Served(a) \/ Handled(a)
      BY <1>0, <2>1, <2>3, <3>1 DEF Served, Handled, HasController, First
    <3>2. CASE Waits(a)
      <4>1. ~HasController(a)' /\ call'.account # a
        BY <2>1, <3>2 DEF Waits, HasController
      <4>2. channel' = channel \/ \E e \in Event : channel' = Append(channel, e)
        BY <1>6, <2>2 DEF AssignModel, Publish
      <4>. QED  BY <1>4, <2>3, <3>2, <4>1, <4>2
    <3>. QED  BY <1>2, <2>3, <3>1, <3>2
  <2>4. CASE rows[a] = <<>>
    <3>1. b = a
      BY <2>1, <2>4 DEF TypeOK
    <3>2. rows[a] \in Seq(Row) /\ Len(rows[a]) = 0
      BY <2>4 DEF TypeOK
    <3>3. rows'[a] = Append(Deactivate(rows[a]), NewRow(m))
      BY <2>1, <3>1 DEF TypeOK
    <3>4. rows'[a][1].model = m
      BY <3>2, <3>3, AppendKeeps
    <3>5. \A k : ~EverAssigned(a, k)
      BY <2>4 DEF EverAssigned
    <3>6. call.account # a
      BY <1>5, <3>5 DEF EventsAssigned
    <3>7. \A j \in DOMAIN channel : channel[j].account # a
      BY <3>5 DEF EventsAssigned
    <3>8. ~HasController(a)
      BY <2>4 DEF EntriesStarted
    <3>9. channel' = Append(channel, [account |-> a, model |-> m])
      BY <1>6, <3>1 DEF AssignModel, Publish
    <3>10. /\ Len(channel) + 1 \in DOMAIN channel'
           /\ channel'[Len(channel) + 1] = [account |-> a, model |-> m]
           /\ \A j \in DOMAIN channel' :
                j < Len(channel) + 1 => /\ j \in DOMAIN channel
                                        /\ channel'[j] = channel[j]
      BY <1>3, <2>2, <3>1, <3>9
    <3>11. ~HasController(a)' /\ call'.account # a
      BY <2>1, <3>6, <3>8 DEF HasController
    <3>. QED  BY <3>4, <3>7, <3>10, <3>11 DEF Waits, First
  <2>. QED  BY <2>3, <2>4
<1>7. ASSUME rows[a] # <<>>, channel' = channel, controllers' = controllers,
             call'.account = call.account, call'.model = call.model,
             HasController(a) =>
               threads'[controllers[a]].model = threads[controllers[a]].model
      PROVE  Served(a)' \/ Handled(a)' \/ Waits(a)'
  <2>1. CASE Served(a)
    BY <1>0, <1>7, <2>1 DEF Served, HasController, First
  <2>2. CASE Handled(a)
    BY <1>0, <1>7, <2>2 DEF Handled, HasController, First
  <2>3. CASE Waits(a)
    <3>1. ~HasController(a)' /\ call'.account # a
      BY <1>7, <2>3 DEF Waits, HasController
    <3>. QED  BY <1>4, <1>7, <2>3, <3>1
  <2>. QED  BY <1>2, <1>7, <2>1, <2>2, <2>3
<1>8. rows' = rows => rows[a] # <<>>
  OBVIOUS
<1>9. ASSUME NEW b \in Accounts, UnassignModel(b)
      PROVE  Served(a)' \/ Handled(a)' \/ Waits(a)'
  <2>1. rows' = [rows EXCEPT ![b] = Deactivate(rows[b])] /\ channel' = channel
        /\ controllers' = controllers /\ call' = call /\ threads' = threads
    BY <1>9 DEF UnassignModel
  <2>2. rows[a] # <<>>
    <3>1. CASE a = b
      <4>1. rows'[a] = Deactivate(rows[a]) /\ rows[a] \in Seq(Row)
        BY <2>1, <3>1 DEF TypeOK
      <4>. QED  BY <4>1, DeactivateKeeps
    <3>2. CASE a # b
      BY <2>1, <3>2 DEF TypeOK
    <3>. QED  BY <3>1, <3>2
  <2>. QED  BY <1>7, <2>1, <2>2
<1>10. CASE TakeEvent
  <2>1. /\ channel # <<>> /\ channel' = Tail(channel) /\ call = Idle
        /\ controllers' = controllers /\ threads' = threads /\ rows' = rows
        /\ call'.account = Head(channel).account
        /\ call'.model = Head(channel).model
    BY <1>10 DEF TakeEvent
  <2>2. /\ Head(channel) = channel[1]
        /\ \A i \in DOMAIN channel' : i + 1 \in DOMAIN channel
                                     /\ channel'[i] = channel[i + 1]
        /\ \A i \in DOMAIN channel : i # 1 => i - 1 \in DOMAIN channel'
        /\ 1 \in DOMAIN channel
        /\ DOMAIN channel \subseteq Nat \ {0} /\ DOMAIN channel' \subseteq Nat
    BY <1>3, <2>1
  <2>3. ~Handled(a)
    BY <1>5, <2>1 DEF Handled
  <2>4. CASE Served(a)
    BY <2>1, <2>4 DEF Served, HasController, First
  <2>5. CASE Waits(a)
    <3>1. PICK i \in DOMAIN channel :
            /\ channel[i].account = a
            /\ channel[i].model = First(a)
            /\ \A j \in DOMAIN channel : j < i => channel[j].account # a
      BY <2>5 DEF Waits
    <3>2. ~HasController(a)'
      BY <2>1, <2>5 DEF Waits, HasController
    <3>3. CASE i = 1
      BY <2>1, <2>2, <3>1, <3>2, <3>3 DEF Handled, First
    <3>4. CASE i # 1
      <4>1. i \in Nat /\ 1 < i
        BY <2>2, <3>4
      <4>2. call'.account # a
        BY <2>1, <2>2, <3>1, <4>1
      <4>3. i - 1 \in DOMAIN channel' /\ channel'[i - 1] = channel[i]
        BY <2>2, <3>4, <4>1
      <4>4. \A j \in DOMAIN channel' : j < i - 1 => channel'[j].account # a
        BY <2>2, <3>1, <4>1
      <4>. QED  BY <2>1, <3>1, <3>2, <4>2, <4>3, <4>4 DEF Waits, First
    <3>. QED  BY <3>3, <3>4
  <2>. QED  BY <1>2, <1>8, <2>1, <2>3, <2>4, <2>5
<1>11. CASE EnterService
  <2>1. call \in Call
    BY <1>11, CallFields DEF EnterService, WhereTo
  <2>2. call'.account = call.account /\ call'.model = call.model
    BY <1>11, <2>1 DEF EnterService, WhereTo, Call
  <2>. QED  BY <1>7, <1>8, <1>11, <2>2 DEF EnterService
<1>12. CASE Refuse
  <2>1. call.account # a /\ call'.account # a
    BY <1>5, <1>12 DEF Refuse, Return
  <2>2. /\ rows' = rows /\ channel' = channel
        /\ controllers' = controllers /\ threads' = threads
    BY <1>12 DEF Refuse
  <2>3. ~Handled(a)
    BY <2>1 DEF Handled
  <2>4. CASE Served(a)
    BY <2>2, <2>4 DEF Served, HasController, First
  <2>5. CASE Waits(a)
    <3>1. ~HasController(a)'
      BY <2>2, <2>5 DEF Waits, HasController
    <3>. QED  BY <1>4, <1>8, <2>1, <2>2, <2>5, <3>1
  <2>. QED  BY <1>2, <1>8, <2>2, <2>3, <2>4, <2>5
<1>13. ASSUME NEW t \in Threads, StartController(t)
       PROVE  Served(a)' \/ Handled(a)' \/ Waits(a)'
  <2>1. /\ call.at = "checking" /\ threads[t] = Unused /\ rows' = rows
        /\ controllers' = [controllers EXCEPT ![call.account] = t]
        /\ channel' = channel /\ call' = Idle
    BY <1>13 DEF StartController, Return
  <2>2. threads'[t].model = call.model
        /\ \A u \in Threads \ {t} : threads'[u] = threads[u]
    BY <1>13, StartsNew
  <2>3. controllers \in [Accounts -> Threads \cup {NoOne}]
    BY DEF TypeOK
  <2>4. CASE call.account = a
    <3>1. ~HasController(a)
      BY <2>1, <2>4 DEF Checked
    <3>2. Handled(a)
      BY <1>2, <1>8, <2>1, <2>4, <3>1 DEF Served, Waits
    <3>3. controllers'[a] = t /\ t # NoOne
      BY <2>1, <2>3, <2>4, NoOneElse
    <3>. QED  BY <2>1, <2>2, <3>2, <3>3 DEF Served, Handled, HasController, First
  <2>5. CASE call.account # a
    <3>1. ~Handled(a)
      BY <2>5 DEF Handled
    <3>2. controllers'[a] = controllers[a]
      BY <2>1, <2>3, <2>5
    <3>3. CASE Served(a)
      <4>1. controllers[a] \in Threads \ {t}
        BY <1>5, <2>1, <2>3, <3>3 DEF Served, HasController, EntriesStarted
      <4>. QED  BY <2>1, <2>2, <3>2, <3>3, <4>1 DEF Served, HasController, First
    <3>4. CASE Waits(a)
      <4>1. ~HasController(a)' /\ call'.account # a
        BY <1>5, <2>1, <3>2, <3>4 DEF Waits, HasController
      <4>. QED  BY <1>4, <1>8, <2>1, <3>4, <4>1
    <3>. QED  BY <1>2, <1>8, <2>1, <3>1, <3>3, <3>4
  <2>. QED  BY <2>4, <2>5
<1>14. CASE Drop
  <2>1. /\ rows' = rows /\ call' = call
        /\ controllers' = controllers /\ threads' = threads
    BY <1>14 DEF Drop
  <2>2. ~Waits(a)
    BY <1>14 DEF Drop, Waits
  <2>. QED  BY <1>2, <1>8, <2>1, <2>2 DEF Served, Handled, HasController, First
<1>15. ASSUME NEW t \in Threads, BeginTrading(t) \/ EndTrading(t)
       PROVE  Served(a)' \/ Handled(a)' \/ Waits(a)'
  <2>1. /\ threads'[t].model = threads[t].model
        /\ \A u \in Threads \ {t} : threads'[u] = threads[u]
    BY <1>15, MovesOn DEF BeginTrading, EndTrading
  <2>2. HasController(a) => controllers[a] \in Threads
    BY DEF TypeOK, HasController
  <2>3. /\ rows' = rows /\ channel' = channel /\ call' = call
        /\ controllers' = controllers
    BY <1>15 DEF BeginTrading, EndTrading
  <2>. QED  BY <1>7, <1>8, <2>1, <2>2, <2>3
<1>16. ~Restart
  BY <1>8 DEF Restart
<1>17. CASE /\ rows' = rows /\ channel' = channel /\ call' = call
            /\ controllers' = controllers /\ threads' = threads
  BY <1>7, <1>8, <1>17
<1>. QED
  BY <1>6, <1>9, <1>10, <1>11, <1>12, <1>13, <1>14, <1>15, <1>16, <1>17
     DEF Next, vars, ConnectAccount, Resubscribe

-----------------------------------------------------------------------------
LEMMA Invariance == Spec => []Inv
<1>1. Init => Inv
  <2>. SUFFICES ASSUME Init  PROVE Inv
    OBVIOUS
  <2>1. channel = <<>> /\ call = Idle
    BY DEF Init
  <2>2. \A t \in Threads : ~Live(t)
    BY DEF Init, Live, Unused
  <2>3. EventsAssigned /\ Checked
    BY <2>1 DEF EventsAssigned, Checked, Idle
  <2>4. TradesOnlyAssigned /\ Entered
    BY <2>2 DEF TradesOnlyAssigned, Entered
  <2>5. EntriesStarted /\ FirstComes
    BY DEF Init, EntriesStarted, FirstComes, HasController
  <2>. QED  BY <2>3, <2>4, <2>5, TypeInit DEF Inv
<1>2. Inv /\ [Next]_vars => Inv'
  BY TypeStep, EventsStep, TradesStep, EntriesStep, EntriesStartedStep,
     FirstStep DEF Inv
<1>. QED  BY <1>1, <1>2, PTL DEF Spec

\* Every variable keeps its type, and the lock is held exactly inside the
\* handler: no return of it, refusal included, leaves the lock held.
THEOREM TypeOKHolds == Spec => []TypeOK
<1>1. Inv => TypeOK
  BY DEF Inv
<1>. QED  BY <1>1, Invariance, PTL

\* A thread trades only what a committed row of the table assigned to its
\* account, with any number of accounts, lost events and restarts.
THEOREM TradesOnlyAssignedHolds == Spec => []TradesOnlyAssigned
<1>1. Inv => TradesOnlyAssigned
  BY DEF Inv
<1>. QED  BY <1>1, Invariance, PTL

\* No account is traded by two threads: both would be its one entry.
THEOREM OneThreadPerAccountHolds == Spec => []OneThreadPerAccount
<1>1. Inv => OneThreadPerAccount
  BY DEF Inv, Entered, OneThreadPerAccount
<1>. QED  BY <1>1, Invariance, PTL

\* Whatever is assigned later, an account that missed no event keeps trading the
\* first model it was assigned: with nothing under way, that assignment is
\* neither in the handler nor in the channel, so it has its controller.
THEOREM FirstAssignmentStandsHolds == Spec => []FirstAssignmentStands
<1>1. Inv => FirstAssignmentStands
  <2>. SUFFICES ASSUME Inv, call = Idle, channel = <<>>,
                       NEW a \in Accounts \ missed, rows[a] # <<>>
                PROVE  HasController(a)
                       /\ threads[controllers[a]].model = rows[a][1].model
    BY DEF FirstAssignmentStands
  <2>1. ~Handled(a)
    BY NoOneElse DEF Handled, Idle
  <2>2. ~Waits(a)
    BY DEF Waits
  <2>3. Served(a)
    BY <2>1, <2>2 DEF Inv, FirstComes
  <2>. QED  BY <2>3 DEF Served, First
<1>. QED  BY <1>1, Invariance, PTL

-----------------------------------------------------------------------------
LEMMA KeptStep ==
  ASSUME TypeOK, EventsAssigned, [Next]_vars, NEW a \in Accounts, UnderWay(a)
  PROVE  UnderWay(a)' \/ HasController(a)' \/ a \in missed'
<1>1. channel \in Seq(Event) /\ missed \subseteq Accounts
  BY DEF TypeOK
<1>2. CASE UNCHANGED <<channel, call>>
  BY <1>2 DEF UnderWay, Queued
<1>3. ASSUME NEW b \in Accounts, NEW m \in Models, AssignModel(b, m)
      PROVE  UnderWay(a)'
  <2>1. call' = call
    BY <1>3 DEF AssignModel
  <2>2. CASE channel' = channel
    BY <2>1, <2>2 DEF UnderWay, Queued
  <2>3. CASE channel' = Append(channel, [account |-> b, model |-> m])
    <3>1. \A i \in DOMAIN channel : i \in DOMAIN channel' /\ channel'[i] = channel[i]
      BY <1>1, <2>3
    <3> QED BY <2>1, <3>1 DEF UnderWay, Queued
  <2> QED BY <1>3, <2>2, <2>3 DEF AssignModel, Publish
<1>4. CASE TakeEvent
  <2>1. /\ channel # <<>> /\ channel' = Tail(channel) /\ call = Idle
        /\ call'.account = Head(channel).account
    BY <1>4 DEF TakeEvent
  <2>2. call.account # a
    BY <2>1, NoOneElse DEF Idle
  <2>3. PICK i \in DOMAIN channel : channel[i].account = a
    BY <2>2 DEF UnderWay, Queued
  <2>4. CASE i = 1
    <3>1. Head(channel) = channel[1]
      BY <1>1, <2>1
    <3> QED BY <2>1, <2>3, <2>4, <3>1 DEF UnderWay
  <2>5. CASE i # 1
    <3>1. i - 1 \in DOMAIN Tail(channel) /\ Tail(channel)[i - 1] = channel[i]
      BY <1>1, <2>1, <2>5
    <3> QED BY <2>1, <2>3, <3>1 DEF UnderWay, Queued
  <2> QED BY <2>4, <2>5
<1>5. CASE EnterService
  <2>1. call \in Call
    BY <1>5, CallFields DEF EnterService, WhereTo
  <2>2. call'.account = call.account /\ channel' = channel
    BY <1>5, <2>1 DEF EnterService, WhereTo, Call
  <2> QED BY <2>2 DEF UnderWay, Queued
<1>6. CASE Refuse
  BY <1>6 DEF Refuse, UnderWay, Queued
<1>7. ASSUME NEW t \in Threads, StartController(t)
      PROVE  UnderWay(a)' \/ HasController(a)'
  <2>1. channel' = channel /\ controllers' = [controllers EXCEPT ![call.account] = t]
    BY <1>7 DEF StartController
  <2>2. CASE call.account = a
    <3>1. controllers'[a] = t
      BY <2>1, <2>2 DEF TypeOK
    <3> QED BY <3>1, NoOneElse DEF HasController
  <2>3. CASE Queued(a)
    BY <2>1, <2>3 DEF UnderWay, Queued
  <2> QED BY <2>2, <2>3 DEF UnderWay
<1>8. CASE Drop
  BY <1>8 DEF Drop, UnderWay, Queued
<1>9. CASE Restart
  <2>1. rows[a] # <<>>
    <3>1. CASE Queued(a)
      BY <3>1 DEF Queued, EventsAssigned, EverAssigned
    <3>2. CASE call.account = a
      <4>1. call # Idle
        BY <3>2, NoOneElse DEF Idle
      <4> QED BY <3>2, <4>1 DEF EventsAssigned, EverAssigned
    <3> QED BY <3>1, <3>2 DEF UnderWay
  <2> QED BY <1>9, <2>1 DEF Restart
<1> QED
  BY <1>2, <1>3, <1>4, <1>5, <1>6, <1>7, <1>8, <1>9 DEF Next, vars, UnassignModel,
     ConnectAccount, Resubscribe, BeginTrading, EndTrading

LEMMA StandsStep ==
  ASSUME TypeOK, Checked, EntriesStarted, [Next]_vars, restarts' = restarts
  PROVE  /\ \A a \in Accounts : HasController(a) =>
              /\ controllers'[a] = controllers[a]
              /\ threads'[controllers[a]].model = threads[controllers[a]].model
         /\ Wedged => Wedged' /\ \A a \in Accounts : ~HasController(a) => ~HasController(a)'
<1>1. \A a \in Accounts : HasController(a) =>
        controllers[a] \in Threads /\ threads[controllers[a]] \in Started
  BY DEF TypeOK, HasController, EntriesStarted
<1>2. ~Restart
  BY DEF Restart, TypeOK
<1>3. ASSUME NEW t \in Threads, StartController(t)
      PROVE  /\ ~Wedged
             /\ \A a \in Accounts : HasController(a) =>
                  /\ controllers'[a] = controllers[a]
                  /\ threads'[controllers[a]].model = threads[controllers[a]].model
  <2>1. /\ threads[t] = Unused /\ call.at = "checking"
        /\ controllers' = [controllers EXCEPT ![call.account] = t]
    BY <1>3 DEF StartController
  <2>2. ~HasController(call.account) /\ ~Wedged
    BY <2>1 DEF Checked, Wedged
  <2>3. \A u \in Threads \ {t} : threads'[u] = threads[u]
    BY <1>3, StartsNew
  <2>4. Unused \notin Started
    BY DEF Unused, Started
  <2>5. ASSUME NEW a \in Accounts, HasController(a)
        PROVE  controllers'[a] = controllers[a] /\ controllers[a] # t
    <3>1. a # call.account
      BY <2>2, <2>5
    <3> QED BY <1>1, <2>1, <2>4, <2>5, <3>1 DEF TypeOK
  <2> QED BY <1>1, <2>2, <2>3, <2>5
<1>4. ASSUME NEW t \in Threads, BeginTrading(t) \/ EndTrading(t)
      PROVE  /\ controllers' = controllers /\ call' = call
             /\ \A u \in Threads : threads'[u].model = threads[u].model
  <2>1. \E at \in {"trading", "ended"} : threads' = [threads EXCEPT ![t] = [@ EXCEPT !.at = at]]
    BY <1>4 DEF BeginTrading, EndTrading
  <2>2. threads[t].at # "unused"
    BY <1>4 DEF BeginTrading, EndTrading
  <2>3. threads'[t].model = threads[t].model /\ \A u \in Threads \ {t} : threads'[u] = threads[u]
    BY <2>1, <2>2, MovesOn
  <2> QED BY <1>4, <2>3 DEF BeginTrading, EndTrading
<1>5. ASSUME ~\E t \in Threads : StartController(t) \/ BeginTrading(t) \/ EndTrading(t)
      PROVE  controllers' = controllers /\ threads' = threads
  BY <1>2, <1>5 DEF Next, vars, AssignModel, UnassignModel, ConnectAccount, TakeEvent,
     EnterService, Refuse, Drop, Resubscribe
<1>6. ASSUME Wedged
      PROVE  call' = call
  <2>1. call # Idle /\ call.at \notin {"enter", "checking"}
    BY <1>6 DEF Wedged, Idle
  <2>2. ~TakeEvent /\ ~EnterService /\ ~Refuse /\ \A t \in Threads : ~StartController(t)
    BY <2>1 DEF TakeEvent, EnterService, Refuse, StartController
  <2> QED BY <1>2, <2>2 DEF Next, vars, AssignModel, UnassignModel, ConnectAccount, Drop,
     Resubscribe, BeginTrading, EndTrading
<1>7. ASSUME NEW a \in Accounts, HasController(a)
      PROVE  /\ controllers'[a] = controllers[a]
             /\ threads'[controllers[a]].model = threads[controllers[a]].model
  BY <1>1, <1>3, <1>4, <1>5, <1>7
<1>8. ASSUME Wedged
      PROVE  Wedged' /\ \A a \in Accounts : ~HasController(a) => ~HasController(a)'
  <2>1. controllers' = controllers
    BY <1>3, <1>4, <1>5, <1>8
  <2> QED BY <1>6, <1>8, <2>1 DEF Wedged, HasController
<1> QED BY <1>7, <1>8

\* An event the channel delivered is never forgotten: each step leaves it there,
\* hands it on, gives the account its controller, or counts it as missed.
THEOREM EventsKeptHolds == Spec => EventsKept
<1>1. Inv /\ [Next]_vars =>
        [\A a \in Accounts :
           UnderWay(a) => UnderWay(a)' \/ HasController(a)' \/ a \in missed']_vars
  BY KeptStep DEF Inv
<1>. QED  BY <1>1, Invariance, PTL DEF Spec, EventsKept

\* No reassignment swaps a model: while the process lives, an account keeps its
\* controller and that one its model, and once the service waits for the lock it
\* holds no account gets a controller any more.
THEOREM EntriesStandHolds == Spec => EntriesStand
<1>1. Inv /\ [Next]_vars =>
        [restarts' = restarts =>
           /\ \A a \in Accounts : HasController(a) =>
                /\ controllers'[a] = controllers[a]
                /\ threads'[controllers[a]].model = threads[controllers[a]].model
           /\ Wedged => Wedged' /\ \A a \in Accounts : ~HasController(a) => ~HasController(a)'
        ]_vars
  BY StandsStep DEF Inv
<1>. QED  BY <1>1, Invariance, PTL DEF Spec, EntriesStand
=============================================================================
