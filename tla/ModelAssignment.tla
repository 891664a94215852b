--------------------------- MODULE ModelAssignment ---------------------------
(***************************************************************************)
(* How a model comes to trade an account.  The API commits the assignment  *)
(* to the table account_model_assignments and publishes an event on Redis; *)
(* one consumer thread of the trading server takes the events in turn and  *)
(* calls ModelAssignmentService.handle_model_assignment, which, holding    *)
(* the service's lock, builds a TradingController and starts its thread.   *)
(*                                                                         *)
(* The table survives a restart of the trading server; the subscription,   *)
(* the controllers and their threads do not, and nothing reads the table   *)
(* back.  The lock is a threading.Lock: the thread that holds it and asks  *)
(* for it again waits for itself.                                          *)
(*                                                                         *)
(* The consumer thread is the only caller of the service, so that the body *)
(* of handle_model_unassignment, which starts by taking the lock its       *)
(* caller holds, is never reached and has no action here.                  *)
(***************************************************************************)
EXTENDS Naturals, Sequences

CONSTANTS
  Accounts,     \* logins of the MT5 accounts
  Models,       \* model ids
  Threads,      \* trading threads one run of the server can start (a bound)
  NoOne,        \* no thread, no account, no model
  Faults,       \* what may go wrong: see the assumption
  MaxDrops,     \* bound on lost Redis connections
  MaxRestarts   \* bound on restarts of the trading server

ASSUME NoOneAssumption == NoOne \notin Accounts \cup Models \cup Threads

\* "offline": an account may be assigned before its terminal connects;
\* "refuse": a validation or a step of the handler may fail;
\* "publish": the API may fail to publish; "end": a trading loop may end.
ASSUME FaultsAssumption ==
  Faults \subseteq {"offline", "refuse", "publish", "end"}

ASSUME BoundsAssumption == MaxDrops \in Nat /\ MaxRestarts \in Nat

VARIABLES
  rows,         \* rows[a]: the account's rows of account_model_assignments
  channel,      \* events delivered to the subscription and not yet taken
  linked,       \* the consumer's subscription is up
  call,         \* the consumer thread: where it is and the event it handles
  lock,         \* ModelAssignmentService._lock is held
  connected,    \* accounts the trading server knows (Server.get_account)
  controllers,  \* controllers[a]: the account's entry, a thread or NoOne
  threads,      \* threads[t]: what the trading thread t is doing
  missed,       \* history: accounts one of whose events came to nothing
  drops, restarts

vars == <<rows, channel, linked, call, lock, connected, controllers, threads,
          missed, drops, restarts>>

Row == [model: Models, active: BOOLEAN]
Event == [account: Accounts, model: Models]
Call == [at: {"enter", "checking", "relock"}, account: Accounts, model: Models]
Started == [at: {"new", "trading", "ended"}, account: Accounts, model: Models]
Idle == [at |-> "idle", account |-> NoOne, model |-> NoOne]
Unused == [at |-> "unused", account |-> NoOne, model |-> NoOne]

-----------------------------------------------------------------------------
(* The table and the API, which runs in a process of its own *)

Deactivate(rs) == [i \in DOMAIN rs |-> [rs[i] EXCEPT !.active = FALSE]]
NewRow(m) == [model |-> m, active |-> TRUE]

\* The table's constraint UNIQUE (account_id, is_active), checked at commit.
MayCommit(rs) == \A i, j \in DOMAIN rs : rs[i].active = rs[j].active => i = j

Assigned(a, m) == \E i \in DOMAIN rows[a] : rows[a][i] = NewRow(m)
EverAssigned(a, m) == \E i \in DOMAIN rows[a] : rows[a][i].model = m

\* Redis keeps no event for a subscriber that is away.
Publish(a, m) ==
  \/ /\ linked
     /\ channel' = Append(channel, [account |-> a, model |-> m])
     /\ UNCHANGED missed
  \/ /\ ~linked \/ "publish" \in Faults
     /\ missed' = missed \cup {a}
     /\ UNCHANGED channel

\* A commit the constraint rejects raises and changes nothing.
AssignModel(a, m) ==
  /\ rows' = [rows EXCEPT ![a] = Append(Deactivate(@), NewRow(m))]
  /\ MayCommit(rows'[a])
  /\ Publish(a, m)
  /\ UNCHANGED <<linked, call, lock, connected, controllers, threads, drops,
                 restarts>>

\* Unassigning changes the row and tells only the dashboard.
UnassignModel(a) ==
  /\ \E m \in Models : Assigned(a, m)
  /\ rows' = [rows EXCEPT ![a] = Deactivate(@)]
  /\ MayCommit(rows'[a])
  /\ UNCHANGED <<channel, linked, call, lock, connected, controllers, threads,
                 missed, drops, restarts>>

-----------------------------------------------------------------------------
(* The consumer thread and the service it calls *)

TakeEvent ==
  /\ call = Idle
  /\ linked
  /\ channel # <<>>
  /\ call' = [at |-> "enter", account |-> Head(channel).account,
              model |-> Head(channel).model]
  /\ channel' = Tail(channel)
  /\ UNCHANGED <<rows, linked, lock, connected, controllers, threads, missed,
                 drops, restarts>>

\* Mutant of HasController: only a thread that already trades counts.
HasTradingController(a) ==
  /\ controllers[a] # NoOne
  /\ threads[controllers[a]].at = "trading"

HasController(a) == controllers[a] # NoOne

\* Mutant of WhereTo: the account is not looked up.
NeverStops(a) == "checking"

\* Where the handler goes: an account with a controller is unassigned first, by
\* handle_model_unassignment, which takes the lock that is held already.
WhereTo(a) == IF HasController(a) THEN "relock" ELSE "checking"

\* No step leaves "relock".
EnterService ==
  /\ call.at = "enter"
  /\ ~lock
  /\ lock' = TRUE
  /\ call' = [call EXCEPT !.at = WhereTo(call.account)]
  /\ UNCHANGED <<rows, channel, linked, connected, controllers, threads,
                 missed, drops, restarts>>

\* Mutant of Return: the handler returns holding the lock.
ReturnLocked == lock' = lock /\ call' = Idle

\* `with self._lock` releases on every way out of the handler.
Return == lock' = FALSE /\ call' = Idle

Refuse ==
  /\ call.at = "checking"
  /\ call.account \notin connected \/ "refuse" \in Faults
  /\ missed' = missed \cup {call.account}
  /\ Return
  /\ UNCHANGED <<rows, channel, linked, connected, controllers, threads,
                 drops, restarts>>

StartController(t) ==
  /\ call.at = "checking"
  /\ call.account \in connected
  /\ threads[t] = Unused
  /\ threads' = [threads EXCEPT ![t] = [call EXCEPT !.at = "new"]]
  /\ controllers' = [controllers EXCEPT ![call.account] = t]
  /\ Return
  /\ UNCHANGED <<rows, channel, linked, connected, missed, drops, restarts>>

\* The connection to Redis breaks, whatever the consumer is doing: what was
\* delivered and not yet taken is gone.
Drop ==
  /\ linked
  /\ drops < MaxDrops
  /\ drops' = drops + 1
  /\ linked' = FALSE
  /\ missed' = missed \cup {channel[i].account : i \in DOMAIN channel}
  /\ channel' = <<>>
  /\ UNCHANGED <<rows, call, lock, connected, controllers, threads, restarts>>

Resubscribe ==
  /\ call = Idle
  /\ ~linked
  /\ linked' = TRUE
  /\ UNCHANGED <<rows, channel, call, lock, connected, controllers, threads,
                 missed, drops, restarts>>

-----------------------------------------------------------------------------
(* The trading threads and the server *)

\* controller.start sets is_running in the new thread.
BeginTrading(t) ==
  /\ threads[t].at = "new"
  /\ threads' = [threads EXCEPT ![t] = [@ EXCEPT !.at = "trading"]]
  /\ UNCHANGED <<rows, channel, linked, call, lock, connected, controllers,
                 missed, drops, restarts>>

\* A kill or an exception ends the loop; the entry of the service stays.
EndTrading(t) ==
  /\ "end" \in Faults
  /\ threads[t].at \in {"new", "trading"}
  /\ threads' = [threads EXCEPT ![t] = [@ EXCEPT !.at = "ended"]]
  /\ UNCHANGED <<rows, channel, linked, call, lock, connected, controllers,
                 missed, drops, restarts>>

ConnectAccount(a) ==
  /\ a \notin connected
  /\ connected' = connected \cup {a}
  /\ UNCHANGED <<rows, channel, linked, call, lock, controllers, threads,
                 missed, drops, restarts>>

\* The process ends at any moment and is started again: memory is as in Init
\* and the table is not looked at.
Restart ==
  /\ restarts < MaxRestarts
  /\ restarts' = restarts + 1
  /\ channel' = <<>>
  /\ linked' = FALSE
  /\ call' = Idle
  /\ lock' = FALSE
  /\ connected' = IF "offline" \in Faults THEN {} ELSE Accounts
  /\ controllers' = [a \in Accounts |-> NoOne]
  /\ threads' = [t \in Threads |-> Unused]
  /\ missed' = missed \cup {a \in Accounts : rows[a] # <<>>}
  /\ UNCHANGED <<rows, drops>>

Init ==
  /\ rows = [a \in Accounts |-> <<>>]
  /\ channel = <<>>
  /\ linked = FALSE
  /\ call = Idle
  /\ lock = FALSE
  /\ connected = IF "offline" \in Faults THEN {} ELSE Accounts
  /\ controllers = [a \in Accounts |-> NoOne]
  /\ threads = [t \in Threads |-> Unused]
  /\ missed = {}
  /\ drops = 0
  /\ restarts = 0

Next ==
  \/ \E a \in Accounts, m \in Models : AssignModel(a, m)
  \/ \E a \in Accounts : UnassignModel(a)
  \/ \E a \in Accounts : ConnectAccount(a)
  \/ TakeEvent
  \/ EnterService
  \/ Refuse
  \/ \E t \in Threads : StartController(t)
  \/ Drop
  \/ Resubscribe
  \/ \E t \in Threads : BeginTrading(t)
  \/ \E t \in Threads : EndTrading(t)
  \/ Restart

Spec == Init /\ [][Next]_vars

\* The consumer's loop and the started threads run; users, terminals and
\* faults owe nothing.
Fairness ==
  /\ WF_vars(TakeEvent)
  /\ WF_vars(EnterService)
  /\ WF_vars(Refuse \/ \E t \in Threads : StartController(t))
  /\ WF_vars(Resubscribe)
  /\ \A t \in Threads : WF_vars(BeginTrading(t))

FairSpec == Spec /\ Fairness

-----------------------------------------------------------------------------
(* Properties *)

\* Every variable has its type, and the service's lock is held exactly while
\* the consumer thread is inside handle_model_assignment.
TypeOK ==
  /\ rows \in [Accounts -> Seq(Row)]
  /\ channel \in Seq(Event)
  /\ linked \in BOOLEAN
  /\ call \in Call \cup {Idle}
  /\ lock \in BOOLEAN
  /\ lock <=> call.at \in {"checking", "relock"}
  /\ connected \subseteq Accounts
  /\ controllers \in [Accounts -> Threads \cup {NoOne}]
  /\ threads \in [Threads -> Started \cup {Unused}]
  /\ missed \subseteq Accounts
  /\ drops \in 0..MaxDrops
  /\ restarts \in 0..MaxRestarts

Live(t) == threads[t].at \in {"new", "trading"}

\* No account is ever traded by two threads, however often it is assigned and
\* whatever is lost, refused or restarted on the way.
OneThreadPerAccount ==
  \A t, u \in Threads :
    Live(t) /\ Live(u) /\ threads[t].account = threads[u].account => t = u

\* A thread trades a model only on an account to which a committed row of the
\* table assigns that model, active or not: the event follows the commit.
TradesOnlyAssigned ==
  \A t \in Threads :
    Live(t) => EverAssigned(threads[t].account, threads[t].model)

\* Once the consumer has nothing to do, an account that missed no event and was
\* ever assigned has a controller for the FIRST model it was assigned, also when
\* the table says unassigned: later assignments never replace it.
FirstAssignmentStands ==
  call = Idle /\ channel = <<>> =>
    \A a \in Accounts \ missed :
      rows[a] # <<>> =>
        /\ HasController(a)
        /\ threads[controllers[a]].model = rows[a][1].model

Wedged == call.at = "relock"
Queued(a) == \E i \in DOMAIN channel : channel[i].account = a

\* An event that reaches the subscription of an account without a controller
\* gives it one, unless the event is lost or refused or a reassignment has
\* stopped the consumer.
EventsAreServed ==
  \A a \in Accounts :
    Queued(a) ~> (HasController(a) \/ a \in missed \/ Wedged)

\* No step makes an event vanish: whatever is lost, refused or restarted, the
\* account of an event under way has one under way afterwards, or its controller,
\* or has missed one.
UnderWay(a) == Queued(a) \/ call.account = a
EventsKept ==
  [][\A a \in Accounts :
       UnderWay(a) => UnderWay(a)' \/ HasController(a)' \/ a \in missed']_vars

\* Why assigning another model never swaps it: as long as the process lives, an
\* account keeps its controller and the model that one was built for, and a
\* consumer that a reassignment has stopped takes nothing from the channel.
EntriesStand ==
  [][restarts' = restarts =>
       /\ \A a \in Accounts : HasController(a) =>
            /\ controllers'[a] = controllers[a]
            /\ threads'[controllers[a]].model = threads[controllers[a]].model
       /\ Wedged => Wedged' /\ \A a \in Accounts : ~HasController(a) => ~HasController(a)'
     ]_vars

\* "Can change model by assigning a different one": a model that stays the
\* active one of an account all of whose events reached the consumer comes to
\* trade it.
HotSwap ==
  \A a \in Accounts, m \in Models :
    Assigned(a, m) ~>
      \/ ~Assigned(a, m)
      \/ a \in missed
      \/ \E t \in Threads :
           /\ threads[t].at = "trading"
           /\ threads[t].account = a
           /\ threads[t].model = m

=============================================================================
