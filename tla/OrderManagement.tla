--------------------------- MODULE OrderManagement ---------------------------
(***************************************************************************)
(* The order management system of risk/oms.py: orders, their fills, the    *)
(* position each symbol has, the idempotency keys, and the two stores the  *)
(* state is written to (the orders table and a JSON file).  Every public   *)
(* method runs under one re-entrant lock, so a method is one action.  A    *)
(* crash and the constructor that follows it are the action Restart; a     *)
(* crash inside a method shows as a failed write followed by Restart.      *)
(*                                                                         *)
(* Left out: prices and P&L, order metadata, and the two update callbacks, *)
(* which no caller in the program installs.                                *)
(***************************************************************************)
EXTENDS Integers, FiniteSets, FiniteSetsExt

CONSTANTS
  ClientIds,     \* client_order_id values
  NoClient,      \* the empty client_order_id: no idempotency asked for
  Symbols,       \* traded instruments
  Quantities,    \* order quantities callers submit
  UpdateStates,  \* states callers pass to update_order_state
  BrokerViews,   \* broker position reports passed to sync_positions
  UseDatabase,   \* a database was given to the constructor
  UseFile,       \* a persistence_path was given to the constructor
  Faults,        \* what may go wrong with a store, see FaultKinds
  MaxOrders,     \* bound on orders submitted
  MaxFilled,     \* bound on the filled quantity of an order
  MaxRestarts    \* bound on restarts

FaultKinds == {"dbWrite",        \* an upsert of an order row fails
               "dbLoad",         \* the query for open orders fails
               "dbReconstruct",  \* the query for filled orders fails
               "fileWrite"}      \* writing the JSON file fails

ASSUME ClientAssumption == NoClient \notin ClientIds
ASSUME QuantityAssumption == Quantities \subseteq Nat
ASSUME StoreAssumption == /\ UseDatabase \in BOOLEAN
                          /\ UseFile \in BOOLEAN
                          /\ Faults \subseteq FaultKinds
ASSUME BoundAssumption == /\ MaxOrders \in Nat
                          /\ MaxFilled \in Nat
                          /\ MaxRestarts \in Nat
ASSUME ViewAssumption == BrokerViews \subseteq [Symbols -> Int]

Sides == {"BUY", "SELL"}
Terminal == {"filled", "cancelled", "rejected", "expired"}
States == Terminal \cup {"pending_new", "new", "partially_filled",
                         "pending_cancel"}
ASSUME UpdateAssumption == UpdateStates \subseteq States

OrderIds == 1 .. MaxOrders

Orders == [client : ClientIds \cup {NoClient}, symbol : Symbols, side : Sides,
           quantity : Nat, state : States, filled : Nat]

VARIABLES
  orders,     \* self.orders: order id -> order
  positions,  \* self.positions: symbol -> net quantity
  keys,       \* self._idempotency_keys: client id -> order id
  db,         \* the orders table: order id -> row
  file,       \* the JSON file: {what it holds}, {} if absent or unreadable
  issued,     \* order ids drawn so far: the n-th uuid is the number n
  restarts,   \* how often the process was restarted
  answers,    \* history: order ids submit_order has returned per client id
  booked,     \* history: net of all fills handle_fill accepted, per symbol
  intact      \* history: no statement on the database has failed

memory == <<orders, positions, keys>>
stores == <<db, file>>
history == <<answers, booked>>
vars == <<memory, stores, issued, restarts, history, intact>>

IsActive(order) == order.state \notin Terminal
\* Mutant of ActiveRows: orders waiting for a cancel count as done.
ActiveRowsButCancelling ==
  {id \in DOMAIN db : IsActive(db[id]) /\ db[id].state # "pending_cancel"}

ActiveRows == {id \in DOMAIN db : IsActive(db[id])}
Signed(order, quantity) == IF order.side = "BUY" THEN quantity ELSE -quantity
Snapshot == [orders |-> orders, positions |-> positions, keys |-> keys]
Flat == [s \in Symbols |-> 0]
Empty == [x \in {} |-> x]

-----------------------------------------------------------------------------
(* Writing to the stores.  Both swallow every exception.                   *)

\* _persist_order_to_db for each order in changed: an upsert on the id.
PersistOrderToDb(changed) ==
  \E written \in SUBSET changed :
    /\ IF UseDatabase THEN written = changed \/ "dbWrite" \in Faults
                      ELSE written = {}
    /\ intact' = (intact /\ (UseDatabase => written = changed))
    /\ db' = [id \in DOMAIN db \cup written |->
                IF id \in written THEN orders'[id] ELSE db[id]]

\* _persist: the file is opened for writing, which truncates it, and then
\* the whole state is dumped into it.
PersistFile ==
  \/ UseFile /\ file' = {Snapshot'}
  \/ UseFile /\ "fileWrite" \in Faults /\ file' \in {file, {}}
  \/ ~UseFile /\ UNCHANGED file

Persist(changed) == PersistOrderToDb(changed) /\ PersistFile
-----------------------------------------------------------------------------
Init ==
  /\ orders = Empty /\ positions = Flat /\ keys = Empty
  /\ db = Empty /\ file = {}
  /\ issued = 0 /\ restarts = 0
  /\ answers = [c \in ClientIds |-> {}] /\ booked = Flat
  /\ intact = TRUE

\* Mutant of NewOrder: the enum's name is kept for its value.
NewOrderByName(client, symbol, side, quantity) ==
  [client |-> client, symbol |-> symbol, side |-> side, quantity |-> quantity,
   state |-> "PENDING_NEW", filled |-> 0]

NewOrder(client, symbol, side, quantity) ==
  [client |-> client, symbol |-> symbol, side |-> side, quantity |-> quantity,
   state |-> "pending_new", filled |-> 0]

\* submit_order with a client id it has not seen, or with none.
SubmitOrder(client, symbol, side, quantity) ==
  LET id == issued + 1 IN
  /\ issued < MaxOrders
  /\ client \notin DOMAIN keys
  /\ quantity > 0
  /\ orders' = [o \in DOMAIN orders \cup {id} |->
                  IF o = id THEN NewOrder(client, symbol, side, quantity)
                            ELSE orders[o]]
  /\ keys' = IF client = NoClient THEN keys
             ELSE [c \in DOMAIN keys \cup {client} |->
                     IF c = client THEN id ELSE keys[c]]
  /\ issued' = id
  /\ answers' = IF client = NoClient THEN answers
                ELSE [answers EXCEPT ![client] = @ \cup {id}]
  /\ UNCHANGED <<positions, restarts, booked>>
  /\ Persist({id})

\* submit_order with a client id it knows: the existing id is returned.
SubmitAgain(client) ==
  /\ client \in DOMAIN keys
  /\ answers' = [answers EXCEPT ![client] = @ \cup {keys[client]}]
  /\ UNCHANGED <<memory, stores, issued, restarts, booked, intact>>

\* The order is put in a state, whatever state it was in, and written out.
SetState(id, state) ==
  /\ orders' = [orders EXCEPT ![id].state = state]
  /\ UNCHANGED <<positions, keys, issued, restarts, history>>
  /\ Persist({id})

\* update_order_state; confirm_cancel is the case state = "cancelled".
UpdateOrderState(id, state) == SetState(id, state)

\* handle_rejection
HandleRejection(id) == SetState(id, "rejected")

\* cancel_order: terminal orders are left alone.
CancelOrder(id) == IsActive(orders[id]) /\ SetState(id, "pending_cancel")

\* cancel_all_orders: cancel_order on every active order, under one lock. The
\* file is written once per order: a failed last write leaves an earlier one.
CancelAllOrders ==
  LET open == {id \in DOMAIN orders : IsActive(orders[id])}
      Cancelled(ids) == [id \in DOMAIN orders |->
                           IF id \in ids
                           THEN [orders[id] EXCEPT !.state = "pending_cancel"]
                           ELSE orders[id]]
  IN
  /\ open # {}
  /\ orders' = Cancelled(open)
  /\ UNCHANGED <<positions, keys, issued, restarts, history>>
  /\ PersistOrderToDb(open)
  /\ \/ PersistFile
     \/ /\ UseFile /\ "fileWrite" \in Faults
        /\ \E ids \in SUBSET open :
             file' = {[Snapshot EXCEPT !.orders = Cancelled(ids)]}

\* handle_fill for an order it finds: no look at the fill id or at the state.
HandleFill(id, quantity) ==
  LET order == orders[id]
      filled == order.filled + quantity
      state == IF filled >= order.quantity THEN "filled" ELSE "partially_filled"
      delta == Signed(order, quantity)
  IN
  /\ filled <= MaxFilled
  /\ orders' = [orders EXCEPT ![id].filled = filled, ![id].state = state]
  /\ positions' = [positions EXCEPT ![order.symbol] = @ + delta]
  /\ booked' = [booked EXCEPT ![order.symbol] = @ + delta]
  /\ UNCHANGED <<keys, issued, restarts, answers>>
  /\ Persist({id})

\* sync_positions: the broker's view replaces the positions; only the file
\* is written.
SyncPositions(view) ==
  /\ positions' = view
  /\ UNCHANGED <<orders, keys, db, issued, restarts, history, intact>>
  /\ PersistFile
-----------------------------------------------------------------------------
(* The constructor of the next process.                                    *)

\* Mutant of ReconstructedPositions: every row counts as bought.
ReconstructedAllBought ==
  [s \in Symbols |->
     MapThenSumSet(LAMBDA id : db[id].filled,
                   {id \in DOMAIN db : db[id].symbol = s
                                       /\ db[id].state = "filled"})]

\* _reconstruct_positions_from_db: rows in state FILLED only.
ReconstructedPositions ==
  [s \in Symbols |->
     MapThenSumSet(LAMBDA id : Signed(db[id], db[id].filled),
                   {id \in DOMAIN db : db[id].symbol = s
                                       /\ db[id].state = "filled"})]

\* Mutant of LoadedKeys: terminal rows leave a key too.
LoadedKeysOfAllRows ==
  [c \in {db[id].client : id \in DOMAIN db} \ {NoClient} |->
     Min({id \in DOMAIN db : db[id].client = c})]

\* Mutant of LoadedKeys: only orders not yet sent leave a key.
LoadedKeysOfNewRows ==
  LET fresh == {id \in DOMAIN db : db[id].state = "pending_new"}
  IN [c \in {db[id].client : id \in fresh} \ {NoClient} |->
        Min({id \in fresh : db[id].client = c})]

\* The keys of the loaded rows; of two rows with one client id the older,
\* which ORDER BY created_at DESC puts last, wins.
LoadedKeys ==
  [c \in {db[id].client : id \in ActiveRows} \ {NoClient} |->
     Min({id \in ActiveRows : db[id].client = c})]

\* _load_from_db: only rows that are not in a terminal state.
LoadFromDb ==
  /\ orders' = [id \in ActiveRows |-> db[id]]
  /\ keys' = LoadedKeys
  /\ \/ positions' = ReconstructedPositions /\ UNCHANGED intact
     \/ "dbReconstruct" \in Faults /\ positions' = Flat /\ intact' = FALSE

\* Mutant of LoadState: the idempotency keys are not restored.
LoadStateWithoutKeys ==
  /\ keys' = Empty
  /\ \/ file = {} /\ orders' = Empty /\ positions' = Flat
     \/ \E saved \in file : orders' = saved.orders /\ positions' = saved.positions

\* Mutant of LoadState: the positions are not restored.
LoadStateWithoutPositions ==
  /\ positions' = Flat
  /\ \/ file = {} /\ orders' = Empty /\ keys' = Empty
     \/ \E saved \in file : orders' = saved.orders /\ keys' = saved.keys

\* _load_state: an unreadable file is the same as none.
LoadState ==
  \/ file = {} /\ orders' = Empty /\ positions' = Flat /\ keys' = Empty
  \/ \E saved \in file : /\ orders' = saved.orders
                         /\ positions' = saved.positions
                         /\ keys' = saved.keys

Restart ==
  /\ restarts < MaxRestarts
  /\ restarts' = restarts + 1
  /\ \/ UseDatabase /\ LoadFromDb
     \/ UseDatabase /\ "dbLoad" \in Faults /\ LoadState /\ intact' = FALSE
     \/ ~UseDatabase /\ LoadState /\ UNCHANGED intact
  /\ UNCHANGED <<stores, issued, history>>
-----------------------------------------------------------------------------
Next ==
  \/ \E client \in ClientIds \cup {NoClient}, symbol \in Symbols, side \in Sides,
        quantity \in Quantities : SubmitOrder(client, symbol, side, quantity)
  \/ \E client \in ClientIds : SubmitAgain(client)
  \/ \E id \in DOMAIN orders, state \in UpdateStates : UpdateOrderState(id, state)
  \/ \E id \in DOMAIN orders : HandleRejection(id) \/ CancelOrder(id)
  \/ \E id \in DOMAIN orders, quantity \in 1 .. MaxFilled : HandleFill(id, quantity)
  \/ CancelAllOrders
  \/ \E view \in BrokerViews : SyncPositions(view)
  \/ Restart

Spec == Init /\ [][Next]_vars
-----------------------------------------------------------------------------
(* Correctness properties.                                                 *)

\* f maps some of the elements of S to elements of T.
MapsSome(f, S, T) == DOMAIN f \subseteq S /\ f \in [DOMAIN f -> T]

\* Every variable but the positions has its type.
OrdersTypeOK ==
  /\ MapsSome(orders, OrderIds, Orders)
  /\ MapsSome(keys, ClientIds, OrderIds)
  /\ MapsSome(db, OrderIds, Orders)
  /\ issued \in 0 .. MaxOrders
  /\ restarts \in 0 .. MaxRestarts
  /\ intact \in BOOLEAN
  /\ answers \in [ClientIds -> SUBSET OrderIds]
  /\ \A saved \in file : /\ MapsSome(saved.orders, OrderIds, Orders)
                          /\ MapsSome(saved.keys, ClientIds, OrderIds)

PositionsTypeOK == positions \in [Symbols -> Int] /\ booked \in [Symbols -> Int]

\* The type invariant.
TypeOK == OrdersTypeOK /\ PositionsTypeOK

\* The idempotency index and the order table agree, whatever was lost or
\* reloaded: a key leads to an order of that client, and every order that has
\* a client id is reachable through a key.
KeysIndexOrders ==
  /\ \A c \in DOMAIN keys : keys[c] \in DOMAIN orders /\ orders[keys[c]].client = c
  /\ \A id \in DOMAIN orders : orders[id].client # NoClient =>
       orders[id].client \in DOMAIN keys

\* One client id never has two live orders, across restarts and failed
\* writes: not two orders in memory, not two open rows in the database, and
\* not an order in memory beside an open row of another one.
OneOpenOrderPerClient ==
  LET Client(id) == IF id \in DOMAIN orders THEN orders[id].client
                                            ELSE db[id].client
  IN \A x, y \in DOMAIN orders \cup ActiveRows :
       Client(x) = Client(y) /\ Client(x) # NoClient => x = y

\* As long as no statement failed, a restart from the database brings back
\* exactly the open orders, in the state and with the filled quantity they had.
OpenOrdersSurvive ==
  [][restarts' # restarts /\ intact' =>
       /\ DOMAIN orders' = {id \in DOMAIN orders : IsActive(orders[id])}
       /\ \A id \in DOMAIN orders' : orders'[id] = orders[id]]_vars

\* The positions rebuilt at a restart are those of all fills ever booked, over
\* every earlier life of the process, if no order was partly filled when it
\* ended or is so now and no statement on the database failed.
RecoveredPositions ==
  [][restarts' # restarts /\ intact'
     /\ (\A id \in DOMAIN db : db[id].filled > 0 => db[id].state = "filled")
     => positions' = booked]_vars

\* A caller that repeats a client id gets the order it got before, however
\* often the process was restarted in between.
Idempotent == \A c \in ClientIds : Cardinality(answers[c]) <= 1

\* Every fill ever accepted is in the positions, across restarts.
PositionsAreBooked == positions = booked

\* With the file store the system implements the abstract ledger.
Ledger == INSTANCE OrderLedger WITH position <- positions
LedgerSpec == Ledger!Spec
=============================================================================
