----------------------- MODULE OrderManagement_proofs -----------------------
(***************************************************************************)
(* Proofs about OrderManagement for every value of its constants: one open *)
(* order per client id; the file store implements the ledger; types; the   *)
(* idempotency index under every fault; and what a restart brings back     *)
(* from the database, which needs lemmas on sums over finite sets.         *)
(***************************************************************************)
EXTENDS OrderManagement, FiniteSetTheorems, TLAPS

\* An order table and a key index that agree: each key leads to an order of
\* its client, and each order with a client id is the one its key leads to.
Book(os, ks) ==
  /\ MapsSome(os, OrderIds, Orders)
  /\ DOMAIN os \subseteq 1 .. issued
  /\ MapsSome(ks, ClientIds, OrderIds)
  /\ \A c \in DOMAIN ks : ks[c] \in DOMAIN os /\ os[ks[c]].client = c
  /\ \A id \in DOMAIN os : os[id].client # NoClient =>
       os[id].client \in DOMAIN ks /\ ks[os[id].client] = id

\* What is known of the rows: ids are old ones, and the open row of a client
\* is the order its key leads to.
RowsInv ==
  /\ MapsSome(db, OrderIds, Orders)
  /\ DOMAIN db \subseteq 1 .. issued
  /\ ~UseDatabase => DOMAIN db = {}
  /\ \A id \in ActiveRows : db[id].client # NoClient =>
       db[id].client \in DOMAIN keys /\ keys[db[id].client] = id

CountersInv ==
  /\ issued \in 0 .. MaxOrders
  /\ restarts \in 0 .. MaxRestarts
  /\ answers \in [ClientIds -> SUBSET OrderIds]

FileInv == \A saved \in file : Book(saved.orders, saved.keys)

\* The inductive invariant behind one open order per client.
IInv == CountersInv /\ Book(orders, keys) /\ RowsInv /\ FileInv

\* What every method that writes an order does to memory: orders stay, keep
\* their client, and keys stay.
Extends ==
  /\ issued <= issued' /\ CountersInv'
  /\ Book(orders, keys)'
  /\ \A c \in DOMAIN keys : c \in DOMAIN keys' /\ keys'[c] = keys[c]

\* A snapshot that agreed agrees when more ids are issued.
LEMMA BookGrows ==
  ASSUME NEW os, NEW ks, Book(os, ks), issued \in Nat, issued' \in Nat,
         issued <= issued'
  PROVE  /\ MapsSome(os, OrderIds, Orders)
         /\ DOMAIN os \subseteq 1 .. issued'
         /\ MapsSome(ks, ClientIds, OrderIds)
         /\ \A c \in DOMAIN ks : ks[c] \in DOMAIN os /\ os[ks[c]].client = c
         /\ \A id \in DOMAIN os : os[id].client # NoClient =>
              os[id].client \in DOMAIN ks /\ ks[os[id].client] = id
BY DEF Book

\* Upserting changed orders keeps what is known of the rows.
LEMMA RowsStep ==
  ASSUME IInv, Extends, NEW changed, changed \subseteq DOMAIN orders',
         PersistOrderToDb(changed)
  PROVE  RowsInv'
<1>1. PICK written \in SUBSET changed :
        /\ IF UseDatabase THEN written = changed \/ "dbWrite" \in Faults
                          ELSE written = {}
        /\ db' = [id \in DOMAIN db \cup written |->
                    IF id \in written THEN orders'[id] ELSE db[id]]
  BY DEF PersistOrderToDb
<1>2. issued \in Nat /\ issued' \in Nat /\ issued <= issued'
  BY BoundAssumption DEF IInv, Extends, CountersInv
<1>3. /\ MapsSome(orders', OrderIds, Orders)
      /\ DOMAIN orders' \subseteq 1 .. issued'
      /\ \A id \in DOMAIN orders' : orders'[id].client # NoClient =>
           orders'[id].client \in DOMAIN keys' /\ keys'[orders'[id].client] = id
  BY DEF Extends, Book
<1>4. DOMAIN db \subseteq 1 .. issued /\ MapsSome(db, OrderIds, Orders)
  BY DEF IInv, RowsInv
<1>5. MapsSome(db', OrderIds, Orders)
  BY <1>1, <1>3, <1>4 DEF MapsSome
<1>6. DOMAIN db' \subseteq 1 .. issued'
  BY <1>1, <1>2, <1>3, <1>4
<1>7. (~UseDatabase => DOMAIN db = {})'
  BY <1>1 DEF IInv, RowsInv
<1>8. ASSUME NEW id \in ActiveRows', db'[id].client # NoClient
      PROVE  db'[id].client \in DOMAIN keys' /\ keys'[db'[id].client] = id
  <2>1. CASE id \in written
    BY <1>1, <1>3, <1>8, <2>1
  <2>2. CASE id \notin written
    <3>1. id \in DOMAIN db /\ db'[id] = db[id]
      BY <1>1, <1>8, <2>2 DEF ActiveRows
    <3>2. id \in ActiveRows
      BY <1>8, <3>1 DEF ActiveRows, IsActive
    <3> QED
      BY <1>8, <3>1, <3>2 DEF IInv, RowsInv, Extends
  <2> QED BY <2>1, <2>2
<1> QED BY <1>5, <1>6, <1>7, <1>8 DEF RowsInv

\* Writing the file keeps its snapshots in agreement.
LEMMA FileStep ==
  ASSUME IInv, Extends, PersistFile
  PROVE  FileInv'
<1>1. issued \in Nat /\ issued' \in Nat /\ issued <= issued'
  BY BoundAssumption DEF IInv, Extends, CountersInv
<1>2. ASSUME NEW saved \in file
      PROVE  Book(saved.orders, saved.keys)'
  BY <1>1, BookGrows DEF IInv, FileInv, Book
<1>3. Book(Snapshot.orders, Snapshot.keys)'
  BY DEF Extends, Snapshot
<1>4. file' \subseteq file \cup {Snapshot'}
  BY DEF PersistFile
<1> QED BY <1>2, <1>3, <1>4 DEF FileInv

LEMMA PersistStep ==
  ASSUME IInv, Extends, NEW changed, changed \subseteq DOMAIN orders',
         Persist(changed)
  PROVE  IInv'
BY RowsStep, FileStep DEF Persist, IInv, Extends

\* Changing orders without touching their ids or clients leaves the index as
\* it is.
LEMMA SameOrdersExtend ==
  ASSUME IInv, MapsSome(orders', OrderIds, Orders),
         DOMAIN orders' = DOMAIN orders,
         \A id \in DOMAIN orders : orders'[id].client = orders[id].client,
         UNCHANGED <<keys, issued, restarts, answers>>
  PROVE  Extends
<1>1. CountersInv'
  BY DEF IInv, CountersInv
<1>2. issued \in Nat
  BY BoundAssumption DEF IInv, CountersInv
<1> QED BY <1>1, <1>2 DEF IInv, Book, Extends

LEMMA InitInv == Init => IInv
<1> SUFFICES ASSUME Init PROVE IInv
  OBVIOUS
<1>1. CountersInv
  BY BoundAssumption DEF Init, CountersInv
<1>2. orders = Empty /\ keys = Empty /\ db = Empty /\ DOMAIN Empty = {}
  BY DEF Init, Empty
<1>3. Book(orders, keys)
  BY <1>2 DEF Book, MapsSome
<1>4. RowsInv
  BY <1>2 DEF RowsInv, MapsSome, ActiveRows
<1>5. FileInv
  BY DEF Init, FileInv
<1> QED BY <1>1, <1>3, <1>4, <1>5 DEF IInv

LEMMA SubmitOrderInv ==
  ASSUME IInv, NEW client \in ClientIds \cup {NoClient}, NEW symbol \in Symbols,
         NEW side \in Sides, NEW quantity \in Quantities,
         SubmitOrder(client, symbol, side, quantity)
  PROVE  IInv'
<1> DEFINE id == issued + 1
<1>1. /\ id \in OrderIds /\ id \in 1 .. MaxOrders /\ issued' = id
      /\ issued \in Nat /\ issued' \in Nat
  BY BoundAssumption DEF IInv, CountersInv, SubmitOrder, OrderIds
<1>2. NewOrder(client, symbol, side, quantity) \in Orders
  BY QuantityAssumption DEF NewOrder, Orders, States
<1>3. id \notin DOMAIN orders
  BY <1>1 DEF IInv, Book
<1>4. /\ DOMAIN orders' = DOMAIN orders \cup {id}
      /\ orders'[id].client = client
      /\ \A o \in DOMAIN orders : orders'[o] = orders[o]
  BY <1>3 DEF SubmitOrder, NewOrder
<1>5. MapsSome(orders', OrderIds, Orders)
  BY <1>1, <1>2 DEF IInv, Book, MapsSome, SubmitOrder
<1>6. CountersInv'
  <2>1. answers' \in [ClientIds -> SUBSET OrderIds]
    BY <1>1 DEF IInv, CountersInv, SubmitOrder
  <2> QED
    BY <1>1, <2>1 DEF IInv, CountersInv, SubmitOrder
<1>7. Book(orders, keys)'
  <2>1. DOMAIN orders' \subseteq 1 .. issued'
    BY <1>1, <1>4 DEF IInv, Book
  <2>2. CASE client = NoClient
    <3>1. keys' = keys
      BY <2>2 DEF SubmitOrder
    <3> QED BY <1>4, <1>5, <2>1, <2>2, <3>1 DEF IInv, Book
  <2>3. CASE client # NoClient
    <3>1. keys' = [c \in DOMAIN keys \cup {client} |->
                     IF c = client THEN id ELSE keys[c]]
      BY <2>3 DEF SubmitOrder
    <3>2. MapsSome(keys', ClientIds, OrderIds)
      BY <1>1, <2>3, <3>1 DEF IInv, Book, MapsSome
    <3>3. client \notin DOMAIN keys
      BY DEF SubmitOrder
    <3>4. \A o \in DOMAIN orders : orders[o].client # client
      BY <2>3, <3>3 DEF IInv, Book
    <3>5. \A c \in DOMAIN keys' : keys'[c] \in DOMAIN orders'
                                  /\ orders'[keys'[c]].client = c
      BY <1>4, <3>1, <3>3 DEF IInv, Book
    <3>6. \A o \in DOMAIN orders' : orders'[o].client # NoClient =>
            orders'[o].client \in DOMAIN keys' /\ keys'[orders'[o].client] = o
      BY <1>4, <3>1, <3>3, <3>4 DEF IInv, Book
    <3> QED BY <1>5, <2>1, <3>2, <3>5, <3>6 DEF Book
  <2> QED BY <2>2, <2>3
<1>8. \A c \in DOMAIN keys : c \in DOMAIN keys' /\ keys'[c] = keys[c]
  BY DEF SubmitOrder
<1>9. Extends
  BY <1>1, <1>6, <1>7, <1>8 DEF Extends
<1> QED
  BY <1>1, <1>4, <1>9, PersistStep DEF SubmitOrder

LEMMA SetStateInv ==
  ASSUME IInv, NEW id \in DOMAIN orders, NEW state \in States,
         SetState(id, state)
  PROVE  IInv'
<1>1. orders[id] \in Orders
  BY DEF IInv, Book, MapsSome
<1>2. MapsSome(orders', OrderIds, Orders)
  BY <1>1 DEF IInv, Book, MapsSome, SetState, Orders
<1>3. Extends
  BY <1>1, <1>2, SameOrdersExtend DEF SetState, history, Orders
<1> QED
  BY <1>3, PersistStep DEF SetState

LEMMA HandleFillInv ==
  ASSUME IInv, NEW id \in DOMAIN orders, NEW quantity \in 1 .. MaxFilled,
         HandleFill(id, quantity)
  PROVE  IInv'
<1> DEFINE filled == orders[id].filled + quantity
           state == IF filled >= orders[id].quantity THEN "filled"
                                                     ELSE "partially_filled"
<1>1. orders[id] \in Orders
  BY DEF IInv, Book, MapsSome
<1>2. filled \in Nat /\ state \in States
  BY <1>1, BoundAssumption DEF Orders, States, Terminal
<1>3. orders' = [orders EXCEPT ![id].filled = filled, ![id].state = state]
  BY DEF HandleFill
<1> HIDE DEF filled, state
<1>4. MapsSome(orders', OrderIds, Orders)
  BY <1>1, <1>2, <1>3 DEF IInv, Book, MapsSome, Orders
<1>5. Extends
  BY <1>1, <1>3, <1>4, SameOrdersExtend DEF HandleFill, Orders
<1> QED
  BY <1>3, <1>5, PersistStep DEF HandleFill

LEMMA CancelAllOrdersInv ==
  ASSUME IInv, CancelAllOrders
  PROVE  IInv'
<1> DEFINE open == {id \in DOMAIN orders : IsActive(orders[id])}
           Cancelled(ids) ==
             [id \in DOMAIN orders |->
                IF id \in ids THEN [orders[id] EXCEPT !.state = "pending_cancel"]
                              ELSE orders[id]]
<1>1. \A id \in DOMAIN orders : orders[id] \in Orders
  BY DEF IInv, Book, MapsSome
<1>2. ASSUME NEW ids
      PROVE  /\ MapsSome(Cancelled(ids), OrderIds, Orders)
             /\ DOMAIN Cancelled(ids) = DOMAIN orders
             /\ \A id \in DOMAIN orders :
                  Cancelled(ids)[id].client = orders[id].client
  <2>1. \A id \in DOMAIN orders :
          /\ [orders[id] EXCEPT !.state = "pending_cancel"] \in Orders
          /\ [orders[id] EXCEPT !.state = "pending_cancel"].client = orders[id].client
    BY <1>1 DEF Orders, States
  <2>2. DOMAIN orders \subseteq OrderIds
    BY DEF IInv, Book, MapsSome
  <2> QED BY <1>1, <2>1, <2>2 DEF MapsSome
<1>3. orders' = Cancelled(open)
  BY DEF CancelAllOrders
<1> HIDE DEF Cancelled, open
<1>4. Extends
  BY <1>2, <1>3, SameOrdersExtend DEF CancelAllOrders, history
<1>5. RowsInv'
  <2>1. open \subseteq DOMAIN orders'
    BY <1>2, <1>3 DEF open
  <2> QED BY <1>4, <2>1, RowsStep DEF CancelAllOrders, open
<1>6. CASE PersistFile
  BY <1>4, <1>5, <1>6, FileStep DEF IInv, Extends
<1>7. CASE \E ids \in SUBSET open :
             file' = {[Snapshot EXCEPT !.orders = Cancelled(ids)]}
  <2>1. PICK ids : file' = {[Snapshot EXCEPT !.orders = Cancelled(ids)]}
    BY <1>7
  <2>2. \A saved \in file' : saved.orders = Cancelled(ids) /\ saved.keys = keys
    BY <2>1 DEF Snapshot
  <2>3. Book(Cancelled(ids), keys)
    BY <1>2 DEF IInv, Book
  <2>4. issued' = issued
    BY DEF CancelAllOrders
  <2>5. FileInv'
    BY <2>2, <2>3, <2>4 DEF FileInv, Book
  <2> QED BY <1>4, <1>5, <2>5 DEF IInv, Extends
<1> QED
  BY <1>6, <1>7 DEF CancelAllOrders, Cancelled, open

LEMMA SyncPositionsInv ==
  ASSUME IInv, NEW view \in BrokerViews, SyncPositions(view)
  PROVE  IInv'
<1>1. UNCHANGED <<orders, keys, db, issued, restarts, answers>>
  BY DEF SyncPositions, history
<1>2. Extends
  BY <1>1, SameOrdersExtend DEF IInv, Book
<1>3. RowsInv'
  BY <1>1 DEF IInv, RowsInv, ActiveRows, IsActive
<1> QED BY <1>2, <1>3, FileStep DEF SyncPositions, IInv, Extends

\* The open rows name each client once, so the key rebuilt for a client leads
\* to its only open row.
LEMMA LoadedKeysAgree ==
  ASSUME IInv
  PROVE  /\ MapsSome(LoadedKeys, ClientIds, OrderIds)
         /\ \A c \in DOMAIN LoadedKeys :
              LoadedKeys[c] \in ActiveRows /\ db[LoadedKeys[c]].client = c
         /\ \A id \in ActiveRows : db[id].client # NoClient =>
              db[id].client \in DOMAIN LoadedKeys /\ LoadedKeys[db[id].client] = id
<1>1. /\ ActiveRows \subseteq DOMAIN db /\ DOMAIN db \subseteq OrderIds
      /\ OrderIds \subseteq Int
      /\ \A id \in DOMAIN db : db[id].client \in ClientIds \cup {NoClient}
  BY DEF IInv, RowsInv, MapsSome, ActiveRows, Orders, OrderIds
<1>2. ASSUME NEW id \in ActiveRows, db[id].client # NoClient
      PROVE  /\ db[id].client \in DOMAIN LoadedKeys
             /\ LoadedKeys[db[id].client] = id
  <2>1. {other \in ActiveRows : db[other].client = db[id].client} = {id}
    BY <1>2 DEF IInv, RowsInv
  <2>2. Min({id}) = id
    BY <1>1 DEF Min
  <2> QED BY <1>2, <2>1, <2>2 DEF LoadedKeys
<1>3. ASSUME NEW c \in DOMAIN LoadedKeys
      PROVE  \E id \in ActiveRows : db[id].client = c /\ c # NoClient
  BY <1>3 DEF LoadedKeys
<1>4. LoadedKeys = [c \in DOMAIN LoadedKeys |-> LoadedKeys[c]]
  BY DEF LoadedKeys
<1>5. \A c \in DOMAIN LoadedKeys :
        /\ c \in ClientIds
        /\ LoadedKeys[c] \in ActiveRows /\ db[LoadedKeys[c]].client = c
  BY <1>1, <1>2, <1>3
<1>6. MapsSome(LoadedKeys, ClientIds, OrderIds)
  BY <1>1, <1>4, <1>5 DEF MapsSome
<1> QED BY <1>2, <1>5, <1>6

LEMMA RestartInv ==
  ASSUME IInv, Restart, "dbLoad" \notin Faults
  PROVE  IInv'
<1>1. CountersInv'
  BY BoundAssumption DEF Restart, IInv, CountersInv, history
<1>2. UNCHANGED <<db, file, issued>>
  BY DEF Restart, stores
<1>3. FileInv'
  BY <1>2 DEF IInv, FileInv, Book
<1>4. CASE UseDatabase /\ LoadFromDb
  <2>1. orders' = [id \in ActiveRows |-> db[id]] /\ keys' = LoadedKeys
    BY <1>4 DEF LoadFromDb
  <2>2. MapsSome(orders', OrderIds, Orders) /\ DOMAIN orders' \subseteq 1 .. issued
    BY <2>1 DEF IInv, RowsInv, MapsSome, ActiveRows
  <2>3. Book(orders, keys)'
    BY <1>2, <2>1, <2>2, LoadedKeysAgree DEF Book
  <2>4. ActiveRows' = ActiveRows
    BY <1>2 DEF ActiveRows, IsActive
  <2>5. RowsInv'
    BY <1>2, <2>1, <2>4, LoadedKeysAgree DEF IInv, RowsInv
  <2> QED BY <1>1, <1>3, <2>3, <2>5 DEF IInv
<1>5. CASE ~UseDatabase /\ LoadState
  <2>1. DOMAIN db' = {}
    BY <1>2, <1>5 DEF IInv, RowsInv
  <2>2. RowsInv'
    BY <2>1 DEF RowsInv, ActiveRows, MapsSome
  <2>3. Book(orders, keys)'
    <3>1. CASE orders' = Empty /\ keys' = Empty
      <4>1. DOMAIN Empty = {}
        BY DEF Empty
      <4> QED BY <3>1, <4>1 DEF Book, MapsSome
    <3>2. CASE \E saved \in file : orders' = saved.orders /\ keys' = saved.keys
      BY <1>2, <3>2 DEF IInv, FileInv, Book
    <3> QED BY <1>5, <3>1, <3>2 DEF LoadState
  <2> QED BY <1>1, <1>3, <2>2, <2>3 DEF IInv
<1> QED BY <1>4, <1>5 DEF Restart

LEMMA NextInv ==
  ASSUME IInv, [Next]_vars, "dbLoad" \notin Faults
  PROVE  IInv'
<1>1. ASSUME NEW client \in ClientIds \cup {NoClient}, NEW symbol \in Symbols,
             NEW side \in Sides, NEW quantity \in Quantities,
             SubmitOrder(client, symbol, side, quantity)
      PROVE  IInv'
  BY <1>1, SubmitOrderInv
<1>2. ASSUME NEW client \in ClientIds, SubmitAgain(client)
      PROVE  IInv'
  <2>1. UNCHANGED <<orders, keys, db, file, issued, restarts>>
    BY <1>2 DEF SubmitAgain, memory, stores
  <2>2. answers' \in [ClientIds -> SUBSET OrderIds]
    BY <1>2 DEF SubmitAgain, IInv, CountersInv, Book, MapsSome
  <2> QED
    BY <2>1, <2>2 DEF IInv, CountersInv, Book, RowsInv, FileInv, ActiveRows, IsActive
<1>3. ASSUME NEW id \in DOMAIN orders, NEW state \in UpdateStates,
             UpdateOrderState(id, state)
      PROVE  IInv'
  BY <1>3, SetStateInv, UpdateAssumption DEF UpdateOrderState
<1>4. ASSUME NEW id \in DOMAIN orders, HandleRejection(id) \/ CancelOrder(id)
      PROVE  IInv'
  BY <1>4, SetStateInv DEF HandleRejection, CancelOrder, States, Terminal
<1>5. ASSUME NEW id \in DOMAIN orders, NEW quantity \in 1 .. MaxFilled,
             HandleFill(id, quantity)
      PROVE  IInv'
  BY <1>5, HandleFillInv
<1>6. CASE UNCHANGED vars
  BY <1>6 DEF vars, memory, stores, history, IInv, CountersInv, Book, RowsInv,
              FileInv, ActiveRows, IsActive
<1> QED
  BY <1>1, <1>2, <1>3, <1>4, <1>5, <1>6, CancelAllOrdersInv, SyncPositionsInv,
     RestartInv DEF Next

LEMMA InductiveInvariant ==
  ASSUME "dbLoad" \notin Faults
  PROVE  Spec => []IInv
BY InitInv, NextInv, PTL DEF Spec

\* A client id has at most one live order in memory and in the open rows of the
\* database, through any restarts and failed writes.
THEOREM OneOpenOrderPerClientHolds ==
  ASSUME "dbLoad" \notin Faults
  PROVE  Spec => []OneOpenOrderPerClient
<1>1. IInv => OneOpenOrderPerClient
  BY DEF IInv, Book, RowsInv, OneOpenOrderPerClient
<1> QED BY <1>1, InductiveInvariant, PTL
-----------------------------------------------------------------------------
(* The file store on its own, with no failing write and no call of         *)
(* sync_positions: restarts are invisible.                                 *)

FileStoreOnly == ~UseDatabase /\ UseFile /\ Faults = {} /\ BrokerViews = {}

\* The file holds what memory holds, once anything was written.
FileCurrent ==
  \/ file = {} /\ orders = Empty /\ positions = Flat /\ keys = Empty
  \/ file = {Snapshot}

\* A client id was answered with nothing but the id its key leads to.
Answered ==
  \A c \in ClientIds : answers[c] \subseteq {keys[k] : k \in DOMAIN keys \cap {c}}

\* The invariant under which every step is a step of the ledger.
JInv ==
  /\ IInv
  /\ positions \in [Symbols -> Int] /\ positions = booked
  /\ FileCurrent
  /\ Answered

LEMMA InitLedger == Init => JInv /\ Ledger!Init
<1> SUFFICES ASSUME Init PROVE JInv /\ Ledger!Init
  OBVIOUS
<1>1. positions \in [Symbols -> Int] /\ positions = booked
  BY DEF Init, Flat
<1>2. FileCurrent /\ Answered
  BY DEF Init, FileCurrent, Answered
<1>3. Ledger!Init
  BY DEF Init, Flat, Ledger!Init
<1> QED BY <1>1, <1>2, <1>3, InitInv DEF JInv

LEMMA PersistCurrent ==
  ASSUME FileStoreOnly, PersistFile
  PROVE  FileCurrent'
<1>1. file' = {Snapshot'}
  BY DEF FileStoreOnly, PersistFile
<1> QED BY <1>1 DEF FileCurrent

\* Where neither the keys nor the answers change, nothing is answered anew.
LEMMA SameAnswers ==
  ASSUME Answered, UNCHANGED <<keys, answers>>
  PROVE  Answered'
BY DEF Answered

LEMMA SubmitOrderLedger ==
  ASSUME JInv, IInv', FileStoreOnly, NEW client \in ClientIds \cup {NoClient},
         NEW symbol \in Symbols, NEW side \in Sides, NEW quantity \in Quantities,
         SubmitOrder(client, symbol, side, quantity)
  PROVE  JInv' /\ [Ledger!Next]_(Ledger!vars)
<1> DEFINE id == issued + 1
<1>1. UNCHANGED <<positions, booked>> /\ FileCurrent'
  BY PersistCurrent DEF SubmitOrder, Persist
<1>2. CASE client = NoClient
  <2>1. UNCHANGED <<keys, answers>>
    BY <1>2 DEF SubmitOrder
  <2> QED BY <1>1, <2>1, SameAnswers DEF JInv, Ledger!vars
<1>3. CASE client # NoClient
  <2>1. /\ client \in ClientIds /\ client \notin DOMAIN keys
        /\ keys' = [c \in DOMAIN keys \cup {client} |->
                      IF c = client THEN id ELSE keys[c]]
        /\ answers' = [answers EXCEPT ![client] = @ \cup {id}]
        /\ answers \in [ClientIds -> SUBSET OrderIds]
    BY <1>3 DEF SubmitOrder, JInv, IInv, CountersInv
  <2>2. id \in OrderIds
    BY BoundAssumption DEF SubmitOrder, JInv, IInv, CountersInv, OrderIds
  <2>3. answers[client] = {}
    BY <2>1 DEF JInv, Answered
  <2>4. answers' = [answers EXCEPT ![client] = {id}]
    BY <2>1, <2>3
  <2>5. ASSUME NEW other \in ClientIds \ {client}
        PROVE  id \notin answers[other]
    <3>1. \A c \in DOMAIN keys : keys[c] \in 1 .. issued
      BY DEF JInv, IInv, Book
    <3>2. issued \in Nat
      BY BoundAssumption DEF JInv, IInv, CountersInv
    <3> QED BY <3>1, <3>2 DEF JInv, Answered
  <2>6. Answered'
    BY <2>1, <2>4 DEF JInv, Answered
  <2>7. Ledger!Answer(client)
    BY <1>1, <2>2, <2>3, <2>4, <2>5 DEF Ledger!Answer
  <2> QED BY <1>1, <2>1, <2>6, <2>7 DEF JInv, Ledger!Next
<1> QED BY <1>2, <1>3

LEMMA HandleFillLedger ==
  ASSUME JInv, IInv', FileStoreOnly, NEW id \in DOMAIN orders,
         NEW quantity \in 1 .. MaxFilled, HandleFill(id, quantity)
  PROVE  JInv' /\ [Ledger!Next]_(Ledger!vars)
<1> DEFINE symbol == orders[id].symbol
           delta == Signed(orders[id], quantity)
<1>1. symbol \in Symbols /\ delta \in Int
  BY DEF JInv, IInv, Book, MapsSome, Orders, Signed
<1>2. /\ positions' = [positions EXCEPT ![symbol] = @ + delta]
      /\ booked' = [booked EXCEPT ![symbol] = @ + delta]
      /\ UNCHANGED <<keys, answers>>
  BY DEF HandleFill
<1>3. FileCurrent'
  BY PersistCurrent DEF HandleFill, Persist
<1> HIDE DEF symbol, delta
<1>4. /\ positions' \in [Symbols -> Int] /\ positions' = booked'
      /\ positions'[symbol] \in Int
      /\ positions' = [positions EXCEPT ![symbol] = positions'[symbol]]
  BY <1>1, <1>2 DEF JInv
<1>5. Ledger!Trade(symbol)
  BY <1>2, <1>4 DEF Ledger!Trade
<1>6. JInv'
  BY <1>2, <1>3, <1>4, SameAnswers DEF JInv
<1> QED
  BY <1>1, <1>5, <1>6 DEF Ledger!Next

\* The methods that only move orders between states stutter in the ledger.
LEMMA OrderStepLedger ==
  ASSUME JInv, IInv', FileStoreOnly, PersistFile,
         UNCHANGED <<positions, keys, answers, booked>>
  PROVE  JInv' /\ [Ledger!Next]_(Ledger!vars)
BY PersistCurrent, SameAnswers DEF JInv, Ledger!vars

LEMMA RestartLedger ==
  ASSUME JInv, IInv', FileStoreOnly, Restart
  PROVE  JInv' /\ [Ledger!Next]_(Ledger!vars)
<1>1. LoadState /\ UNCHANGED <<file, answers, booked>>
  BY DEF Restart, FileStoreOnly, stores, history
<1>2. UNCHANGED <<orders, positions, keys>>
  <2>1. CASE /\ file = {}
             /\ orders = Empty /\ positions = Flat /\ keys = Empty
    BY <1>1, <2>1 DEF LoadState
  <2>2. CASE file = {Snapshot}
    <3>1. PICK saved \in file : /\ orders' = saved.orders
                               /\ positions' = saved.positions
                               /\ keys' = saved.keys
      BY <1>1, <2>2 DEF LoadState
    <3> QED BY <2>2, <3>1 DEF Snapshot
  <2> QED BY <2>1, <2>2 DEF JInv, FileCurrent
<1>3. FileCurrent'
  BY <1>1, <1>2 DEF JInv, FileCurrent, Snapshot
<1> QED BY <1>1, <1>2, <1>3, SameAnswers DEF JInv, Ledger!vars

LEMMA NextLedger ==
  ASSUME JInv, [Next]_vars, FileStoreOnly
  PROVE  JInv' /\ [Ledger!Next]_(Ledger!vars)
<1>1. IInv'
  BY NextInv DEF JInv, FileStoreOnly
<1>2. ASSUME NEW client \in ClientIds, SubmitAgain(client)
      PROVE  JInv' /\ [Ledger!Next]_(Ledger!vars)
  <2>1. UNCHANGED <<orders, positions, keys, file, booked>>
    BY <1>2 DEF SubmitAgain, memory, stores
  <2>2. FileCurrent'
    BY <2>1 DEF JInv, FileCurrent, Snapshot
  <2>3. /\ answers' = [answers EXCEPT ![client] = @ \cup {keys[client]}]
        /\ client \in DOMAIN keys /\ answers \in [ClientIds -> SUBSET OrderIds]
    BY <1>2 DEF SubmitAgain, JInv, IInv, CountersInv
  <2>4. Answered'
    BY <2>1, <2>3 DEF JInv, Answered
  <2>5. answers' = [answers EXCEPT ![client] = {keys[client]}]
    BY <2>3 DEF JInv, Answered
  <2>6. Ledger!Answer(client)
    <3>1. keys[client] \in OrderIds /\ answers[client] \subseteq {keys[client]}
      BY <2>3 DEF JInv, IInv, Book, MapsSome, Answered
    <3>2. \A other \in ClientIds \ {client} : keys[client] \notin answers[other]
      BY <2>3 DEF JInv, IInv, Book, Answered
    <3> QED BY <2>1, <2>5, <3>1, <3>2 DEF Ledger!Answer
  <2> QED BY <1>1, <2>1, <2>2, <2>4, <2>6 DEF JInv, Ledger!Next
<1>3. ASSUME NEW id \in DOMAIN orders, NEW state, SetState(id, state)
      PROVE  JInv' /\ [Ledger!Next]_(Ledger!vars)
  BY <1>1, <1>3, OrderStepLedger DEF SetState, Persist, history
<1>4. CASE CancelAllOrders
  <2>1. PersistFile
    BY <1>4 DEF CancelAllOrders, FileStoreOnly
  <2> QED
    BY <1>1, <1>4, <2>1, OrderStepLedger DEF CancelAllOrders, history
<1>5. CASE UNCHANGED vars
  <2>1. UNCHANGED <<orders, positions, keys, file, answers, booked>>
    BY <1>5 DEF vars, memory, stores, history
  <2>2. FileCurrent'
    BY <2>1 DEF JInv, FileCurrent, Snapshot
  <2> QED BY <1>1, <2>1, <2>2, SameAnswers DEF JInv, Ledger!vars
<1>6. ASSUME NEW view \in BrokerViews, SyncPositions(view)
      PROVE  FALSE
  BY DEF FileStoreOnly
<1> QED
  BY <1>1, <1>2, <1>3, <1>4, <1>5, <1>6, SubmitOrderLedger, HandleFillLedger,
     RestartLedger DEF Next, UpdateOrderState, HandleRejection, CancelOrder

\* With the file store, no failing write and no sync_positions, the system
\* implements the abstract ledger, restarts included.
THEOREM FileStoreImplementsLedger ==
  ASSUME FileStoreOnly
  PROVE  Spec => LedgerSpec
BY InitLedger, NextLedger, PTL DEF Spec, LedgerSpec, Ledger!Spec

\* What Answered says of the answers to one client.
LEMMA AnsweredOnce == Answered => Idempotent
<1> SUFFICES ASSUME Answered, NEW c \in ClientIds
             PROVE  Cardinality(answers[c]) <= 1
  BY DEF Idempotent
<1>1. CASE c \in DOMAIN keys
  <2>1. answers[c] \in SUBSET {keys[c]}
    BY <1>1 DEF Answered
  <2>2. IsFiniteSet({keys[c]}) /\ Cardinality({keys[c]}) = 1
    BY FS_Singleton
  <2>3. Cardinality(answers[c]) <= Cardinality({keys[c]})
    BY <2>1, <2>2, FS_Subset
  <2> QED BY <2>2, <2>3
<1>2. CASE c \notin DOMAIN keys
  <2>1. answers[c] = {} /\ Cardinality({}) = 0
    BY <1>2, FS_EmptySet DEF Answered
  <2> QED BY <2>1
<1> QED BY <1>1, <1>2

\* With the file store submit_order is idempotent across restarts: no client id
\* is ever answered with two order ids.
THEOREM FileStoreIdempotent ==
  ASSUME FileStoreOnly
  PROVE  Spec => []Idempotent
<1>1. JInv => Idempotent
  BY AnsweredOnce DEF JInv
<1> QED BY <1>1, InitLedger, NextLedger, PTL DEF Spec

\* With the file store no fill is ever lost or counted twice by a restart.
THEOREM FileStoreKeepsFills ==
  ASSUME FileStoreOnly
  PROVE  Spec => []PositionsAreBooked
<1>1. JInv => PositionsAreBooked
  BY DEF JInv, PositionsAreBooked
<1> QED BY <1>1, InitLedger, NextLedger, PTL DEF Spec
-----------------------------------------------------------------------------
(* Sums.  MapThenSumSet adds the terms of a set up one element after the   *)
(* other, in an order nothing is known about: the lemmas say that the sum  *)
(* does not depend on it.                                                  *)

\* Of the sets in T, all of them subsets of a finite set, one is smallest.
LEMMA SmallestSet ==
  ASSUME NEW D, IsFiniteSet(D), NEW T \in SUBSET (SUBSET D), T # {}
  PROVE  \E m \in T : \A s \in T : s \subseteq m => s = m
<1> DEFINE R == StrictSubsetOrdering(D)
<1>1. IsWellFoundedOn(R, FiniteSubsetsOf(D))
  BY FS_StrictSubsetOrderingWellFounded
<1>2. T \subseteq FiniteSubsetsOf(D)
  BY FS_Subset DEF FiniteSubsetsOf
<1> HIDE DEF R
<1>3. PICK m \in T : \A s \in T : ~ (<<s, m>> \in R)
  BY <1>1, <1>2, WFMin
<1>4. \A s \in T : s \subseteq m => s = m
  BY <1>3 DEF R, StrictSubsetOrdering
<1> QED BY <1>4

\* The element of s that is added last, and the sum of s by that of the others.
Pick(s) == CHOOSE x \in s : TRUE
SumAt(w, g, s) == IF s = {} THEN 0 ELSE w[Pick(s)] + g[s \ {Pick(s)}]

\* g has the sums of all subsets of D, where w has the terms.
SumsUp(w, D, g) == g = [s \in SUBSET D |-> SumAt(w, g, s)]
Sum(w, D) == (CHOOSE g : SumsUp(w, D, g))[D]

LEMMA PickMember ==
  ASSUME NEW s, s # {}
  PROVE  Pick(s) \in s
BY DEF Pick

\* Sums of subsets exist, and are integers.
LEMMA SumsExist ==
  ASSUME NEW D, IsFiniteSet(D), NEW w, \A x \in D : w[x] \in Int
  PROVE  \E g \in [SUBSET D -> Int] : SumsUp(w, D, g)
<1> DEFINE UpTo(P, g) == \A s \in SUBSET D : Cardinality(s) <= Cardinality(P)
                                              => g[s] = SumAt(w, g, s)
           Missing == {P \in SUBSET D : ~ \E g \in [SUBSET D -> Int] : UpTo(P, g)}
<1>1. ASSUME NEW s \in SUBSET D
      PROVE  IsFiniteSet(s) /\ Cardinality(s) \in Nat
  BY FS_Subset, FS_CardinalityType
<1>2. Missing = {}
  <2> SUFFICES ASSUME Missing # {} PROVE FALSE
    OBVIOUS
  <2>1. PICK P \in Missing : \A s \in Missing : s \subseteq P => s = P
    <3>1. Missing \in SUBSET (SUBSET D)
      OBVIOUS
    <3> HIDE DEF Missing
    <3> QED BY <3>1, SmallestSet
  <2>2. P \in SUBSET D /\ ~ \E g \in [SUBSET D -> Int] : UpTo(P, g)
    BY <2>1
  <2>3. CASE P = {}
    <3> DEFINE g == [s \in SUBSET D |-> 0]
    <3>1. ASSUME NEW s \in SUBSET D, Cardinality(s) <= Cardinality(P)
          PROVE  g[s] = SumAt(w, g, s)
      <4>1. s = {}
        BY <1>1, <2>3, <3>1, FS_EmptySet
      <4> QED BY <4>1 DEF SumAt
    <3>2. g \in [SUBSET D -> Int]
      OBVIOUS
    <3> QED BY <2>2, <3>1, <3>2
  <2>4. CASE P # {}
    <3>1. PICK x \in P : TRUE
      BY <2>4
    <3>2. P \ {x} \notin Missing /\ P \ {x} \in SUBSET D
      BY <2>1, <2>2, <3>1
    <3>3. PICK g \in [SUBSET D -> Int] : UpTo(P \ {x}, g)
      BY <3>2
    <3>4. Cardinality(P \ {x}) = Cardinality(P) - 1 /\ Cardinality(P) \in Nat
      BY <1>1, <2>2, <3>1, FS_RemoveElement
    <3> DEFINE h == [s \in SUBSET D |-> SumAt(w, g, s)]
    <3>5. ASSUME NEW s \in SUBSET D PROVE SumAt(w, g, s) \in Int
      <4>1. CASE s = {}
        BY <4>1 DEF SumAt
      <4>2. CASE s # {}
        <5>1. Pick(s) \in D /\ s \ {Pick(s)} \in SUBSET D
          BY <4>2, PickMember
        <5>2. w[Pick(s)] \in Int /\ g[s \ {Pick(s)}] \in Int
          BY <5>1
        <5> QED BY <4>2, <5>2 DEF SumAt
      <4> QED BY <4>1, <4>2
    <3>6. h \in [SUBSET D -> Int]
      BY <3>5
    <3>7. ASSUME NEW s \in SUBSET D, Cardinality(s) <= Cardinality(P)
          PROVE  h[s] = SumAt(w, h, s)
      <4>1. CASE s = {}
        BY <4>1 DEF SumAt
      <4>2. CASE s # {}
        <5> DEFINE rest == s \ {Pick(s)}
        <5>1. Pick(s) \in s /\ rest \in SUBSET D
          BY <4>2, PickMember
        <5>2. Cardinality(rest) = Cardinality(s) - 1
          BY <1>1, <5>1, FS_RemoveElement
        <5>3. Cardinality(rest) <= Cardinality(P \ {x})
          BY <1>1, <3>4, <3>7, <5>2
        <5>4. g[rest] = SumAt(w, g, rest)
          BY <3>3, <5>1, <5>3
        <5>5. h[rest] = g[rest]
          BY <5>1, <5>4
        <5>6. h[s] = SumAt(w, g, s)
          OBVIOUS
        <5> HIDE DEF h
        <5> QED BY <4>2, <5>5, <5>6 DEF SumAt
      <4> QED BY <4>1, <4>2
    <3> QED BY <2>2, <3>6, <3>7
  <2> QED BY <2>3, <2>4
<1>3. D \notin Missing
  BY <1>2
<1>4. PICK g \in [SUBSET D -> Int] : UpTo(D, g)
  BY <1>3
<1>5. \A s \in SUBSET D : g[s] = SumAt(w, g, s)
  <2> SUFFICES ASSUME NEW s \in SUBSET D PROVE Cardinality(s) <= Cardinality(D)
    BY <1>4
  <2> QED BY FS_Subset
<1>6. SumsUp(w, D, g)
  BY <1>5 DEF SumsUp
<1> QED BY <1>6

\* Two functions that have the sums of subsets agree where their terms do.
LEMMA SumsAgree ==
  ASSUME NEW D, IsFiniteSet(D), NEW E, NEW E2, D \subseteq E, D \subseteq E2,
         NEW w, NEW v, NEW g, NEW h, SumsUp(w, E, g), SumsUp(v, E2, h),
         \A x \in D : w[x] = v[x]
  PROVE  \A s \in SUBSET D : g[s] = h[s]
<1> DEFINE Differ == {s \in SUBSET D : g[s] # h[s]}
<1> SUFFICES ASSUME Differ # {} PROVE FALSE
  OBVIOUS
<1>1. PICK s \in Differ : \A t \in Differ : t \subseteq s => t = s
  <2>1. Differ \in SUBSET (SUBSET D)
    OBVIOUS
  <2> HIDE DEF Differ
  <2> QED BY <2>1, SmallestSet
<1>2. s \in SUBSET D /\ g[s] # h[s]
  BY <1>1
<1>3. g[s] = SumAt(w, g, s) /\ h[s] = SumAt(v, h, s)
  <2>1. s \in SUBSET E /\ s \in SUBSET E2
    BY <1>2
  <2>2. \A r \in SUBSET E : g[r] = SumAt(w, g, r)
    BY DEF SumsUp
  <2>3. \A r \in SUBSET E2 : h[r] = SumAt(v, h, r)
    BY DEF SumsUp
  <2> QED BY <2>1, <2>2, <2>3
<1>4. s # {}
  BY <1>2, <1>3 DEF SumAt
<1>5. Pick(s) \in s
  BY <1>4, PickMember
<1>6. s \ {Pick(s)} \notin Differ /\ s \ {Pick(s)} \in SUBSET D
  BY <1>1, <1>5
<1>7. g[s \ {Pick(s)}] = h[s \ {Pick(s)}] /\ w[Pick(s)] = v[Pick(s)]
  BY <1>2, <1>5, <1>6
<1> QED BY <1>2, <1>3, <1>4, <1>7 DEF SumAt

\* g has the integer sums of all subsets of D.
HasSums(w, D, g) ==
  /\ g \in [SUBSET D -> Int] /\ SumsUp(w, D, g)
  /\ \A s \in SUBSET D : Sum(w, s) = g[s]

\* A sum is the one of such a function, whichever it is.
LEMMA SumIs ==
  ASSUME NEW D, IsFiniteSet(D), NEW w, \A x \in D : w[x] \in Int
  PROVE  \E g : HasSums(w, D, g)
<1>1. PICK g \in [SUBSET D -> Int] : SumsUp(w, D, g)
  BY SumsExist
<1>2. ASSUME NEW s \in SUBSET D PROVE Sum(w, s) = g[s]
  <2>1. IsFiniteSet(s) /\ \A x \in s : w[x] \in Int
    BY FS_Subset
  <2>2. \E h : SumsUp(w, s, h)
    BY <2>1, SumsExist
  <2> DEFINE c == CHOOSE h : SumsUp(w, s, h)
  <2>3. SumsUp(w, s, c)
    BY <2>2
  <2>4. Sum(w, s) = c[s]
    BY DEF Sum
  <2> HIDE DEF c
  <2>5. \A r \in SUBSET s : g[r] = c[r]
    BY <1>1, <2>1, <2>3, SumsAgree
  <2> QED BY <2>4, <2>5
<1> QED BY <1>1, <1>2 DEF HasSums

LEMMA SumType ==
  ASSUME NEW D, IsFiniteSet(D), NEW w, \A x \in D : w[x] \in Int
  PROVE  Sum(w, D) \in Int
<1>1. PICK g : HasSums(w, D, g)
  BY SumIs
<1> QED BY <1>1 DEF HasSums

LEMMA SumEmpty ==
  ASSUME NEW w
  PROVE  Sum(w, {}) = 0
<1>1. PICK g : HasSums(w, {}, g)
  BY SumIs, FS_EmptySet
<1> QED BY <1>1 DEF HasSums, SumsUp, SumAt

\* Terms that are equal have equal sums.
LEMMA SumSame ==
  ASSUME NEW D, IsFiniteSet(D), NEW w, NEW v, \A x \in D : w[x] \in Int,
         \A x \in D : w[x] = v[x]
  PROVE  Sum(w, D) = Sum(v, D)
<1>1. \A x \in D : v[x] \in Int
  OBVIOUS
<1>2. PICK g : HasSums(w, D, g)
  BY SumIs
<1>3. PICK h : HasSums(v, D, h)
  BY <1>1, SumIs
<1>4. \A s \in SUBSET D : g[s] = h[s]
  BY <1>2, <1>3, SumsAgree DEF HasSums
<1> QED BY <1>2, <1>3, <1>4 DEF HasSums

\* Any element may be taken to be added last.
LEMMA SumRemove ==
  ASSUME NEW D, IsFiniteSet(D), NEW w, \A x \in D : w[x] \in Int, NEW y \in D
  PROVE  Sum(w, D) = w[y] + Sum(w, D \ {y})
<1>1. PICK g : HasSums(w, D, g)
  BY SumIs
<1> DEFINE Wrong == {s \in SUBSET D : \E x \in s : g[s] # w[x] + g[s \ {x}]}
<1>2. Wrong = {}
  <2> SUFFICES ASSUME Wrong # {} PROVE FALSE
    OBVIOUS
  <2>1. PICK s \in Wrong : \A t \in Wrong : t \subseteq s => t = s
    <3>1. Wrong \in SUBSET (SUBSET D)
      OBVIOUS
    <3> HIDE DEF Wrong
    <3> QED BY <3>1, SmallestSet
  <2>2. PICK x \in s : g[s] # w[x] + g[s \ {x}]
    BY <2>1
  <2> DEFINE p == Pick(s)
  <2>3. s \in SUBSET D /\ p \in s
    BY <2>1, <2>2, PickMember
  <2>4. g[s] = w[p] + g[s \ {p}]
    BY <1>1, <2>2, <2>3 DEF HasSums, SumsUp, SumAt
  <2> HIDE DEF p
  <2>5. p # x
    BY <2>2, <2>4
  <2>6. s \ {p} \notin Wrong /\ s \ {x} \notin Wrong
    BY <2>1, <2>2, <2>3
  <2>7. s \ {p} \in SUBSET D /\ s \ {x} \in SUBSET D /\ x \in s \ {p} /\ p \in s \ {x}
    BY <2>2, <2>3, <2>5
  <2>8. /\ g[s \ {p}] = w[x] + g[(s \ {p}) \ {x}]
        /\ g[s \ {x}] = w[p] + g[(s \ {x}) \ {p}]
    BY <2>6, <2>7
  <2>9. (s \ {p}) \ {x} = (s \ {x}) \ {p} /\ (s \ {x}) \ {p} \in SUBSET D
    BY <2>3
  <2>10. g[(s \ {x}) \ {p}] \in Int /\ w[x] \in Int /\ w[p] \in Int
    BY <1>1, <2>2, <2>3, <2>9 DEF HasSums
  <2> DEFINE rest == (s \ {x}) \ {p}
  <2>12. g[s \ {p}] = w[x] + g[rest] /\ g[s \ {x}] = w[p] + g[rest]
    BY <2>8, <2>9
  <2>13. g[rest] \in Int
    BY <2>10
  <2> HIDE DEF rest
  <2> QED BY <2>2, <2>4, <2>10, <2>12, <2>13
<1>3. D \notin Wrong
  BY <1>2
<1>4. g[D] = w[y] + g[D \ {y}]
  BY <1>3
<1> QED BY <1>1, <1>4 DEF HasSums

\* One term that changes changes the sum by as much.
LEMMA SumChanged ==
  ASSUME NEW D, IsFiniteSet(D), NEW w, \A x \in D : w[x] \in Int,
         NEW v, \A x \in D : v[x] \in Int,
         NEW y \in D, \A x \in D \ {y} : v[x] = w[x]
  PROVE  Sum(v, D) = Sum(w, D) + (v[y] - w[y])
<1>1. IsFiniteSet(D \ {y})
  BY FS_Subset
<1>2. Sum(v, D \ {y}) = Sum(w, D \ {y}) /\ Sum(w, D \ {y}) \in Int
  BY <1>1, SumSame, SumType
<1>3. Sum(w, D) = w[y] + Sum(w, D \ {y}) /\ Sum(v, D) = v[y] + Sum(v, D \ {y})
  BY SumRemove
<1> QED BY <1>2, <1>3

\* Elements whose term is 0 do not count.
LEMMA SumZeros ==
  ASSUME NEW D, IsFiniteSet(D), NEW w, \A x \in D : w[x] \in Int,
         NEW E \in SUBSET D, \A x \in D \ E : w[x] = 0
  PROVE  Sum(w, D) = Sum(w, E)
<1> DEFINE Wrong == {s \in SUBSET D : Sum(w, s) # Sum(w, s \cap E)}
<1>1. Wrong = {}
  <2> SUFFICES ASSUME Wrong # {} PROVE FALSE
    OBVIOUS
  <2>1. PICK s \in Wrong : \A t \in Wrong : t \subseteq s => t = s
    <3>1. Wrong \in SUBSET (SUBSET D)
      OBVIOUS
    <3> HIDE DEF Wrong
    <3> QED BY <3>1, SmallestSet
  <2>2. s \in SUBSET D /\ Sum(w, s) # Sum(w, s \cap E)
    BY <2>1
  <2>3. PICK x \in s : x \notin E
    BY <2>2, Zenon
  <2>4. s \ {x} \notin Wrong /\ s \ {x} \in SUBSET D
    BY <2>1, <2>2, <2>3
  <2>5. (s \ {x}) \cap E = s \cap E
    BY <2>3
  <2>6. Sum(w, s \ {x}) = Sum(w, s \cap E)
    BY <2>4, <2>5
  <2>7. IsFiniteSet(s) /\ IsFiniteSet(s \ {x})
    BY <2>2, FS_Subset
  <2>8. Sum(w, s) = w[x] + Sum(w, s \ {x}) /\ Sum(w, s \ {x}) \in Int
    BY <2>2, <2>7, SumRemove, SumType
  <2> QED BY <2>2, <2>3, <2>6, <2>8
<1>2. D \notin Wrong /\ D \cap E = E
  BY <1>1
<1> QED BY <1>2

\* What the positions are rebuilt from: the rows of the symbol that are filled.
Term == [id \in DOMAIN db |-> Signed(db[id], db[id].filled)]
FilledRows(s) == {id \in DOMAIN db : db[id].symbol = s /\ db[id].state = "filled"}

LEMMA ReconstructedIsSum ==
  ASSUME IsFiniteSet(DOMAIN db), \A id \in DOMAIN db : Term[id] \in Int,
         NEW s \in Symbols
  PROVE  ReconstructedPositions[s] = Sum(Term, FilledRows(s))
<1> DEFINE D == FilledRows(s)
           Fold(g) == g = [r \in SUBSET D |->
                IF r = {} THEN 0
                ELSE Signed(db[CHOOSE x \in r : TRUE], db[CHOOSE x \in r : TRUE].filled)
                     + g[r \ {CHOOSE x \in r : TRUE}]]
           total == CHOOSE g : Fold(g)
<1>1. ReconstructedPositions[s]
        = MapThenSumSet(LAMBDA id : Signed(db[id], db[id].filled), D)
  BY DEF ReconstructedPositions, FilledRows
<1>2. MapThenSumSet(LAMBDA id : Signed(db[id], db[id].filled), D) = total[D]
  BY Zenon DEF MapThenSumSet, MapThenFoldSet
<1>3. ASSUME NEW g PROVE Fold(g) <=> SumsUp(Term, D, g)
  <2>1. ASSUME NEW r \in SUBSET D
        PROVE  SumAt(Term, g, r) = IF r = {} THEN 0
                ELSE Signed(db[CHOOSE x \in r : TRUE], db[CHOOSE x \in r : TRUE].filled)
                     + g[r \ {CHOOSE x \in r : TRUE}]
    <3>1. CASE r = {}
      BY <3>1 DEF SumAt
    <3>2. CASE r # {}
      <4>1. Pick(r) \in DOMAIN db
        BY <3>2, PickMember DEF FilledRows
      <4>2. Term[Pick(r)] = Signed(db[Pick(r)], db[Pick(r)].filled)
        BY <4>1 DEF Term
      <4>3. Pick(r) = CHOOSE x \in r : TRUE
        BY DEF Pick
      <4> QED BY <3>2, <4>2, <4>3 DEF SumAt
    <3> QED BY <3>1, <3>2
  <2> QED BY <2>1 DEF SumsUp
<1>4. D \subseteq DOMAIN db /\ IsFiniteSet(D) /\ \A x \in D : Term[x] \in Int
  BY FS_Subset DEF FilledRows
<1> HIDE DEF D
<1>5. PICK h : HasSums(Term, D, h)
  BY <1>4, SumIs
<1>6. Fold(total)
  <2>1. Fold(h)
    BY <1>3, <1>5 DEF HasSums
  <2> HIDE DEF Fold
  <2> QED BY <2>1
<1> HIDE DEF Fold, total
<1>7. SumsUp(Term, D, total)
  BY <1>3, <1>6
<1>8. \A r \in SUBSET D : total[r] = h[r]
  BY <1>4, <1>5, <1>7, SumsAgree DEF HasSums
<1> QED BY <1>1, <1>2, <1>5, <1>8 DEF D, HasSums
-----------------------------------------------------------------------------
(* Types, for every choice of stores and faults.                           *)

\* The types of what is in memory, in the file and in the table.  Only ids that
\* were drawn are in use, and the file holds positions too.
MemoryTyped ==
  /\ MapsSome(orders, OrderIds, Orders)
  /\ MapsSome(keys, ClientIds, OrderIds)
  /\ issued \in 0 .. MaxOrders
  /\ restarts \in 0 .. MaxRestarts
  /\ answers \in [ClientIds -> SUBSET OrderIds]
  /\ DOMAIN orders \subseteq 1 .. issued
  /\ PositionsTypeOK

FileTyped ==
  \A saved \in file : /\ MapsSome(saved.orders, OrderIds, Orders)
                      /\ MapsSome(saved.keys, ClientIds, OrderIds)
                      /\ DOMAIN saved.orders \subseteq 1 .. issued
                      /\ saved.positions \in [Symbols -> Int]

RowsTyped ==
  /\ MapsSome(db, OrderIds, Orders)
  /\ DOMAIN db \subseteq 1 .. issued
  /\ intact \in BOOLEAN

\* The inductive type invariant.
Typed == MemoryTyped /\ FileTyped /\ RowsTyped

LEMMA RowsStayTyped ==
  ASSUME RowsTyped, MemoryTyped', issued \in Nat, issued <= issued',
         NEW changed, changed \subseteq DOMAIN orders', PersistOrderToDb(changed)
  PROVE  RowsTyped'
<1>1. PICK written \in SUBSET changed :
        /\ intact' = (intact /\ (UseDatabase => written = changed))
        /\ db' = [id \in DOMAIN db \cup written |->
                    IF id \in written THEN orders'[id] ELSE db[id]]
  BY DEF PersistOrderToDb
<1>2. MapsSome(db', OrderIds, Orders)
  BY <1>1 DEF RowsTyped, MemoryTyped, MapsSome
<1>3. DOMAIN db' \subseteq 1 .. issued'
  BY <1>1 DEF RowsTyped, MemoryTyped
<1> QED BY <1>1, <1>2, <1>3 DEF RowsTyped

LEMMA FileStaysTyped ==
  ASSUME FileTyped, MemoryTyped', issued \in Nat, issued <= issued', PersistFile
  PROVE  FileTyped'
<1>1. file' \subseteq file \cup {Snapshot'}
  BY DEF PersistFile
<1>2. ASSUME NEW saved \in file
      PROVE  /\ MapsSome(saved.orders, OrderIds, Orders)
             /\ MapsSome(saved.keys, ClientIds, OrderIds)
             /\ DOMAIN saved.orders \subseteq 1 .. issued'
             /\ saved.positions \in [Symbols -> Int]
  BY DEF FileTyped, MemoryTyped
<1>3. /\ MapsSome(Snapshot.orders, OrderIds, Orders)'
      /\ MapsSome(Snapshot.keys, ClientIds, OrderIds)'
      /\ (DOMAIN Snapshot.orders \subseteq 1 .. issued)'
      /\ (Snapshot.positions \in [Symbols -> Int])'
  BY DEF Snapshot, MemoryTyped, PositionsTypeOK
<1> QED BY <1>1, <1>2, <1>3 DEF FileTyped

LEMMA PersistTyped ==
  ASSUME Typed, MemoryTyped', issued <= issued',
         NEW changed, changed \subseteq DOMAIN orders', Persist(changed)
  PROVE  Typed'
<1>1. FileTyped /\ RowsTyped /\ issued \in Nat
  BY BoundAssumption DEF Typed, MemoryTyped
<1>2. RowsTyped'
  BY <1>1, RowsStayTyped DEF Persist
<1>3. FileTyped'
  BY <1>1, FileStaysTyped DEF Persist
<1> QED BY <1>2, <1>3 DEF Typed

\* Moving orders between states leaves memory typed.
LEMMA SameMemoryTyped ==
  ASSUME Typed, MapsSome(orders', OrderIds, Orders), DOMAIN orders' = DOMAIN orders,
         UNCHANGED <<keys, issued, restarts, answers>>, PositionsTypeOK'
  PROVE  MemoryTyped' /\ issued <= issued'
BY BoundAssumption DEF Typed, MemoryTyped

LEMMA InitTyped == Init => Typed
<1> SUFFICES ASSUME Init PROVE Typed
  OBVIOUS
<1>1. orders = Empty /\ keys = Empty /\ db = Empty /\ DOMAIN Empty = {} /\ file = {}
  BY DEF Init, Empty
<1>2. MemoryTyped
  BY <1>1, BoundAssumption DEF Init, MemoryTyped, MapsSome, PositionsTypeOK, Flat
<1>3. FileTyped /\ RowsTyped
  BY <1>1 DEF Init, FileTyped, RowsTyped, MapsSome
<1> QED BY <1>2, <1>3 DEF Typed

LEMMA SubmitOrderTyped ==
  ASSUME Typed, NEW client \in ClientIds \cup {NoClient}, NEW symbol \in Symbols,
         NEW side \in Sides, NEW quantity \in Quantities,
         SubmitOrder(client, symbol, side, quantity)
  PROVE  Typed'
<1> DEFINE id == issued + 1
<1>1. MemoryTyped
  BY DEF Typed
<1>2. id \in OrderIds /\ id \in 1 .. MaxOrders /\ issued' = id /\ issued \in Nat
  BY <1>1, BoundAssumption DEF MemoryTyped, SubmitOrder, OrderIds
<1>3. NewOrder(client, symbol, side, quantity) \in Orders
  BY QuantityAssumption DEF NewOrder, Orders, States
<1>4. MapsSome(orders', OrderIds, Orders) /\ DOMAIN orders' = DOMAIN orders \cup {id}
  BY <1>1, <1>2, <1>3 DEF MemoryTyped, MapsSome, SubmitOrder
<1>5. MapsSome(keys', ClientIds, OrderIds)
  BY <1>1, <1>2 DEF MemoryTyped, MapsSome, SubmitOrder
<1>6. answers' \in [ClientIds -> SUBSET OrderIds]
  BY <1>1, <1>2 DEF MemoryTyped, SubmitOrder
<1>7. DOMAIN orders' \subseteq 1 .. issued'
  BY <1>1, <1>2, <1>4 DEF MemoryTyped
<1>8. MemoryTyped'
  BY <1>1, <1>2, <1>4, <1>5, <1>6, <1>7
     DEF MemoryTyped, PositionsTypeOK, SubmitOrder
<1> QED BY <1>2, <1>4, <1>8, PersistTyped DEF SubmitOrder

LEMMA SetStateTyped ==
  ASSUME Typed, NEW id \in DOMAIN orders, NEW state \in States,
         SetState(id, state)
  PROVE  Typed'
<1>1. MapsSome(orders', OrderIds, Orders) /\ DOMAIN orders' = DOMAIN orders
  BY DEF Typed, MemoryTyped, MapsSome, SetState, Orders
<1>2. PositionsTypeOK'
  BY DEF Typed, MemoryTyped, PositionsTypeOK, SetState, history
<1>3. MemoryTyped' /\ issued <= issued'
  BY <1>1, <1>2, SameMemoryTyped DEF SetState, history
<1> QED BY <1>1, <1>3, PersistTyped DEF SetState

LEMMA HandleFillTyped ==
  ASSUME Typed, NEW id \in DOMAIN orders, NEW quantity \in 1 .. MaxFilled,
         HandleFill(id, quantity)
  PROVE  Typed'
<1> DEFINE filled == orders[id].filled + quantity
           state == IF filled >= orders[id].quantity THEN "filled"
                                                     ELSE "partially_filled"
           symbol == orders[id].symbol
           delta == Signed(orders[id], quantity)
<1>1. orders[id] \in Orders
  BY DEF Typed, MemoryTyped, MapsSome
<1>2. filled \in Nat /\ state \in States /\ symbol \in Symbols /\ delta \in Int
  BY <1>1, BoundAssumption DEF Orders, States, Terminal, Signed
<1>3. /\ orders' = [orders EXCEPT ![id].filled = filled, ![id].state = state]
      /\ positions' = [positions EXCEPT ![symbol] = @ + delta]
      /\ booked' = [booked EXCEPT ![symbol] = @ + delta]
  BY DEF HandleFill
<1> HIDE DEF filled, state, symbol, delta
<1>4. MapsSome(orders', OrderIds, Orders) /\ DOMAIN orders' = DOMAIN orders
  BY <1>1, <1>2, <1>3 DEF Typed, MemoryTyped, MapsSome, Orders
<1>5. PositionsTypeOK'
  BY <1>2, <1>3 DEF Typed, MemoryTyped, PositionsTypeOK
<1>6. MemoryTyped' /\ issued <= issued'
  BY <1>4, <1>5, SameMemoryTyped DEF HandleFill
<1> QED BY <1>4, <1>6, PersistTyped DEF HandleFill

LEMMA CancelAllOrdersTyped ==
  ASSUME Typed, CancelAllOrders
  PROVE  Typed'
<1> DEFINE open == {id \in DOMAIN orders : IsActive(orders[id])}
           Cancelled(ids) ==
             [id \in DOMAIN orders |->
                IF id \in ids THEN [orders[id] EXCEPT !.state = "pending_cancel"]
                              ELSE orders[id]]
<1>1. MemoryTyped /\ FileTyped /\ RowsTyped /\ issued \in Nat
  BY BoundAssumption DEF Typed, MemoryTyped
<1>2. ASSUME NEW ids
      PROVE  /\ MapsSome(Cancelled(ids), OrderIds, Orders)
             /\ DOMAIN Cancelled(ids) = DOMAIN orders
  <2>1. \A id \in DOMAIN orders :
          orders[id] \in Orders
          /\ [orders[id] EXCEPT !.state = "pending_cancel"] \in Orders
    BY <1>1 DEF MemoryTyped, MapsSome, Orders, States
  <2> QED BY <1>1, <2>1 DEF MemoryTyped, MapsSome
<1>3. orders' = Cancelled(open) /\ open \subseteq DOMAIN orders
  BY DEF CancelAllOrders
<1> HIDE DEF Cancelled, open
<1>4. PositionsTypeOK'
  BY <1>1 DEF MemoryTyped, PositionsTypeOK, CancelAllOrders, history
<1>5. MemoryTyped' /\ issued <= issued'
  BY <1>2, <1>3, <1>4, SameMemoryTyped DEF CancelAllOrders, history
<1>6. RowsTyped'
  BY <1>1, <1>2, <1>3, <1>5, RowsStayTyped DEF CancelAllOrders, open
<1>7. CASE PersistFile
  BY <1>1, <1>5, <1>6, <1>7, FileStaysTyped DEF Typed
<1>8. CASE \E ids \in SUBSET open :
             file' = {[Snapshot EXCEPT !.orders = Cancelled(ids)]}
  <2>1. PICK ids : file' = {[Snapshot EXCEPT !.orders = Cancelled(ids)]}
    BY <1>8
  <2>2. \A saved \in file' : /\ saved.orders = Cancelled(ids)
                             /\ saved.keys = keys /\ saved.positions = positions
    BY <2>1 DEF Snapshot
  <2>3. issued' = issued
    BY DEF CancelAllOrders
  <2>4. FileTyped'
    BY <1>1, <1>2, <2>2, <2>3 DEF FileTyped, MemoryTyped, PositionsTypeOK
  <2> QED BY <1>5, <1>6, <2>4 DEF Typed
<1> QED BY <1>7, <1>8 DEF CancelAllOrders, Cancelled, open

LEMMA SyncPositionsTyped ==
  ASSUME Typed, NEW view \in BrokerViews, SyncPositions(view)
  PROVE  Typed'
<1>1. FileTyped /\ RowsTyped /\ MemoryTyped /\ issued \in Nat
  BY BoundAssumption DEF Typed, MemoryTyped
<1>2. PositionsTypeOK'
  BY <1>1, ViewAssumption DEF SyncPositions, PositionsTypeOK, MemoryTyped, history
<1>3. MemoryTyped' /\ issued <= issued'
  BY <1>1, <1>2, SameMemoryTyped DEF SyncPositions, history, MemoryTyped
<1>4. RowsTyped'
  BY <1>1 DEF SyncPositions, RowsTyped
<1>5. FileTyped'
  BY <1>1, <1>3, FileStaysTyped DEF SyncPositions
<1> QED BY <1>3, <1>4, <1>5 DEF Typed

LEMMA FiniteIds == IsFiniteSet(OrderIds)
BY BoundAssumption, FS_Interval DEF OrderIds

\* A set of ids that is not empty has its smallest id in it.
LEMMA SmallestId ==
  ASSUME NEW S, S \subseteq OrderIds, S # {}
  PROVE  Min(S) \in S
<1>1. IsFiniteSet(OrderIds)
  BY FiniteIds
<1> DEFINE Below == {r \in SUBSET OrderIds : \E x \in S : r = 1 .. x}
<1>2. PICK m \in Below : \A s \in Below : s \subseteq m => s = m
  <2>1. PICK x \in S : x \in 1 .. MaxOrders
    BY DEF OrderIds
  <2>2. 1 .. x \in Below
    BY <2>1, BoundAssumption DEF OrderIds
  <2>3. Below \in SUBSET (SUBSET OrderIds)
    OBVIOUS
  <2>4. Below # {}
    BY <2>2
  <2> HIDE DEF Below
  <2> QED BY <1>1, <2>3, <2>4, SmallestSet
<1>3. PICK x \in S : m = 1 .. x
  BY <1>2
<1>4. ASSUME NEW y \in S PROVE x <= y
  <2>1. x \in 1 .. MaxOrders /\ y \in 1 .. MaxOrders
    BY <1>3 DEF OrderIds
  <2>2. 1 .. y \in Below
    BY <2>1, BoundAssumption DEF OrderIds
  <2>3. 1 .. y \subseteq 1 .. x => 1 .. y = 1 .. x
    BY <1>2, <1>3, <2>2
  <2> QED BY <2>1, <2>3, BoundAssumption
<1> QED BY <1>3, <1>4 DEF Min

LEMMA LoadedKeysTyped ==
  ASSUME RowsTyped
  PROVE  MapsSome(LoadedKeys, ClientIds, OrderIds)
<1>1. /\ ActiveRows \subseteq DOMAIN db /\ DOMAIN db \subseteq OrderIds
      /\ \A id \in DOMAIN db : db[id].client \in ClientIds \cup {NoClient}
  BY DEF RowsTyped, MapsSome, ActiveRows, Orders
<1>2. ASSUME NEW c \in DOMAIN LoadedKeys
      PROVE  c \in ClientIds /\ LoadedKeys[c] \in OrderIds
  <2> DEFINE S == {id \in ActiveRows : db[id].client = c}
  <2>1. S # {} /\ c \in ClientIds /\ LoadedKeys[c] = Min(S)
    BY <1>1 DEF LoadedKeys
  <2>2. S \subseteq OrderIds
    BY <1>1
  <2> HIDE DEF S
  <2> QED BY <2>1, <2>2, SmallestId
<1>3. LoadedKeys = [c \in DOMAIN LoadedKeys |-> LoadedKeys[c]]
  BY DEF LoadedKeys
<1> QED BY <1>2, <1>3 DEF MapsSome

\* The rows are finitely many, and each counts for an integer.
LEMMA TermsTyped ==
  ASSUME RowsTyped
  PROVE  IsFiniteSet(DOMAIN db) /\ \A id \in DOMAIN db : Term[id] \in Int
<1>1. IsFiniteSet(DOMAIN db)
  <2>1. DOMAIN db \in SUBSET OrderIds
    BY DEF RowsTyped, MapsSome
  <2> QED BY <2>1, FiniteIds, FS_Subset
<1>2. ASSUME NEW id \in DOMAIN db PROVE Term[id] \in Int
  <2>1. db[id].filled \in Nat
    BY DEF RowsTyped, MapsSome, Orders
  <2> QED BY <2>1 DEF Term, Signed
<1> QED BY <1>1, <1>2

LEMMA ReconstructedTyped ==
  ASSUME RowsTyped
  PROVE  ReconstructedPositions \in [Symbols -> Int]
<1>1. ASSUME NEW s \in Symbols PROVE ReconstructedPositions[s] \in Int
  <2>1. FilledRows(s) \subseteq DOMAIN db
    BY DEF FilledRows
  <2>2. Sum(Term, FilledRows(s)) \in Int
    BY <2>1, TermsTyped, FS_Subset, SumType
  <2> QED BY <2>2, TermsTyped, ReconstructedIsSum
<1>2. ReconstructedPositions = [s \in Symbols |-> ReconstructedPositions[s]]
  BY DEF ReconstructedPositions
<1> QED BY <1>1, <1>2

LEMMA RestartTyped ==
  ASSUME Typed, Restart
  PROVE  Typed'
<1>1. MemoryTyped /\ FileTyped /\ RowsTyped
  BY DEF Typed
<1>2. UNCHANGED <<db, file, issued, answers, booked>>
  BY DEF Restart, stores, history
<1>3. restarts' \in 0 .. MaxRestarts /\ intact' \in BOOLEAN
  <2>1. restarts' \in 0 .. MaxRestarts
    BY <1>1, BoundAssumption DEF Restart, MemoryTyped
  <2>2. intact' \in BOOLEAN
    BY <1>1 DEF Restart, LoadFromDb, RowsTyped
  <2> QED BY <2>1, <2>2
<1>4. /\ MapsSome(orders', OrderIds, Orders) /\ DOMAIN orders' \subseteq 1 .. issued
      /\ MapsSome(keys', ClientIds, OrderIds)
      /\ positions' \in [Symbols -> Int]
  <2>1. CASE LoadFromDb
    <3>1. orders' = [id \in ActiveRows |-> db[id]] /\ keys' = LoadedKeys
      BY <2>1 DEF LoadFromDb
    <3>2. MapsSome(orders', OrderIds, Orders) /\ DOMAIN orders' \subseteq 1 .. issued
      BY <1>1, <3>1 DEF RowsTyped, MapsSome, ActiveRows
    <3>3. positions' \in [Symbols -> Int]
      BY <1>1, <2>1, ReconstructedTyped DEF LoadFromDb, Flat
    <3> QED BY <1>1, <3>1, <3>2, <3>3, LoadedKeysTyped
  <2>2. CASE LoadState
    <3>1. DOMAIN Empty = {} /\ Flat \in [Symbols -> Int]
      BY DEF Empty, Flat
    <3>2. MapsSome(Empty, OrderIds, Orders) /\ MapsSome(Empty, ClientIds, OrderIds)
      BY <3>1 DEF MapsSome
    <3> QED BY <1>1, <2>2, <3>1, <3>2 DEF LoadState, FileTyped
  <2> QED BY <2>1, <2>2 DEF Restart
<1>5. MemoryTyped'
  BY <1>1, <1>2, <1>3, <1>4 DEF MemoryTyped, PositionsTypeOK
<1>6. FileTyped' /\ RowsTyped'
  BY <1>1, <1>2, <1>3 DEF FileTyped, RowsTyped
<1> QED BY <1>5, <1>6 DEF Typed

LEMMA NextTyped ==
  ASSUME Typed, [Next]_vars
  PROVE  Typed'
<1>1. ASSUME NEW client \in ClientIds \cup {NoClient}, NEW symbol \in Symbols,
             NEW side \in Sides, NEW quantity \in Quantities,
             SubmitOrder(client, symbol, side, quantity)
      PROVE  Typed'
  BY <1>1, SubmitOrderTyped
<1>2. ASSUME NEW client \in ClientIds, SubmitAgain(client)
      PROVE  Typed'
  <2>1. UNCHANGED <<memory, stores, issued, restarts, booked, intact>>
    BY <1>2 DEF SubmitAgain
  <2>2. MemoryTyped /\ FileTyped /\ RowsTyped
    BY DEF Typed
  <2>3. answers' \in [ClientIds -> SUBSET OrderIds]
    BY <1>2, <2>2 DEF SubmitAgain, MemoryTyped, MapsSome
  <2>4. MemoryTyped'
    BY <2>1, <2>2, <2>3 DEF MemoryTyped, PositionsTypeOK, memory
  <2>5. FileTyped' /\ RowsTyped'
    BY <2>1, <2>2 DEF FileTyped, RowsTyped, stores
  <2> QED BY <2>4, <2>5 DEF Typed
<1>3. ASSUME NEW id \in DOMAIN orders, NEW state \in UpdateStates,
             UpdateOrderState(id, state)
      PROVE  Typed'
  BY <1>3, SetStateTyped, UpdateAssumption DEF UpdateOrderState
<1>4. ASSUME NEW id \in DOMAIN orders, HandleRejection(id) \/ CancelOrder(id)
      PROVE  Typed'
  BY <1>4, SetStateTyped DEF HandleRejection, CancelOrder, States, Terminal
<1>5. ASSUME NEW id \in DOMAIN orders, NEW quantity \in 1 .. MaxFilled,
             HandleFill(id, quantity)
      PROVE  Typed'
  BY <1>5, HandleFillTyped
<1>6. CASE UNCHANGED vars
  <2>1. UNCHANGED <<orders, positions, keys, db, file, issued, restarts, answers,
                    booked, intact>>
    BY <1>6 DEF vars, memory, stores, history
  <2> QED
    BY <2>1 DEF Typed, MemoryTyped, FileTyped, RowsTyped, PositionsTypeOK
<1> QED
  BY <1>1, <1>2, <1>3, <1>4, <1>5, <1>6, CancelAllOrdersTyped, SyncPositionsTyped,
     RestartTyped DEF Next

LEMMA TypedHolds == Spec => []Typed
BY InitTyped, NextTyped, PTL DEF Spec

\* Every variable has its type in every reachable state, whichever stores are in
\* use and whichever of their statements fail; the rebuilt positions are sums
\* over the rows, the rebuilt keys are ids of open rows.
THEOREM TypeOKHolds == Spec => []TypeOK
<1>1. Typed => TypeOK
  BY DEF Typed, MemoryTyped, FileTyped, RowsTyped, TypeOK, OrdersTypeOK
<1> QED BY <1>1, TypedHolds, PTL
-----------------------------------------------------------------------------
(* The idempotency index, for every choice of stores and faults.           *)

\* A key index and an order table that agree on the clients.
Indexed(os, ks) ==
  /\ \A c \in DOMAIN ks : ks[c] \in DOMAIN os /\ os[ks[c]].client = c
  /\ \A id \in DOMAIN os : os[id].client # NoClient =>
       os[id].client \in DOMAIN ks

\* Memory agrees, and so does whatever the file may bring back.
KInv ==
  /\ Typed /\ Indexed(orders, keys)
  /\ \A saved \in file : Indexed(saved.orders, saved.keys)

\* Writing the file keeps what it may bring back in agreement.
LEMMA FileStaysIndexed ==
  ASSUME KInv, Typed', Indexed(orders, keys)', PersistFile
  PROVE  KInv'
<1>1. file' \subseteq file \cup {Snapshot'}
  BY DEF PersistFile
<1>2. Indexed(Snapshot.orders, Snapshot.keys)'
  BY DEF Snapshot
<1> QED BY <1>1, <1>2 DEF KInv

\* Where ids, clients and keys stay, the index stays.
LEMMA SameClientsIndexed ==
  ASSUME Indexed(orders, keys), keys' = keys, DOMAIN orders' = DOMAIN orders,
         \A id \in DOMAIN orders : orders'[id].client = orders[id].client
  PROVE  Indexed(orders, keys)'
BY DEF Indexed

LEMMA SubmitOrderIndexed ==
  ASSUME KInv, NEW client \in ClientIds \cup {NoClient}, NEW symbol \in Symbols,
         NEW side \in Sides, NEW quantity \in Quantities,
         SubmitOrder(client, symbol, side, quantity)
  PROVE  Indexed(orders, keys)'
<1> DEFINE new == issued + 1
<1>1. issued \in Nat /\ DOMAIN orders \subseteq 1 .. issued /\ Indexed(orders, keys)
  BY BoundAssumption DEF KInv, Typed, MemoryTyped
<1>2. new \notin DOMAIN orders
  BY <1>1
<1>3. /\ DOMAIN orders' = DOMAIN orders \cup {new}
      /\ orders'[new].client = client
      /\ \A id \in DOMAIN orders : orders'[id] = orders[id]
      /\ client \notin DOMAIN keys
      /\ keys' = IF client = NoClient THEN keys
                 ELSE [c \in DOMAIN keys \cup {client} |->
                         IF c = client THEN new ELSE keys[c]]
  BY <1>2 DEF SubmitOrder, NewOrder
<1> HIDE DEF new
<1>4. CASE client = NoClient
  BY <1>1, <1>3, <1>4 DEF Indexed
<1>5. CASE client # NoClient
  BY <1>1, <1>3, <1>5 DEF Indexed
<1> QED BY <1>4, <1>5

\* The key rebuilt for a client leads to one of its open rows.
LEMMA LoadedIndexed ==
  ASSUME Typed
  PROVE  Indexed([id \in ActiveRows |-> db[id]], LoadedKeys)
<1>1. ActiveRows \subseteq DOMAIN db /\ DOMAIN db \subseteq OrderIds
  BY DEF Typed, RowsTyped, MapsSome, ActiveRows
<1>2. ASSUME NEW c \in DOMAIN LoadedKeys
      PROVE  LoadedKeys[c] \in ActiveRows /\ db[LoadedKeys[c]].client = c
  <2> DEFINE S == {id \in ActiveRows : db[id].client = c}
  <2>1. S # {} /\ LoadedKeys[c] = Min(S)
    BY DEF LoadedKeys
  <2>2. S \subseteq OrderIds
    BY <1>1
  <2>3. Min(S) \in S
    <3> HIDE DEF S
    <3> QED BY <2>1, <2>2, SmallestId
  <2> QED BY <2>1, <2>3
<1>3. \A id \in ActiveRows : db[id].client # NoClient =>
        db[id].client \in DOMAIN LoadedKeys
  BY DEF LoadedKeys
<1> QED BY <1>2, <1>3 DEF Indexed

LEMMA CancelAllOrdersIndexed ==
  ASSUME KInv, Typed', CancelAllOrders
  PROVE  KInv'
<1> DEFINE open == {id \in DOMAIN orders : IsActive(orders[id])}
           Cancelled(ids) ==
             [id \in DOMAIN orders |->
                IF id \in ids THEN [orders[id] EXCEPT !.state = "pending_cancel"]
                              ELSE orders[id]]
<1>1. ASSUME NEW ids
      PROVE  /\ DOMAIN Cancelled(ids) = DOMAIN orders
             /\ \A id \in DOMAIN orders :
                  Cancelled(ids)[id].client = orders[id].client
  <2>1. \A id \in DOMAIN orders :
          [orders[id] EXCEPT !.state = "pending_cancel"].client = orders[id].client
    BY DEF KInv, Typed, MemoryTyped, MapsSome, Orders
  <2> QED BY <2>1
<1>2. orders' = Cancelled(open) /\ keys' = keys
  BY DEF CancelAllOrders
<1> HIDE DEF Cancelled, open
<1>3. Indexed(orders, keys)'
  BY <1>1, <1>2, SameClientsIndexed DEF KInv
<1>4. CASE PersistFile
  BY <1>3, <1>4, FileStaysIndexed
<1>5. CASE \E ids \in SUBSET open :
             file' = {[Snapshot EXCEPT !.orders = Cancelled(ids)]}
  <2>1. PICK ids : file' = {[Snapshot EXCEPT !.orders = Cancelled(ids)]}
    BY <1>5
  <2>2. \A saved \in file' : saved.orders = Cancelled(ids) /\ saved.keys = keys
    BY <2>1 DEF Snapshot
  <2>3. Indexed(Cancelled(ids), keys)
    BY <1>1 DEF KInv, Indexed
  <2> QED BY <1>3, <2>2, <2>3 DEF KInv
<1> QED BY <1>4, <1>5 DEF CancelAllOrders, Cancelled, open

LEMMA RestartIndexed ==
  ASSUME KInv, Typed', Restart
  PROVE  KInv'
<1>1. file' = file
  BY DEF Restart, stores
<1>2. CASE LoadFromDb
  BY <1>1, <1>2, LoadedIndexed DEF LoadFromDb, KInv
<1>3. CASE LoadState
  <2>1. Indexed(Empty, Empty)
    BY DEF Indexed, Empty
  <2> QED BY <1>1, <1>3, <2>1 DEF LoadState, KInv
<1> QED BY <1>2, <1>3 DEF Restart

LEMMA NextIndexed ==
  ASSUME KInv, [Next]_vars
  PROVE  KInv'
<1>1. Typed'
  BY NextTyped DEF KInv
<1>2. ASSUME NEW client \in ClientIds \cup {NoClient}, NEW symbol \in Symbols,
             NEW side \in Sides, NEW quantity \in Quantities,
             SubmitOrder(client, symbol, side, quantity)
      PROVE  KInv'
  BY <1>1, <1>2, SubmitOrderIndexed, FileStaysIndexed DEF SubmitOrder, Persist
<1>3. ASSUME UNCHANGED <<orders, keys, file>>
      PROVE  KInv'
  BY <1>1, <1>3 DEF KInv
<1>4. ASSUME NEW id \in DOMAIN orders, NEW state, SetState(id, state)
      PROVE  KInv'
  <2>1. orders[id] \in Orders
    BY DEF KInv, Typed, MemoryTyped, MapsSome
  <2>2. Indexed(orders, keys)'
    BY <1>4, <2>1, SameClientsIndexed DEF KInv, SetState, Orders
  <2> QED BY <1>1, <1>4, <2>2, FileStaysIndexed DEF SetState, Persist
<1>5. ASSUME NEW id \in DOMAIN orders, NEW quantity \in 1 .. MaxFilled,
             HandleFill(id, quantity)
      PROVE  KInv'
  <2>1. orders[id] \in Orders
    BY DEF KInv, Typed, MemoryTyped, MapsSome
  <2>2. Indexed(orders, keys)'
    BY <1>5, <2>1, SameClientsIndexed DEF KInv, HandleFill, Orders
  <2> QED BY <1>1, <1>5, <2>2, FileStaysIndexed DEF HandleFill, Persist
<1>6. ASSUME NEW view \in BrokerViews, SyncPositions(view)
      PROVE  KInv'
  <2>1. Indexed(orders, keys)'
    BY <1>6 DEF SyncPositions, KInv
  <2> QED BY <1>1, <1>6, <2>1, FileStaysIndexed DEF SyncPositions
<1>7. ASSUME NEW client \in ClientIds, SubmitAgain(client)
      PROVE  KInv'
  BY <1>3, <1>7 DEF SubmitAgain, memory, stores
<1>8. CASE UNCHANGED vars
  BY <1>3, <1>8 DEF vars, memory, stores
<1> QED
  BY <1>1, <1>2, <1>4, <1>5, <1>6, <1>7, <1>8, CancelAllOrdersIndexed,
     RestartIndexed DEF Next, UpdateOrderState, HandleRejection, CancelOrder

\* The idempotency index and the order table agree in every reachable state, for
\* all clients, stores, bounds and faults: also when the query for open orders
\* fails and the constructor falls back on an old file, or on an empty table.
THEOREM KeysIndexOrdersHolds == Spec => []KeysIndexOrders
<1>1. Init => KInv
  <2> SUFFICES ASSUME Init PROVE KInv
    OBVIOUS
  <2>1. Indexed(Empty, Empty)
    BY DEF Indexed, Empty
  <2> QED BY <2>1, InitTyped DEF Init, KInv
<1>2. KInv => KeysIndexOrders
  BY DEF KInv, Indexed, KeysIndexOrders
<1> QED BY <1>1, <1>2, NextIndexed, PTL DEF Spec
-----------------------------------------------------------------------------
(* The database: what a restart brings back while no statement fails.      *)

\* Every order in memory has its row, and an open row its order in memory.
RowsCurrent ==
  /\ \A id \in DOMAIN orders : id \in DOMAIN db /\ db[id] = orders[id]
  /\ ActiveRows \subseteq DOMAIN orders

\* The rows account for every fill ever booked.
RowsOf(s) == {id \in DOMAIN db : db[id].symbol = s}
Accounted == \A s \in Symbols : booked[s] = Sum(Term, RowsOf(s))

DInv == Typed /\ (UseDatabase /\ intact => RowsCurrent /\ Accounted)

\* When all changed orders were written, the rows have changed with them.
LEMMA AllWritten ==
  ASSUME UseDatabase, intact', NEW changed, PersistOrderToDb(changed)
  PROVE  /\ intact
         /\ db' = [id \in DOMAIN db \cup changed |->
                     IF id \in changed THEN orders'[id] ELSE db[id]]
BY DEF PersistOrderToDb

\* Rows whose symbol, side and filled quantity stay account for the same fills.
LEMMA SameRowsAccounted ==
  ASSUME Typed, Accounted, booked' = booked, DOMAIN db' = DOMAIN db,
         \A id \in DOMAIN db : /\ db'[id].symbol = db[id].symbol
                               /\ db'[id].side = db[id].side
                               /\ db'[id].filled = db[id].filled
  PROVE  Accounted'
<1>1. Term' = Term
  BY DEF Term, Signed
<1>2. ASSUME NEW s \in Symbols PROVE RowsOf(s)' = RowsOf(s)
  BY DEF RowsOf
<1> QED BY <1>1, <1>2 DEF Accounted

\* Orders that change nothing but their state stay in step with their rows.
LEMMA StatesStep ==
  ASSUME DInv, UseDatabase, intact', booked' = booked,
         NEW changed, changed \subseteq DOMAIN orders, PersistOrderToDb(changed),
         DOMAIN orders' = DOMAIN orders,
         \A id \in DOMAIN orders \ changed : orders'[id] = orders[id],
         \A id \in changed : /\ orders'[id].symbol = orders[id].symbol
                             /\ orders'[id].side = orders[id].side
                             /\ orders'[id].filled = orders[id].filled
  PROVE  RowsCurrent' /\ Accounted'
<1>1. RowsCurrent /\ Accounted /\ Typed
  BY AllWritten DEF DInv
<1>2. db' = [id \in DOMAIN db \cup changed |->
               IF id \in changed THEN orders'[id] ELSE db[id]]
  BY AllWritten
<1>3. DOMAIN db' = DOMAIN db
  BY <1>1, <1>2 DEF RowsCurrent
<1>4. RowsCurrent'
  BY <1>1, <1>2, <1>3 DEF RowsCurrent, ActiveRows, IsActive
<1>5. \A id \in DOMAIN db : /\ db'[id].symbol = db[id].symbol
                            /\ db'[id].side = db[id].side
                            /\ db'[id].filled = db[id].filled
  BY <1>1, <1>2 DEF RowsCurrent
<1> QED BY <1>1, <1>3, <1>4, <1>5, SameRowsAccounted

LEMMA SubmitOrderAccounted ==
  ASSUME DInv, Typed', UseDatabase, intact',
         NEW client \in ClientIds \cup {NoClient}, NEW symbol \in Symbols,
         NEW side \in Sides, NEW quantity \in Quantities,
         SubmitOrder(client, symbol, side, quantity)
  PROVE  RowsCurrent' /\ Accounted'
<1> DEFINE new == issued + 1
<1>1. PersistOrderToDb({new}) /\ issued \in Nat
  BY BoundAssumption DEF SubmitOrder, Persist, DInv, Typed, MemoryTyped
<1>2. RowsCurrent /\ Accounted /\ RowsTyped
  BY <1>1, AllWritten DEF DInv, Typed
<1>3. new \notin DOMAIN db /\ new \notin DOMAIN orders
  BY <1>1, <1>2 DEF DInv, Typed, MemoryTyped, RowsTyped
<1>4. /\ DOMAIN orders' = DOMAIN orders \cup {new}
      /\ orders'[new] = NewOrder(client, symbol, side, quantity)
      /\ \A id \in DOMAIN orders : orders'[id] = orders[id]
      /\ booked' = booked
  BY <1>3 DEF SubmitOrder
<1>5. db' = [id \in DOMAIN db \cup {new} |->
               IF id \in {new} THEN orders'[id] ELSE db[id]]
  BY <1>1, AllWritten
<1> HIDE DEF new
<1>6. RowsCurrent'
  BY <1>2, <1>3, <1>4, <1>5 DEF RowsCurrent, ActiveRows, IsActive
<1>7. /\ \A id \in DOMAIN db : Term'[id] = Term[id]
      /\ Term'[new] = 0
  <2>1. Signed(db'[new], db'[new].filled) = 0
    BY <1>4, <1>5 DEF NewOrder, Signed
  <2> QED BY <1>3, <1>5, <2>1 DEF Term
<1>8. ASSUME NEW s \in Symbols PROVE booked'[s] = Sum(Term', RowsOf(s)')
  <2>1. /\ RowsOf(s) \subseteq RowsOf(s)' /\ RowsOf(s)' \subseteq DOMAIN db'
        /\ \A id \in RowsOf(s)' \ RowsOf(s) : id = new
        /\ RowsOf(s) \subseteq DOMAIN db
    BY <1>3, <1>5 DEF RowsOf
  <2>2. IsFiniteSet(DOMAIN db') /\ \A id \in DOMAIN db' : Term'[id] \in Int
    <3>1. IsFiniteSet(DOMAIN db) /\ \A id \in DOMAIN db : Term[id] \in Int
      BY <1>2, TermsTyped
    <3>2. DOMAIN db' = DOMAIN db \cup {new}
      BY <1>5
    <3>3. IsFiniteSet(DOMAIN db')
      BY <3>1, <3>2, FS_AddElement
    <3> QED BY <1>7, <3>1, <3>2, <3>3
  <2>3. IsFiniteSet(RowsOf(s)') /\ IsFiniteSet(RowsOf(s))
    BY <2>1, <2>2, FS_Subset
  <2> DEFINE D == RowsOf(s)'
             E == RowsOf(s)
             w == Term
             v == Term'
  <2>4. \A id \in D : v[id] \in Int
    BY <2>1, <2>2
  <2>5. \A id \in D \ E : v[id] = 0
    BY <1>7, <2>1
  <2>6. \A id \in E : v[id] = w[id] /\ v[id] \in Int
    BY <1>7, <2>1, <2>4
  <2>7. E \in SUBSET D /\ IsFiniteSet(D) /\ IsFiniteSet(E)
    BY <2>1, <2>3
  <2>8. booked'[s] = Sum(w, E)
    BY <1>2, <1>4 DEF Accounted
  <2> HIDE DEF D, E, w, v
  <2>9. Sum(v, D) = Sum(v, E)
    BY <2>4, <2>5, <2>7, SumZeros
  <2>10. Sum(v, E) = Sum(w, E)
    BY <2>6, <2>7, SumSame
  <2> QED BY <2>8, <2>9, <2>10 DEF D, v
<1> QED BY <1>6, <1>8 DEF Accounted

LEMMA HandleFillAccounted ==
  ASSUME DInv, Typed', UseDatabase, intact', NEW id \in DOMAIN orders,
         NEW quantity \in 1 .. MaxFilled, HandleFill(id, quantity)
  PROVE  RowsCurrent' /\ Accounted'
<1> DEFINE order == orders[id]
           filled == order.filled + quantity
           delta == Signed(order, quantity)
<1>1. PersistOrderToDb({id}) /\ quantity \in Nat
  BY BoundAssumption DEF HandleFill, Persist
<1>2. RowsCurrent /\ Accounted /\ RowsTyped /\ MemoryTyped
  BY <1>1, AllWritten DEF DInv, Typed
<1>3. /\ DOMAIN orders' = DOMAIN orders
      /\ orders'[id].symbol = order.symbol /\ orders'[id].side = order.side
      /\ orders'[id].filled = filled
      /\ \A other \in DOMAIN orders \ {id} : orders'[other] = orders[other]
      /\ booked' = [booked EXCEPT ![order.symbol] = @ + delta]
  BY <1>2 DEF HandleFill, MemoryTyped, MapsSome, Orders
<1>4. db' = [other \in DOMAIN db \cup {id} |->
               IF other \in {id} THEN orders'[other] ELSE db[other]]
  BY <1>1, AllWritten
<1>5. id \in DOMAIN db /\ db[id] = order /\ order \in Orders
  BY <1>2 DEF RowsCurrent, RowsTyped, MapsSome
<1> HIDE DEF order, filled, delta
<1>6. RowsCurrent'
  BY <1>2, <1>3, <1>4, <1>5 DEF RowsCurrent, ActiveRows, IsActive
<1>7. /\ \A other \in DOMAIN db \ {id} : Term'[other] = Term[other]
      /\ Term'[id] = Term[id] + delta /\ delta \in Int
  <2>1. Signed(db'[id], db'[id].filled) = Signed(order, order.filled) + delta
    BY <1>1, <1>3, <1>4, <1>5 DEF Signed, filled, delta, Orders
  <2>2. delta \in Int
    BY <1>1 DEF delta, Signed
  <2> QED BY <1>4, <1>5, <2>1, <2>2 DEF Term
<1>8. DOMAIN db' = DOMAIN db /\ \A s : RowsOf(s)' = RowsOf(s)
  BY <1>3, <1>4, <1>5 DEF RowsOf
<1>9. ASSUME NEW s \in Symbols PROVE booked'[s] = Sum(Term', RowsOf(s)')
  <2> DEFINE D == RowsOf(s)
             w == Term
             v == Term'
  <2>1. D \subseteq DOMAIN db /\ IsFiniteSet(D)
    BY <1>2, TermsTyped, FS_Subset DEF RowsOf
  <2>2. \A other \in D : w[other] \in Int
    BY <1>2, <2>1, TermsTyped
  <2>3. \A other \in D : v[other] \in Int
    BY <1>7, <2>1, <2>2
  <2>4. \A other \in D \ {id} : v[other] = w[other]
    BY <1>7, <2>1
  <2>5. booked[s] = Sum(w, D) /\ RowsOf(s)' = D
    BY <1>2, <1>8 DEF Accounted
  <2>6. id \in D <=> s = order.symbol
    BY <1>5 DEF RowsOf
  <2>7. v[id] = w[id] + delta
    BY <1>7
  <2>8. booked \in [Symbols -> Int]
    BY <1>2 DEF MemoryTyped, PositionsTypeOK
  <2> HIDE DEF D, w, v
  <2>9. CASE s = order.symbol
    <3>1. Sum(v, D) = Sum(w, D) + (v[id] - w[id])
      BY <2>1, <2>2, <2>3, <2>4, <2>6, <2>9, SumChanged
    <3>2. w[id] \in Int
      BY <2>2, <2>6, <2>9
    <3>3. booked'[s] = booked[s] + delta
      BY <1>3, <2>8, <2>9
    <3> QED BY <1>7, <2>5, <2>7, <3>1, <3>2, <3>3 DEF v
  <2>10. CASE s # order.symbol
    <3>1. \A other \in D : w[other] = v[other]
      BY <2>4, <2>6, <2>10
    <3>2. Sum(w, D) = Sum(v, D)
      BY <2>1, <2>2, <3>1, SumSame
    <3>3. booked'[s] = booked[s]
      BY <1>3, <2>8, <2>10
    <3> QED BY <2>5, <3>2, <3>3 DEF v
  <2> QED BY <2>9, <2>10
<1> QED BY <1>6, <1>9 DEF Accounted

LEMMA InitAccounted == Init => DInv
<1> SUFFICES ASSUME Init PROVE DInv
  OBVIOUS
<1>1. orders = Empty /\ db = Empty /\ DOMAIN Empty = {}
  BY DEF Init, Empty
<1>2. RowsCurrent
  BY <1>1 DEF RowsCurrent, ActiveRows
<1>3. ASSUME NEW s \in Symbols PROVE booked[s] = Sum(Term, RowsOf(s))
  <2>1. RowsOf(s) = {} /\ booked[s] = 0
    BY <1>1 DEF Init, RowsOf, Flat
  <2>2. Sum(Term, {}) = 0
    BY SumEmpty
  <2> QED BY <2>1, <2>2
<1> QED BY <1>2, <1>3, InitTyped DEF DInv, Accounted

LEMMA RestartAccounted ==
  ASSUME DInv, UseDatabase, intact', Restart
  PROVE  /\ RowsCurrent' /\ Accounted'
         /\ intact /\ orders' = [id \in ActiveRows |-> db[id]]
         /\ positions' = ReconstructedPositions
<1>1. /\ intact /\ orders' = [id \in ActiveRows |-> db[id]]
      /\ positions' = ReconstructedPositions
  BY DEF Restart, LoadFromDb
<1>2. db' = db /\ booked' = booked
  BY DEF Restart, stores, history
<1>3. RowsCurrent'
  BY <1>1, <1>2 DEF RowsCurrent, ActiveRows, IsActive
<1>4. Accounted'
  BY <1>1, <1>2, SameRowsAccounted DEF DInv
<1> QED BY <1>1, <1>3, <1>4

LEMMA NextAccounted ==
  ASSUME DInv, [Next]_vars
  PROVE  DInv'
<1>1. Typed'
  BY NextTyped DEF DInv
<1> SUFFICES ASSUME UseDatabase, intact' PROVE RowsCurrent' /\ Accounted'
  BY <1>1 DEF DInv
<1>2. ASSUME NEW client \in ClientIds \cup {NoClient}, NEW symbol \in Symbols,
             NEW side \in Sides, NEW quantity \in Quantities,
             SubmitOrder(client, symbol, side, quantity)
      PROVE  RowsCurrent' /\ Accounted'
  BY <1>1, <1>2, SubmitOrderAccounted
<1>3. ASSUME UNCHANGED <<orders, db, booked, intact>>
      PROVE  RowsCurrent' /\ Accounted'
  <2>1. RowsCurrent /\ Accounted /\ Typed
    BY <1>3 DEF DInv
  <2>2. RowsCurrent'
    BY <1>3, <2>1 DEF RowsCurrent, ActiveRows, IsActive
  <2> QED BY <1>3, <2>1, <2>2, SameRowsAccounted
<1>4. ASSUME NEW id \in DOMAIN orders, NEW state, SetState(id, state)
      PROVE  RowsCurrent' /\ Accounted'
  <2>1. /\ PersistOrderToDb({id}) /\ booked' = booked
        /\ orders' = [orders EXCEPT ![id].state = state]
    BY <1>4 DEF SetState, Persist, history
  <2>2. orders[id] \in Orders
    BY DEF DInv, Typed, MemoryTyped, MapsSome
  <2>3. /\ DOMAIN orders' = DOMAIN orders
        /\ \A other \in DOMAIN orders \ {id} : orders'[other] = orders[other]
        /\ orders'[id].symbol = orders[id].symbol
        /\ orders'[id].side = orders[id].side
        /\ orders'[id].filled = orders[id].filled
    BY <2>1, <2>2 DEF Orders
  <2> QED BY <2>1, <2>3, StatesStep
<1>5. ASSUME NEW id \in DOMAIN orders, NEW quantity \in 1 .. MaxFilled,
             HandleFill(id, quantity)
      PROVE  RowsCurrent' /\ Accounted'
  BY <1>1, <1>5, HandleFillAccounted
<1>6. CASE CancelAllOrders
  <2> DEFINE open == {id \in DOMAIN orders : IsActive(orders[id])}
  <2>1. PersistOrderToDb(open) /\ booked' = booked
    BY <1>6 DEF CancelAllOrders, history
  <2>2. orders' = [id \in DOMAIN orders |->
                     IF id \in open THEN [orders[id] EXCEPT !.state = "pending_cancel"]
                                    ELSE orders[id]]
    BY <1>6 DEF CancelAllOrders
  <2>3. \A id \in DOMAIN orders : orders[id] \in Orders
    BY DEF DInv, Typed, MemoryTyped, MapsSome
  <2>4. open \subseteq DOMAIN orders
    OBVIOUS
  <2> HIDE DEF open
  <2>5. /\ DOMAIN orders' = DOMAIN orders
        /\ \A id \in DOMAIN orders \ open : orders'[id] = orders[id]
        /\ \A id \in open : /\ orders'[id].symbol = orders[id].symbol
                            /\ orders'[id].side = orders[id].side
                            /\ orders'[id].filled = orders[id].filled
    BY <2>2, <2>3, <2>4 DEF Orders
  <2> QED BY <2>1, <2>4, <2>5, StatesStep
<1>7. ASSUME NEW client \in ClientIds, SubmitAgain(client)
      PROVE  RowsCurrent' /\ Accounted'
  BY <1>3, <1>7 DEF SubmitAgain, memory, stores
<1>8. ASSUME NEW view \in BrokerViews, SyncPositions(view)
      PROVE  RowsCurrent' /\ Accounted'
  BY <1>3, <1>8 DEF SyncPositions, history
<1>9. CASE Restart
  BY <1>9, RestartAccounted
<1>10. CASE UNCHANGED vars
  BY <1>3, <1>10 DEF vars, memory, stores, history
<1> QED
  BY <1>2, <1>4, <1>5, <1>6, <1>7, <1>8, <1>9, <1>10
     DEF Next, UpdateOrderState, HandleRejection, CancelOrder

\* Only Restart counts a restart.
LEMMA OnlyRestart ==
  ASSUME Next, restarts' # restarts
  PROVE  Restart
BY DEF Next, SubmitOrder, SubmitAgain, UpdateOrderState, HandleRejection,
       CancelOrder, SetState, HandleFill, CancelAllOrders, SyncPositions

\* With the database, a restart brings back exactly the open orders, each in the
\* state and with the filled quantity it had, if no statement on it has failed:
\* for any bounds, any second store and any faults of the other kinds.
THEOREM DatabaseKeepsOpenOrders ==
  ASSUME UseDatabase
  PROVE  Spec => OpenOrdersSurvive
<1>1. ASSUME DInv, [Next]_vars
      PROVE  [restarts' # restarts /\ intact' =>
               /\ DOMAIN orders' = {id \in DOMAIN orders : IsActive(orders[id])}
               /\ \A id \in DOMAIN orders' : orders'[id] = orders[id]]_vars
  <2> SUFFICES ASSUME Next, restarts' # restarts, intact'
               PROVE  /\ DOMAIN orders' = {id \in DOMAIN orders : IsActive(orders[id])}
                      /\ \A id \in DOMAIN orders' : orders'[id] = orders[id]
    BY <1>1
  <2>1. intact /\ orders' = [id \in ActiveRows |-> db[id]]
    BY <1>1, OnlyRestart, RestartAccounted
  <2>2. RowsCurrent
    BY <1>1, <2>1 DEF DInv
  <2> QED BY <2>1, <2>2 DEF RowsCurrent, ActiveRows
<1> QED BY <1>1, InitAccounted, NextAccounted, PTL DEF Spec, OpenOrdersSurvive

\* With the database, the positions a restart rebuilds from the filled rows are
\* the net of every fill ever accepted, if no order is partly filled and no
\* statement has failed: nothing is lost or counted twice, over any number of
\* orders, symbols and lives of the process.
THEOREM DatabaseRecoversPositions ==
  ASSUME UseDatabase
  PROVE  Spec => RecoveredPositions
<1>1. ASSUME DInv, [Next]_vars
      PROVE  [restarts' # restarts /\ intact'
               /\ (\A id \in DOMAIN db : db[id].filled > 0 => db[id].state = "filled")
               => positions' = booked]_vars
  <2> SUFFICES ASSUME Next, restarts' # restarts, intact',
                      \A id \in DOMAIN db : db[id].filled > 0 => db[id].state = "filled"
               PROVE  positions' = booked
    BY <1>1
  <2>1. intact /\ positions' = ReconstructedPositions
    BY <1>1, OnlyRestart, RestartAccounted
  <2>2. Accounted /\ RowsTyped /\ booked \in [Symbols -> Int]
    BY <1>1, <2>1 DEF DInv, Typed, MemoryTyped, PositionsTypeOK
  <2>3. ASSUME NEW s \in Symbols PROVE ReconstructedPositions[s] = booked[s]
    <3> DEFINE D == RowsOf(s)
               E == FilledRows(s)
    <3>1. D \subseteq DOMAIN db /\ E \subseteq D
      BY DEF RowsOf, FilledRows
    <3>2. \A id \in D \ E : Term[id] = 0
      <4>1. ASSUME NEW id \in D \ E PROVE db[id].filled = 0
        BY <2>2 DEF RowsOf, FilledRows, RowsTyped, MapsSome, Orders
      <4> QED BY <3>1, <4>1 DEF Term, Signed
    <3>3. IsFiniteSet(D) /\ \A id \in D : Term[id] \in Int
      BY <2>2, <3>1, TermsTyped, FS_Subset
    <3>4. ReconstructedPositions[s] = Sum(Term, E)
      BY <2>2, TermsTyped, ReconstructedIsSum
    <3>5. booked[s] = Sum(Term, D)
      BY <2>2 DEF Accounted
    <3> HIDE DEF D, E
    <3>6. Sum(Term, D) = Sum(Term, E)
      BY <3>1, <3>2, <3>3, SumZeros
    <3> QED BY <3>4, <3>5, <3>6
  <2>4. ReconstructedPositions = [s \in Symbols |-> ReconstructedPositions[s]]
    BY DEF ReconstructedPositions
  <2> QED BY <2>1, <2>2, <2>3, <2>4
<1> QED BY <1>1, InitAccounted, NextAccounted, PTL DEF Spec, RecoveredPositions

\* As long as no statement has failed, a restart from the database keeps the key
\* of every order that is still open: who repeats the submit_order of an open
\* order after the restart is answered with that order.
OpenKeysSurvive ==
  [][restarts' # restarts /\ intact' =>
       \A c \in DOMAIN keys : IsActive(orders[keys[c]]) =>
         c \in DOMAIN keys' /\ keys'[c] = keys[c]]_vars

\* The idempotency of open orders across restarts (_load_from_db), for any bounds,
\* second store and faults of the other kinds.  Of closed orders the key is lost.
THEOREM DatabaseKeepsOpenKeys ==
  ASSUME UseDatabase, "dbLoad" \notin Faults
  PROVE  Spec => OpenKeysSurvive
<1>1. ASSUME DInv, IInv, [Next]_vars
      PROVE  [restarts' # restarts /\ intact' =>
               \A c \in DOMAIN keys : IsActive(orders[keys[c]]) =>
                 c \in DOMAIN keys' /\ keys'[c] = keys[c]]_vars
  <2> SUFFICES ASSUME Next, restarts' # restarts, intact',
                      NEW c \in DOMAIN keys, IsActive(orders[keys[c]])
               PROVE  c \in DOMAIN keys' /\ keys'[c] = keys[c]
    BY <1>1
  <2> DEFINE id == keys[c]
  <2>1. intact /\ keys' = LoadedKeys
    BY <1>1, OnlyRestart DEF Restart, LoadFromDb
  <2>2. RowsCurrent
    BY <1>1, <2>1 DEF DInv
  <2>3. id \in DOMAIN orders /\ orders[id].client = c /\ c # NoClient
    BY <1>1, ClientAssumption DEF IInv, Book, MapsSome
  <2>4. id \in ActiveRows /\ db[id].client = c
    BY <2>2, <2>3 DEF RowsCurrent, ActiveRows
  <2> QED BY <1>1, <2>1, <2>3, <2>4, LoadedKeysAgree
<1> QED
  BY <1>1, InitAccounted, NextAccounted, InitInv, NextInv, PTL
     DEF Spec, OpenKeysSurvive
-----------------------------------------------------------------------------
(* One life of the process: the stores, and what fails of them, play no    *)
(* part.                                                                   *)

OneLife ==
  restarts = 0 => Idempotent /\ (BrokerViews = {} => PositionsAreBooked)

\* In its first life the process has answered a client id with nothing but the
\* id its key leads to, and has booked every fill.
LInv ==
  /\ Typed
  /\ restarts = 0 => /\ Answered
                     /\ BrokerViews = {} => positions = booked

LEMMA NextOneLife ==
  ASSUME LInv, [Next]_vars
  PROVE  LInv'
<1>1. Typed' /\ MemoryTyped
  BY NextTyped DEF LInv, Typed
<1> SUFFICES ASSUME restarts' = 0
             PROVE  Answered' /\ (BrokerViews = {} => positions' = booked')
  BY <1>1 DEF LInv
<1>2. CASE Restart
  BY <1>1, <1>2, BoundAssumption DEF Restart, MemoryTyped
<1>3. ASSUME restarts' = restarts
      PROVE  Answered /\ (BrokerViews = {} => positions = booked)
  BY <1>3 DEF LInv
<1>4. ASSUME UNCHANGED <<keys, answers, positions, booked, restarts>>
      PROVE  Answered' /\ (BrokerViews = {} => positions' = booked')
  BY <1>3, <1>4, SameAnswers
<1>5. ASSUME NEW client \in ClientIds \cup {NoClient}, NEW symbol \in Symbols,
             NEW side \in Sides, NEW quantity \in Quantities,
             SubmitOrder(client, symbol, side, quantity)
      PROVE  Answered' /\ (BrokerViews = {} => positions' = booked')
  <2>1. UNCHANGED <<positions, booked, restarts>>
    BY <1>5 DEF SubmitOrder
  <2>2. CASE client = NoClient
    BY <1>4, <1>5, <2>1, <2>2 DEF SubmitOrder
  <2>3. CASE client # NoClient
    <3>1. /\ keys' = [c \in DOMAIN keys \cup {client} |->
                        IF c = client THEN issued + 1 ELSE keys[c]]
          /\ answers' = [answers EXCEPT ![client] = @ \cup {issued + 1}]
          /\ answers \in [ClientIds -> SUBSET OrderIds]
          /\ client \notin DOMAIN keys
      BY <1>1, <1>5, <2>3 DEF SubmitOrder, MemoryTyped
    <3>2. Answered'
      BY <1>3, <2>1, <3>1 DEF Answered
    <3> QED BY <1>3, <2>1, <3>2
  <2> QED BY <2>2, <2>3
<1>6. ASSUME NEW client \in ClientIds, SubmitAgain(client)
      PROVE  Answered' /\ (BrokerViews = {} => positions' = booked')
  <2>1. /\ UNCHANGED <<keys, positions, booked, restarts>>
        /\ answers' = [answers EXCEPT ![client] = @ \cup {keys[client]}]
        /\ client \in DOMAIN keys /\ answers \in [ClientIds -> SUBSET OrderIds]
    BY <1>1, <1>6 DEF SubmitAgain, memory, MemoryTyped
  <2>2. Answered'
    BY <1>3, <2>1 DEF Answered
  <2> QED BY <1>3, <2>1, <2>2
<1>7. ASSUME NEW id \in DOMAIN orders, NEW state, SetState(id, state)
      PROVE  Answered' /\ (BrokerViews = {} => positions' = booked')
  BY <1>4, <1>7 DEF SetState, history
<1>8. ASSUME NEW id \in DOMAIN orders, NEW quantity \in 1 .. MaxFilled,
             HandleFill(id, quantity)
      PROVE  Answered' /\ (BrokerViews = {} => positions' = booked')
  <2>1. UNCHANGED <<keys, answers, restarts>>
    BY <1>8 DEF HandleFill
  <2>2. Answered'
    BY <1>3, <2>1, SameAnswers
  <2>3. BrokerViews = {} => positions' = booked'
    BY <1>3, <1>8, <2>1 DEF HandleFill
  <2> QED BY <2>2, <2>3
<1>9. CASE CancelAllOrders
  BY <1>4, <1>9 DEF CancelAllOrders, history
<1>10. ASSUME NEW view \in BrokerViews, SyncPositions(view)
       PROVE  Answered' /\ (BrokerViews = {} => positions' = booked')
  BY <1>3, <1>10, SameAnswers DEF SyncPositions, history
<1>11. CASE UNCHANGED vars
  BY <1>4, <1>11 DEF vars, memory, history
<1> QED
  BY <1>2, <1>5, <1>6, <1>7, <1>8, <1>9, <1>10, <1>11
     DEF Next, UpdateOrderState, HandleRejection, CancelOrder

\* Until the first restart submit_order is idempotent and the positions are the
\* net of all fills, whichever stores are in use and whichever of their writes
\* fail; a position report of the broker is what may replace the positions.
THEOREM OneLifeHolds == Spec => []OneLife
<1>1. Init => LInv
  <2> SUFFICES ASSUME Init PROVE LInv
    OBVIOUS
  <2> QED BY InitTyped DEF Init, LInv, Answered
<1>2. LInv => OneLife
  BY AnsweredOnce DEF LInv, OneLife, PositionsAreBooked
<1> QED BY <1>1, <1>2, NextOneLife, PTL DEF Spec
=============================================================================
