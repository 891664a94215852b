-------------------------- MODULE WebSocket_proofs --------------------------
(***************************************************************************)
(* Proofs about both ends of the WebSocket.                                *)
(*                                                                         *)
(* AlertFeed, for any sockets, any number of alerts and any failures of    *)
(* Redis: types, the order in which every peer is sent alerts, and the     *)
(* agreement between the table of the manager and its handlers.            *)
(*                                                                         *)
(* DashboardSocket, for any components on any paths, any number of         *)
(* attempts, of sockets and of losses: types, that a channel is registered *)
(* exactly when a mounted component wants it, that there is one socket,    *)
(* and that a page which may reconnect is never stranded.                  *)
(***************************************************************************)
EXTENDS AlertFeed, DashboardSocket, SequenceTheorems, FiniteSetTheorems,
        WellFoundedInduction, TLAPS

-----------------------------------------------------------------------------
(* Sequences.                                                              *)

Ascending(q) == \A i, j \in DOMAIN q : i < j => q[i] < q[j]

LEMMA SeqShape ==
  ASSUME NEW S, NEW q \in Seq(S)
  PROVE  /\ Len(q) \in Nat /\ DOMAIN q = 1 .. Len(q)
         /\ \A i \in DOMAIN q : q[i] \in S
OBVIOUS

(* What taking the first element leaves, and which one it was.             *)
LEMMA TailShape ==
  ASSUME NEW S, NEW q \in Seq(S), q # <<>>
  PROVE  /\ Head(q) \in S /\ Tail(q) \in Seq(S)
         /\ 1 \in DOMAIN q /\ Head(q) = q[1]
         /\ \A i \in DOMAIN Tail(q) : i \in Nat /\ i >= 1 /\ i + 1 \in DOMAIN q
                                      /\ Tail(q)[i] = q[i + 1]
OBVIOUS

LEMMA AppendShape ==
  ASSUME NEW S, NEW q \in Seq(S), NEW e \in S
  PROVE  /\ Append(q, e) \in Seq(S)
         /\ DOMAIN Append(q, e) = 1 .. Len(q) + 1
         /\ \A i \in DOMAIN q : Append(q, e)[i] = q[i]
         /\ \A i \in DOMAIN Append(q, e) :
              (i \in DOMAIN q /\ i <= Len(q)) \/ i = Len(q) + 1
         /\ Append(q, e)[Len(q) + 1] = e
OBVIOUS

LEMMA TailAscending ==
  ASSUME NEW S \in SUBSET Int, NEW q \in Seq(S), q # <<>>, Ascending(q)
  PROVE  /\ Ascending(Tail(q))
         /\ \A i \in DOMAIN Tail(q) : Head(q) < Tail(q)[i]
<1>1. /\ 1 \in DOMAIN q /\ Head(q) = q[1]
      /\ \A i \in DOMAIN Tail(q) : i \in Nat /\ i >= 1 /\ i + 1 \in DOMAIN q
                                   /\ Tail(q)[i] = q[i + 1]
  BY TailShape
<1>2. ASSUME NEW i \in DOMAIN Tail(q) PROVE Head(q) < Tail(q)[i]
  <2>1. 1 < i + 1
    BY <1>1
  <2> QED BY <1>1, <2>1 DEF Ascending
<1>3. ASSUME NEW i \in DOMAIN Tail(q), NEW j \in DOMAIN Tail(q), i < j
      PROVE  Tail(q)[i] < Tail(q)[j]
  <2>1. i + 1 < j + 1
    BY <1>1, <1>3
  <2> QED BY <1>1, <2>1 DEF Ascending
<1> QED BY <1>2, <1>3 DEF Ascending

LEMMA AppendAscending ==
  ASSUME NEW S \in SUBSET Int, NEW q \in Seq(S), NEW e \in S, Ascending(q),
         \A i \in DOMAIN q : q[i] < e
  PROVE  Ascending(Append(q, e))
<1> DEFINE longer == Append(q, e)
<1>1. /\ DOMAIN longer = 1 .. Len(q) + 1 /\ Len(q) \in Nat
      /\ \A i \in DOMAIN q : longer[i] = q[i]
      /\ \A i \in DOMAIN longer :
           (i \in DOMAIN q /\ i <= Len(q)) \/ i = Len(q) + 1
      /\ longer[Len(q) + 1] = e
  BY AppendShape, SeqShape
<1> HIDE DEF longer
<1>2. ASSUME NEW i \in DOMAIN longer, NEW j \in DOMAIN longer, i < j
      PROVE  longer[i] < longer[j]
  <2>1. i \in DOMAIN q
    BY <1>1, <1>2
  <2> QED BY <1>1, <1>2, <2>1 DEF Ascending
<1>3. Ascending(longer)
  BY <1>2 DEF Ascending
<1> QED BY <1>3 DEF longer
-----------------------------------------------------------------------------
(* Types.                                                                  *)

LinkTyped ==
  /\ redis \in {"up", "down"}
  /\ outages \in 0 .. MaxOutages
  /\ offered \in 0 .. MaxAlerts
  /\ pub \in {"none", "open", "stale"}
  /\ running \in BOOLEAN /\ client \in BOOLEAN
  /\ pubsub \in {"none", "on", "broken"}
  /\ inbox \in Seq(Alerts)
  /\ pubsub = "none" => inbox = <<>>

TaskTyped ==
  /\ pc \in {"connect", "subscribe", "listen", "send", "sleep", "ended"}
  /\ alert \in 0 .. MaxAlerts
  /\ todo \subseteq Sockets /\ failed \subseteq Sockets
  /\ pc # "send" => todo = {} /\ failed = {}
  /\ todo # {} => alert # 0
  /\ shut \in BOOLEAN
  /\ shut => pc = "ended"
  /\ received \in [Sockets -> Seq(Alerts)]

TableTyped ==
  /\ DOMAIN channels \subseteq Channels
  /\ \A c \in DOMAIN channels : channels[c] \subseteq Sockets
  /\ connections \subseteq Sockets
  /\ session \in [Sockets -> {"new", "open", "closed"}]
  /\ alive \in [Sockets -> BOOLEAN]
  /\ subscribed \in [Sockets -> SUBSET Channels]

Typed == LinkTyped /\ TaskTyped /\ TableTyped

LEMMA TypedInit == Init => Typed
<1> SUFFICES ASSUME Init PROVE Typed
  OBVIOUS
<1>1. <<>> \in Seq(Alerts)
  BY EmptySeq
<1>2. DOMAIN <<>> = {}
  OBVIOUS
<1>3. MaxAlerts \in Nat /\ MaxOutages \in Nat
  BY BoundAssumption
<1>4. LinkTyped
  <2>1. inbox = <<>> /\ inbox \in Seq(Alerts)
    BY <1>1 DEF Init
  <2>2. outages \in 0 .. MaxOutages /\ offered \in 0 .. MaxAlerts
    BY <1>3 DEF Init
  <2> QED BY <2>1, <2>2 DEF Init, LinkTyped
<1>5. TaskTyped
  <2>1. received \in [Sockets -> Seq(Alerts)]
    BY <1>1 DEF Init
  <2>2. alert \in 0 .. MaxAlerts
    BY <1>3 DEF Init
  <2> QED BY <2>1, <2>2 DEF Init, TaskTyped
<1>6. TableTyped
  BY <1>2 DEF Init, TableTyped
<1> QED BY <1>4, <1>5, <1>6 DEF Typed

LEMMA LinkStep == LinkTyped /\ [Next]_vars => LinkTyped'
<1> SUFFICES ASSUME LinkTyped, [Next]_vars PROVE LinkTyped'
  OBVIOUS
<1> USE DEF LinkTyped
<1>1. MaxAlerts \in Nat /\ MaxOutages \in Nat /\ <<>> \in Seq(Alerts)
  BY BoundAssumption, EmptySeq
<1>2. CASE UNCHANGED <<redisVars, linkVars>>
  BY <1>2 DEF redisVars, linkVars
<1>3. CASE Connect \/ Subscribe \/ ListenFails
  BY <1>1, <1>3 DEF Connect, Subscribe, ListenFails, Reset, redisVars
<1>4. CASE Read
  <2>1. Tail(inbox) \in Seq(Alerts) /\ inbox # <<>> /\ inbox' = Tail(inbox)
    BY <1>4, TailShape DEF Read, Take
  <2> QED BY <1>4, <2>1 DEF Read, redisVars
<1>5. CASE EndBroadcast \/ Wake
  BY <1>2, <1>5 DEF EndBroadcast, Wake
<1>6. CASE RedisFails \/ RedisReturns
  BY <1>1, <1>6 DEF RedisFails, RedisReturns, linkVars
<1>7. CASE Publish
  <2>1. offered + 1 \in Alerts /\ offered' \in 0 .. MaxAlerts
    BY <1>1, <1>7 DEF Publish, Alerts
  <2>2. inbox' \in Seq(Alerts)
    <3>1. Append(inbox, offered + 1) \in Seq(Alerts)
      BY <2>1, AppendShape
    <3> QED BY <1>7, <3>1 DEF Publish
  <2> QED BY <1>7, <2>1, <2>2 DEF Publish
<1>8. CASE PublishFails
  BY <1>1, <1>8 DEF PublishFails, linkVars
<1>9. CASE Stop \/ TaskEnds
  BY <1>1, <1>9 DEF Stop, TaskEnds, redisVars
<1>10. CASE DisconnectAll
  BY <1>2, <1>10 DEF DisconnectAll
<1>11. ASSUME NEW s \in Sockets,
              Send(s) \/ Open(s) \/ PeerGone(s) \/ HandlerEnds(s)
       PROVE  LinkTyped'
  BY <1>2, <1>11 DEF Send, Open, PeerGone, HandlerEnds
<1>12. ASSUME NEW s \in Sockets, NEW c \in Channels,
              SubscribeSocket(s, c) \/ UnsubscribeSocket(s, c)
       PROVE  LinkTyped'
  BY <1>2, <1>12 DEF SubscribeSocket, UnsubscribeSocket
<1>13. CASE UNCHANGED vars
  BY <1>2, <1>13 DEF vars
<1> QED BY <1>3, <1>4, <1>5, <1>6, <1>7, <1>8, <1>9, <1>10, <1>11, <1>12, <1>13
      DEF Next, Consumer

LEMMA TaskStep == Typed /\ [Next]_vars => TaskTyped'
<1> SUFFICES ASSUME Typed, [Next]_vars PROVE TaskTyped'
  OBVIOUS
<1> USE DEF Typed, TaskTyped
<1>1. CASE UNCHANGED <<taskVars, shut, received>>
  BY <1>1 DEF taskVars
<1>2. CASE Connect \/ Subscribe \/ ListenFails \/ Wake
  BY <1>2 DEF Connect, Subscribe, ListenFails, Wake, Reset, managerVars
<1>3. CASE Read
  <2>1. Head(inbox) \in Alerts
    BY <1>3, TailShape DEF Read, LinkTyped
  <2>2. alert' \in 0 .. MaxAlerts /\ alert' # 0
    BY <1>3, <2>1, BoundAssumption DEF Read, Alerts
  <2>3. todo' \subseteq Sockets
    BY <1>3 DEF Read, TableTyped
  <2> QED BY <1>3, <2>2, <2>3 DEF Read, managerVars
<1>4. CASE EndBroadcast
  BY <1>4 DEF EndBroadcast
<1>5. CASE RedisFails \/ RedisReturns \/ Publish \/ PublishFails \/ Stop
  BY <1>1, <1>5 DEF RedisFails, RedisReturns, Publish, PublishFails, Stop, managerVars
<1>6. CASE TaskEnds
  BY <1>6 DEF TaskEnds, managerVars
<1>7. CASE DisconnectAll
  BY <1>7 DEF DisconnectAll, taskVars
<1>8. ASSUME NEW s \in Sockets, Send(s) PROVE TaskTyped'
  <2>1. todo' \subseteq Sockets /\ failed' \subseteq Sockets
    BY <1>8 DEF Send, Deliver, Refuse
  <2>2. received' \in [Sockets -> Seq(Alerts)]
    <3>1. CASE Deliver(s)
      <4>1. alert \in Alerts
        BY <1>8, BoundAssumption DEF Send, Alerts
      <4>2. Append(received[s], alert) \in Seq(Alerts)
        BY <4>1, AppendShape
      <4> QED BY <3>1, <4>2 DEF Deliver
    <3>2. CASE Refuse(s)
      BY <3>2 DEF Refuse
    <3> QED BY <1>8, <3>1, <3>2 DEF Send
  <2> QED BY <1>8, <2>1, <2>2 DEF Send, managerVars
<1>9. ASSUME NEW s \in Sockets, Open(s) \/ PeerGone(s) \/ HandlerEnds(s)
      PROVE  TaskTyped'
  BY <1>1, <1>9 DEF Open, PeerGone, HandlerEnds, managerVars
<1>10. ASSUME NEW s \in Sockets, NEW c \in Channels,
              SubscribeSocket(s, c) \/ UnsubscribeSocket(s, c)
       PROVE  TaskTyped'
  BY <1>1, <1>10 DEF SubscribeSocket, UnsubscribeSocket
<1>11. CASE UNCHANGED vars
  BY <1>1, <1>11 DEF vars, managerVars
<1> QED BY <1>2, <1>3, <1>4, <1>5, <1>6, <1>7, <1>8, <1>9, <1>10, <1>11
      DEF Next, Consumer

(* Joining and leaving channels change the table as their names say.       *)
LEMMA JoinedTable ==
  ASSUME NEW s, NEW c
  PROVE  /\ DOMAIN Joined(s, c) = DOMAIN channels \cup {c}
         /\ \A d \in DOMAIN channels \cup {c} : \A x :
              x \in Joined(s, c)[d] <=>
                (d \in DOMAIN channels /\ x \in channels[d]) \/ (d = c /\ x = s)
BY DEF Joined

LEMMA LeftTable ==
  ASSUME NEW s, NEW C
  PROVE  /\ DOMAIN Left(s, C) \subseteq DOMAIN channels
         /\ \A d \in DOMAIN Left(s, C) : \A x :
              x \in Left(s, C)[d] <=> x \in channels[d] /\ ~ (d \in C /\ x = s)
         /\ \A d \in DOMAIN channels : \A x \in channels[d] :
              ~ (d \in C /\ x = s) => d \in DOMAIN Left(s, C)
BY DEF Left

LEMMA TableStep == Typed /\ [Next]_vars => TableTyped'
<1> SUFFICES ASSUME Typed, [Next]_vars PROVE TableTyped'
  OBVIOUS
<1> USE DEF Typed, TableTyped
<1>1. CASE UNCHANGED <<channels, connections, peerVars>>
  BY <1>1 DEF peerVars
<1>2. CASE Connect \/ Subscribe \/ ListenFails \/ Wake \/ Read
  BY <1>1, <1>2 DEF Connect, Subscribe, ListenFails, Wake, Read, managerVars
<1>3. CASE EndBroadcast
  <2>1. CASE UNCHANGED <<channels, connections>>
    BY <1>1, <1>3, <2>1 DEF EndBroadcast
  <2>2. CASE /\ "alerts" \in DOMAIN channels
             /\ channels' = [channels EXCEPT !["alerts"] = @ \ failed]
             /\ connections' = connections \ failed
    BY <1>3, <2>2 DEF EndBroadcast, peerVars
  <2> QED BY <1>3, <2>1, <2>2 DEF EndBroadcast
<1>4. CASE RedisFails \/ RedisReturns \/ Publish \/ PublishFails \/ Stop \/ TaskEnds
  BY <1>1, <1>4 DEF RedisFails, RedisReturns, Publish, PublishFails, Stop, TaskEnds,
                    managerVars
<1>5. CASE DisconnectAll
  <2>1. DOMAIN <<>> = {}
    OBVIOUS
  <2> QED BY <1>5, <2>1 DEF DisconnectAll
<1>6. ASSUME NEW s \in Sockets, Send(s) PROVE TableTyped'
  BY <1>1, <1>6 DEF Send, managerVars
<1>7. ASSUME NEW s \in Sockets, NEW c \in Channels, channels' = Joined(s, c)
      PROVE  /\ DOMAIN channels' \subseteq Channels
             /\ \A d \in DOMAIN channels' : channels'[d] \subseteq Sockets
  <2>1. DOMAIN channels' = DOMAIN channels \cup {c}
    BY <1>7, JoinedTable
  <2>2. ASSUME NEW d \in DOMAIN channels', NEW x \in channels'[d] PROVE x \in Sockets
    <3>1. x \in Joined(s, c)[d] /\ d \in DOMAIN channels \cup {c}
      BY <1>7, <2>1, <2>2
    <3>2. (d \in DOMAIN channels /\ x \in channels[d]) \/ (d = c /\ x = s)
      BY <3>1, JoinedTable
    <3> QED BY <3>2
  <2> QED BY <2>1, <2>2
<1>8. ASSUME NEW s \in Sockets, NEW C, channels' = Left(s, C)
      PROVE  /\ DOMAIN channels' \subseteq Channels
             /\ \A d \in DOMAIN channels' : channels'[d] \subseteq Sockets
  <2>1. /\ DOMAIN channels' \subseteq DOMAIN channels
        /\ \A d \in DOMAIN channels' : \A x \in channels'[d] : x \in channels[d]
    BY <1>8, LeftTable
  <2> QED BY <2>1
<1>9. ASSUME NEW s \in Sockets, Open(s) PROVE TableTyped'
  <2>1. "alerts" \in Channels
    BY DEF Channels
  <2>2. CASE s \in Direct
    <3>1. /\ DOMAIN channels' \subseteq Channels
          /\ \A d \in DOMAIN channels' : channels'[d] \subseteq Sockets
      BY <1>7, <1>9, <2>1, <2>2 DEF Open
    <3> QED BY <1>9, <2>1, <2>2, <3>1 DEF Open
  <2>3. CASE s \notin Direct
    BY <1>9, <2>3 DEF Open
  <2> QED BY <2>2, <2>3
<1>10. ASSUME NEW s \in Sockets, PeerGone(s) PROVE TableTyped'
  <2>1. UNCHANGED <<channels, connections, session, subscribed>>
    BY <1>10 DEF PeerGone, managerVars
  <2>2. alive' \in [Sockets -> BOOLEAN]
    BY <1>10 DEF PeerGone
  <2> QED BY <2>1, <2>2
<1>11. ASSUME NEW s \in Sockets, HandlerEnds(s) PROVE TableTyped'
  <2>1. /\ DOMAIN channels' \subseteq Channels
        /\ \A d \in DOMAIN channels' : channels'[d] \subseteq Sockets
    BY <1>8, <1>11 DEF HandlerEnds
  <2> QED BY <1>11, <2>1 DEF HandlerEnds
<1>12. ASSUME NEW s \in Sockets, NEW c \in Channels, SubscribeSocket(s, c)
       PROVE  TableTyped'
  <2>1. /\ DOMAIN channels' \subseteq Channels
        /\ \A d \in DOMAIN channels' : channels'[d] \subseteq Sockets
    BY <1>7, <1>12 DEF SubscribeSocket
  <2> QED BY <1>12, <2>1 DEF SubscribeSocket
<1>13. ASSUME NEW s \in Sockets, NEW c \in Channels, UnsubscribeSocket(s, c)
       PROVE  TableTyped'
  <2>1. /\ DOMAIN channels' \subseteq Channels
        /\ \A d \in DOMAIN channels' : channels'[d] \subseteq Sockets
    BY <1>8, <1>13 DEF UnsubscribeSocket
  <2> QED BY <1>13, <2>1 DEF UnsubscribeSocket
<1>14. CASE UNCHANGED vars
  BY <1>1, <1>14 DEF vars, managerVars
<1> QED BY <1>2, <1>3, <1>4, <1>5, <1>6, <1>9, <1>10, <1>11, <1>12, <1>13, <1>14
      DEF Next, Consumer

LEMMA TypedHolds == Spec => []Typed
<1>1. Typed /\ [Next]_vars => Typed'
  BY LinkStep, TaskStep, TableStep DEF Typed
<1> QED BY <1>1, TypedInit, PTL DEF Spec

(* For any sockets, alerts and outages every variable of the feed keeps    *)
(* its type: nothing is left to read or to send once the subscription or   *)
(* the broadcast is gone.                                                  *)
THEOREM TypeOKHolds == Spec => []TypeOK
<1>1. Typed => TypeOK
  <2> SUFFICES ASSUME Typed PROVE TypeOK
    OBVIOUS
  <2>1. Range(inbox) \subseteq Alerts
    <3>1. inbox \in Seq(Alerts)
      BY DEF Typed, LinkTyped
    <3> QED BY <3>1, SeqShape DEF Range
  <2>2. \A s \in Sockets : Range(received[s]) \subseteq Alerts
    <3> SUFFICES ASSUME NEW s \in Sockets PROVE Range(received[s]) \subseteq Alerts
      OBVIOUS
    <3>1. received[s] \in Seq(Alerts)
      BY DEF Typed, TaskTyped
    <3> QED BY <3>1, SeqShape DEF Range
  <2>3. alert \in {0} \cup Alerts
    BY BoundAssumption DEF Typed, TaskTyped, Alerts
  <2> QED BY <2>1, <2>2, <2>3 DEF Typed, LinkTyped, TaskTyped, TableTyped, TypeOK
<1> QED BY <1>1, TypedHolds, PTL
-----------------------------------------------------------------------------
(* The order of the alerts.                                                *)

(***************************************************************************)
(* What waits for the consumer is later than the alert it broadcasts, and  *)
(* in order; what a peer was sent is no later than that alert, and earlier *)
(* if the peer is still to be sent it.                                     *)
(***************************************************************************)
InboxOrder ==
  /\ Ascending(inbox)
  /\ \A i \in DOMAIN inbox : alert < inbox[i] /\ inbox[i] <= offered
  /\ alert <= offered

ReceivedOrder(s) ==
  /\ Ascending(received[s])
  /\ \A i \in DOMAIN received[s] : received[s][i] <= alert
  /\ s \in todo => \A i \in DOMAIN received[s] : received[s][i] < alert

Order == InboxOrder /\ \A s \in Sockets : ReceivedOrder(s)

LEMMA OrderInit == Init => Order
<1> SUFFICES ASSUME Init PROVE Order
  OBVIOUS
<1>1. DOMAIN <<>> = {} /\ Ascending(<<>>)
  BY DEF Ascending
<1>2. InboxOrder
  BY <1>1 DEF Init, InboxOrder
<1>3. \A s \in Sockets : received[s] = <<>>
  BY DEF Init
<1>4. \A s \in Sockets : ReceivedOrder(s)
  BY <1>1, <1>3 DEF ReceivedOrder
<1> QED BY <1>2, <1>4 DEF Order

(* Most steps broadcast no other alert and send none: they may lose what   *)
(* is in the inbox, and sockets the broadcast had still to reach.          *)
LEMMA OrderKept ==
  ASSUME Typed, Typed', Order, UNCHANGED <<alert, received>>, offered <= offered',
         inbox' = inbox \/ inbox' = <<>>, todo' \subseteq todo
  PROVE  Order'
<1>1. alert \in Int /\ offered \in Int /\ offered' \in Int
  BY BoundAssumption DEF Typed, LinkTyped, TaskTyped
<1>2. InboxOrder'
  <2>1. CASE inbox' = inbox
    <3>1. \A i \in DOMAIN inbox : inbox[i] \in Int
      <4>1. inbox \in Seq(Alerts) /\ Alerts \subseteq Int
        BY BoundAssumption DEF Typed, LinkTyped, Alerts
      <4> QED BY <4>1, SeqShape
    <3> QED BY <1>1, <2>1, <3>1 DEF Order, InboxOrder
  <2>2. CASE inbox' = <<>>
    <3>1. DOMAIN inbox' = {}
      BY <2>2
    <3> QED BY <1>1, <3>1 DEF Order, InboxOrder, Ascending
  <2> QED BY <2>1, <2>2
<1>3. ASSUME NEW s \in Sockets PROVE ReceivedOrder(s)'
  BY DEF Order, ReceivedOrder
<1> QED BY <1>2, <1>3 DEF Order

(* A published alert is the latest of all.                                 *)
LEMMA OrderPublish == Typed /\ Order /\ Publish => Order'
<1> SUFFICES ASSUME Typed, Order, Publish PROVE Order'
  OBVIOUS
<1>1. /\ inbox \in Seq(Alerts) /\ Alerts \subseteq Int
      /\ alert \in Int /\ offered \in Int /\ offered + 1 \in Alerts
  BY BoundAssumption DEF Typed, LinkTyped, TaskTyped, Alerts, Publish
<1>2. UNCHANGED <<alert, todo, received>> /\ offered' = offered + 1
  BY DEF Publish, taskVars
<1>3. \A i \in DOMAIN inbox : inbox[i] \in Int
  BY <1>1, SeqShape
<1>4. \A i \in DOMAIN inbox : inbox[i] < offered + 1
  BY <1>1, <1>3 DEF Order, InboxOrder
<1>5. InboxOrder'
  <2>1. CASE inbox' = inbox
    BY <1>1, <1>2, <1>3, <2>1 DEF Order, InboxOrder
  <2>2. CASE inbox' = Append(inbox, offered + 1)
    <3> DEFINE longer == Append(inbox, offered + 1)
    <3>1. Ascending(longer)
      BY <1>1, <1>4, AppendAscending DEF Order, InboxOrder
    <3>2. /\ \A i \in DOMAIN inbox : longer[i] = inbox[i]
          /\ \A i \in DOMAIN longer : i \in DOMAIN inbox \/ i = Len(inbox) + 1
          /\ longer[Len(inbox) + 1] = offered + 1
      BY <1>1, AppendShape
    <3> HIDE DEF longer
    <3>3. ASSUME NEW i \in DOMAIN longer
          PROVE  alert < longer[i] /\ longer[i] <= offered + 1
      <4>1. CASE i \in DOMAIN inbox
        BY <1>1, <1>3, <1>4, <3>2, <4>1 DEF Order, InboxOrder
      <4>2. CASE i = Len(inbox) + 1
        BY <1>1, <3>2, <4>2 DEF Order, InboxOrder
      <4> QED BY <3>2, <4>1, <4>2
    <3> QED BY <1>1, <1>2, <2>2, <3>1, <3>3 DEF Order, InboxOrder, longer
  <2> QED BY <2>1, <2>2 DEF Publish
<1>6. ASSUME NEW s \in Sockets PROVE ReceivedOrder(s)'
  BY <1>2 DEF Order, ReceivedOrder
<1> QED BY <1>5, <1>6 DEF Order

(* The alert that is read next is later than the last one.                 *)
LEMMA OrderRead == Typed /\ Order /\ Read => Order'
<1> SUFFICES ASSUME Typed, Order, Read PROVE Order'
  OBVIOUS
<1>1. inbox \in Seq(Alerts) /\ inbox # <<>> /\ Alerts \in SUBSET Int /\ alert \in Int
  BY BoundAssumption DEF Typed, LinkTyped, TaskTyped, Alerts, Read
<1>2. /\ inbox' = Tail(inbox) /\ alert' = Head(inbox)
      /\ UNCHANGED <<offered, received>>
  BY DEF Read, Take, redisVars
<1>3. alert' \in Int /\ alert < alert' /\ alert' <= offered
  BY <1>1, <1>2, TailShape DEF Order, InboxOrder
<1>4. InboxOrder'
  <2>1. /\ Ascending(Tail(inbox))
        /\ \A i \in DOMAIN Tail(inbox) : Head(inbox) < Tail(inbox)[i]
    BY <1>1, TailAscending DEF Order, InboxOrder
  <2>2. \A i \in DOMAIN Tail(inbox) : Tail(inbox)[i] <= offered
    BY <1>1, TailShape DEF Order, InboxOrder
  <2> QED BY <1>2, <1>3, <2>1, <2>2 DEF InboxOrder
<1>5. ASSUME NEW s \in Sockets PROVE ReceivedOrder(s)'
  <2>1. \A i \in DOMAIN received[s] : received[s][i] \in Int
    <3>1. received[s] \in Seq(Alerts)
      BY DEF Typed, TaskTyped
    <3> QED BY <1>1, <3>1, SeqShape
  <2>2. Ascending(received[s]) /\ \A i \in DOMAIN received[s] : received[s][i] <= alert
    BY DEF Order, ReceivedOrder
  <2>3. \A i \in DOMAIN received[s] : received[s][i] < alert'
    BY <1>1, <1>3, <2>1, <2>2
  <2>4. \A i \in DOMAIN received[s] : received[s][i] <= alert'
    BY <1>3, <2>1, <2>3
  <2> QED BY <1>2, <2>2, <2>3, <2>4 DEF ReceivedOrder
<1> QED BY <1>4, <1>5 DEF Order

(* A socket that is sent the alert is taken out of those still to reach.   *)
LEMMA OrderSend ==
  ASSUME Typed, Order, NEW t \in Sockets, Send(t)
  PROVE  Order'
<1>1. /\ UNCHANGED <<inbox, alert, offered>> /\ t \in todo
      /\ todo' = todo \ {t} /\ (Deliver(t) \/ Refuse(t))
  BY DEF Send, redisVars, linkVars
<1>2. Alerts \in SUBSET Int /\ alert \in Alerts
  BY <1>1, BoundAssumption DEF Typed, TaskTyped, Alerts
<1>3. InboxOrder'
  BY <1>1 DEF Order, InboxOrder
<1>4. ASSUME NEW s \in Sockets PROVE ReceivedOrder(s)'
  <2>1. received[s] \in Seq(Alerts) /\ received \in [Sockets -> Seq(Alerts)]
    BY DEF Typed, TaskTyped
  <2>2. CASE received'[s] = received[s]
    BY <1>1, <2>2 DEF Order, ReceivedOrder
  <2>3. CASE s = t /\ received'[s] = Append(received[s], alert)
    <3> DEFINE q == received[s]
               longer == Append(q, alert)
    <3>1. Ascending(q) /\ \A i \in DOMAIN q : q[i] < alert
      BY <1>1, <2>3 DEF Order, ReceivedOrder
    <3>2. /\ \A i \in DOMAIN q : longer[i] = q[i]
          /\ \A i \in DOMAIN longer : i \in DOMAIN q \/ i = Len(q) + 1
          /\ longer[Len(q) + 1] = alert
      BY <1>2, <2>1, AppendShape
    <3>3. Ascending(longer)
      BY <1>2, <2>1, <3>1, AppendAscending
    <3>4. \A i \in DOMAIN q : q[i] \in Int
      BY <1>2, <2>1, SeqShape
    <3> HIDE DEF q, longer
    <3>5. \A i \in DOMAIN longer : longer[i] <= alert
      BY <1>2, <3>1, <3>2, <3>4
    <3>6. received'[s] = longer /\ s \notin todo'
      BY <1>1, <2>3 DEF longer, q
    <3> QED BY <1>1, <3>3, <3>5, <3>6 DEF ReceivedOrder
  <2> QED BY <1>1, <2>1, <2>2, <2>3 DEF Deliver, Refuse
<1> QED BY <1>3, <1>4 DEF Order

LEMMA OrderStep == Typed /\ Typed' /\ Order /\ [Next]_vars => Order'
<1> SUFFICES ASSUME Typed, Typed', Order, [Next]_vars PROVE Order'
  OBVIOUS
<1> DEFINE Quiet == /\ UNCHANGED <<alert, received>> /\ offered <= offered'
                    /\ inbox' = inbox \/ inbox' = <<>>
                    /\ todo' \subseteq todo
<1>1. offered \in Int
  BY BoundAssumption DEF Typed, LinkTyped
<1>2. ASSUME Quiet PROVE Order'
  BY <1>2, OrderKept
<1>3. CASE Connect \/ Subscribe \/ EndBroadcast \/ Wake \/ ListenFails
  <2>1. Quiet
    BY <1>1, <1>3 DEF Connect, Subscribe, EndBroadcast, Wake, ListenFails, Reset,
                      redisVars, linkVars
  <2> QED BY <1>2, <2>1
<1>4. CASE RedisFails \/ RedisReturns \/ PublishFails \/ Stop \/ TaskEnds \/ DisconnectAll
  <2>1. Quiet
    BY <1>1, <1>4 DEF RedisFails, RedisReturns, PublishFails, Stop, TaskEnds,
                      DisconnectAll, redisVars, linkVars, taskVars
  <2> QED BY <1>2, <2>1
<1>5. ASSUME NEW s \in Sockets, Open(s) \/ PeerGone(s) \/ HandlerEnds(s) PROVE Order'
  <2>1. Quiet
    BY <1>1, <1>5 DEF Open, PeerGone, HandlerEnds, redisVars, linkVars, taskVars
  <2> QED BY <1>2, <2>1
<1>6. ASSUME NEW s \in Sockets, NEW c \in Channels,
             SubscribeSocket(s, c) \/ UnsubscribeSocket(s, c)
      PROVE  Order'
  <2>1. Quiet
    BY <1>1, <1>6 DEF SubscribeSocket, UnsubscribeSocket, redisVars, linkVars, taskVars
  <2> QED BY <1>2, <2>1
<1>7. CASE UNCHANGED vars
  <2>1. Quiet
    BY <1>1, <1>7 DEF vars, redisVars, linkVars, taskVars
  <2> QED BY <1>2, <2>1
<1>8. CASE Publish \/ Read
  BY <1>8, OrderPublish, OrderRead
<1>9. ASSUME NEW s \in Sockets, Send(s) PROVE Order'
  BY <1>9, OrderSend
<1> QED BY <1>3, <1>4, <1>5, <1>6, <1>7, <1>8, <1>9 DEF Next, Consumer

(* For any sockets, alerts and outages: every peer is sent alerts in the   *)
(* order of their publication and none of them twice, and no broadcast is  *)
(* under way once the sockets were closed.                                 *)
THEOREM InOrderHolds == Spec => []InOrder
<1>1. Typed /\ Order => InOrder
  BY DEF Typed, TaskTyped, Order, ReceivedOrder, Ascending, InOrder
<1>2. Typed /\ Typed' /\ Order /\ [Next]_vars => Order'
  BY OrderStep
<1> QED BY <1>1, <1>2, OrderInit, TypedHolds, PTL DEF Spec
-----------------------------------------------------------------------------
(* The table of the manager and its handlers.                              *)

Registered(s, c) == c \in DOMAIN channels /\ s \in channels[c]

(***************************************************************************)
(* The inductive form of ChannelsAgree.  A broadcast that outlives the     *)
(* registration of its sockets takes out only those that are lost for      *)
(* good: a socket it has on its list was opened before, and one that       *)
(* raised has a handler that has ended or a peer that is gone.             *)
(***************************************************************************)
HandlersAgree ==
  \A s \in Sockets : session[s] # "open" => subscribed[s] = {}

BroadcastAgrees ==
  /\ \A s \in todo \cup failed : session[s] # "new"
  /\ \A s \in failed : session[s] = "closed" \/ ~ alive[s]

TableAgrees ==
  /\ \A c \in Channels, s \in Sockets :
       Registered(s, c) => session[s] = "open" /\ c \in subscribed[s]
  /\ \A c \in Channels, s \in Sockets :
       c \in subscribed[s] /\ alive[s] => Registered(s, c)

Agree == HandlersAgree /\ BroadcastAgrees /\ (~ shut => TableAgrees)

LEMMA AgreeInit == Init => Agree
<1> SUFFICES ASSUME Init PROVE Agree
  OBVIOUS
<1>1. DOMAIN <<>> = {}
  OBVIOUS
<1> QED BY <1>1 DEF Init, Agree, HandlersAgree, BroadcastAgrees, TableAgrees, Registered

(* The handlers alone.                                                     *)
LEMMA HandlersStep == Typed /\ HandlersAgree /\ [Next]_vars => HandlersAgree'
<1> SUFFICES ASSUME Typed, HandlersAgree, [Next]_vars PROVE HandlersAgree'
  OBVIOUS
<1> USE DEF HandlersAgree, Typed, TableTyped
<1>1. CASE UNCHANGED <<session, subscribed>>
  BY <1>1
<1>2. CASE Consumer \/ ListenFails \/ RedisFails \/ RedisReturns
  BY <1>1, <1>2 DEF Consumer, Connect, Subscribe, Read, EndBroadcast, Wake, ListenFails,
     RedisFails, RedisReturns, peerVars
<1>3. CASE Publish \/ PublishFails \/ Stop \/ TaskEnds \/ DisconnectAll
  BY <1>1, <1>3 DEF Publish, PublishFails, Stop, TaskEnds, DisconnectAll, peerVars
<1>4. ASSUME NEW s \in Sockets, Send(s) \/ PeerGone(s) PROVE HandlersAgree'
  BY <1>1, <1>4 DEF Send, PeerGone, peerVars
<1>5. ASSUME NEW s \in Sockets, Open(s) PROVE HandlersAgree'
  BY <1>5 DEF Open
<1>6. ASSUME NEW s \in Sockets, HandlerEnds(s) PROVE HandlersAgree'
  BY <1>6 DEF HandlerEnds
<1>7. ASSUME NEW s \in Sockets, NEW c \in Channels,
             SubscribeSocket(s, c) \/ UnsubscribeSocket(s, c)
      PROVE  HandlersAgree'
  BY <1>7 DEF SubscribeSocket, UnsubscribeSocket
<1>8. CASE UNCHANGED vars
  BY <1>1, <1>8 DEF vars, peerVars
<1> QED BY <1>2, <1>3, <1>4, <1>5, <1>6, <1>7, <1>8 DEF Next

(* Sessions go from new to open to closed, and no peer comes back.         *)
LEMMA PeersAge ==
  ASSUME Typed, [Next]_vars, NEW s \in Sockets
  PROVE  /\ session[s] # "new" => session'[s] # "new"
         /\ session[s] = "closed" => session'[s] = "closed"
         /\ ~ alive[s] => ~ alive'[s]
<1> DEFINE Older == /\ session[s] # "new" => session'[s] # "new"
                    /\ session[s] = "closed" => session'[s] = "closed"
                    /\ ~ alive[s] => ~ alive'[s]
<1> USE DEF Typed, TableTyped
<1>1. CASE UNCHANGED <<session, alive>>
  BY <1>1
<1>2. CASE Consumer \/ ListenFails \/ RedisFails \/ RedisReturns
  BY <1>1, <1>2 DEF Consumer, Connect, Subscribe, Read, EndBroadcast, Wake, ListenFails,
     RedisFails, RedisReturns, peerVars
<1>3. CASE Publish \/ PublishFails \/ Stop \/ TaskEnds
  BY <1>1, <1>3 DEF Publish, PublishFails, Stop, TaskEnds, peerVars
<1>4. CASE DisconnectAll
  BY <1>4 DEF DisconnectAll
<1>5. ASSUME NEW t \in Sockets, Send(t) PROVE Older
  BY <1>1, <1>5 DEF Send, peerVars
<1>6. ASSUME NEW t \in Sockets, Open(t) \/ PeerGone(t) \/ HandlerEnds(t) PROVE Older
  BY <1>6 DEF Open, PeerGone, HandlerEnds
<1>7. ASSUME NEW t \in Sockets, NEW c \in Channels,
             SubscribeSocket(t, c) \/ UnsubscribeSocket(t, c)
      PROVE  Older
  BY <1>1, <1>7 DEF SubscribeSocket, UnsubscribeSocket
<1>8. CASE UNCHANGED vars
  BY <1>1, <1>8 DEF vars, peerVars
<1> QED BY <1>2, <1>3, <1>4, <1>5, <1>6, <1>7, <1>8 DEF Next

(* The broadcast: its list is a snapshot of a channel, and a socket that   *)
(* raised did so for good.                                                 *)
LEMMA BroadcastStep == Typed /\ Typed' /\ Agree /\ [Next]_vars => BroadcastAgrees'
<1> SUFFICES ASSUME Typed, Typed', Agree, [Next]_vars PROVE BroadcastAgrees'
  OBVIOUS
<1> USE DEF Typed, TaskTyped, Agree, BroadcastAgrees
<1>1. ASSUME todo' \subseteq todo, failed' \subseteq failed PROVE BroadcastAgrees'
  BY <1>1, PeersAge
<1>2. CASE Connect \/ Subscribe \/ EndBroadcast \/ Wake \/ ListenFails
  BY <1>1, <1>2 DEF Connect, Subscribe, EndBroadcast, Wake, ListenFails
<1>3. CASE Read
  <2>1. ~ shut /\ failed' = failed /\ UNCHANGED <<session, alive>>
    BY <1>3 DEF Read, peerVars
  <2>2. CASE "alerts" \in DOMAIN channels /\ todo' = channels["alerts"]
    <3>1. \A s \in todo' : s \in Sockets /\ session[s] # "new"
      BY <2>1, <2>2 DEF TableTyped, TableAgrees, Registered, Channels
    <3> QED BY <2>1, <3>1
  <2>3. CASE todo' = {}
    BY <2>1, <2>3
  <2> QED BY <1>3, <2>2, <2>3 DEF Read
<1>4. CASE RedisFails \/ RedisReturns \/ Publish \/ PublishFails \/ Stop \/ TaskEnds
           \/ DisconnectAll
  BY <1>1, <1>4 DEF RedisFails, RedisReturns, Publish, PublishFails, Stop, TaskEnds,
                    DisconnectAll, taskVars
<1>5. ASSUME NEW s \in Sockets, Send(s) PROVE BroadcastAgrees'
  <2>1. s \in todo /\ todo' = todo \ {s} /\ UNCHANGED <<session, alive>>
    BY <1>5 DEF Send, peerVars
  <2>2. session[s] \in {"new", "open", "closed"} /\ session[s] # "new"
    BY <2>1 DEF TableTyped
  <2>3. failed' \subseteq failed \/ (failed' = failed \cup {s}
                                     /\ (session[s] # "open" \/ ~ alive[s]))
    BY <1>5 DEF Send, Deliver, Refuse
  <2> QED BY <2>1, <2>2, <2>3
<1>6. ASSUME NEW s \in Sockets, Open(s) \/ PeerGone(s) \/ HandlerEnds(s)
      PROVE  BroadcastAgrees'
  BY <1>1, <1>6 DEF Open, PeerGone, HandlerEnds, taskVars
<1>7. ASSUME NEW s \in Sockets, NEW c \in Channels,
             SubscribeSocket(s, c) \/ UnsubscribeSocket(s, c)
      PROVE  BroadcastAgrees'
  BY <1>1, <1>7 DEF SubscribeSocket, UnsubscribeSocket, taskVars
<1>8. CASE UNCHANGED vars
  BY <1>1, <1>8 DEF vars, taskVars
<1> QED BY <1>2, <1>3, <1>4, <1>5, <1>6, <1>7, <1>8 DEF Next, Consumer

(* What joining and leaving do to the registrations.                       *)
LEMMA JoinRegisters ==
  ASSUME NEW s, NEW c, channels' = Joined(s, c), NEW t, NEW d
  PROVE  Registered(t, d)' <=> Registered(t, d) \/ (t = s /\ d = c)
<1>1. DOMAIN channels' = DOMAIN channels \cup {c}
  BY JoinedTable
<1>2. CASE d \in DOMAIN channels \cup {c}
  <2>1. t \in Joined(s, c)[d] <=>
          (d \in DOMAIN channels /\ t \in channels[d]) \/ (d = c /\ t = s)
    BY <1>2 DEF Joined
  <2> QED BY <1>1, <1>2, <2>1 DEF Registered
<1>3. CASE d \notin DOMAIN channels \cup {c}
  BY <1>1, <1>3 DEF Registered
<1> QED BY <1>2, <1>3

LEMMA LeaveRegisters ==
  ASSUME NEW s, NEW C, channels' = Left(s, C), NEW t, NEW d
  PROVE  Registered(t, d)' <=> Registered(t, d) /\ ~ (t = s /\ d \in C)
<1>1. CASE d \in DOMAIN Left(s, C)
  <2>1. d \in DOMAIN channels
    BY <1>1, LeftTable
  <2>2. t \in Left(s, C)[d] <=> t \in channels[d] /\ ~ (d \in C /\ t = s)
    BY <1>1, LeftTable
  <2> QED BY <1>1, <2>1, <2>2 DEF Registered
<1>2. CASE d \notin DOMAIN Left(s, C)
  <2>1. ASSUME Registered(t, d), ~ (t = s /\ d \in C) PROVE FALSE
    <3>1. d \in DOMAIN channels /\ t \in channels[d]
      BY <2>1 DEF Registered
    <3> QED BY <1>2, <2>1, <3>1, LeftTable
  <2> QED BY <1>2, <2>1 DEF Registered
<1> QED BY <1>1, <1>2

LEMMA TableAgreesStep ==
  Typed /\ Typed' /\ Agree /\ [Next]_vars => (~ shut => TableAgrees)'
<1> SUFFICES ASSUME Typed, Typed', Agree, [Next]_vars, ~ shut' PROVE TableAgrees'
  OBVIOUS
<1>1. CASE ~ shut /\ UNCHANGED <<channels, peerVars>>
  BY <1>1 DEF Agree, TableAgrees, Registered, peerVars
<1>2. CASE Connect \/ Subscribe \/ Read \/ Wake \/ ListenFails
  BY <1>1, <1>2 DEF Connect, Subscribe, Read, Wake, ListenFails, managerVars
<1>3. CASE EndBroadcast
  <2>1. ~ shut /\ UNCHANGED <<session, alive, subscribed>>
    BY <1>3 DEF EndBroadcast, peerVars
  <2>2. CASE UNCHANGED channels
    BY <1>1, <2>1, <2>2 DEF peerVars
  <2>3. CASE /\ "alerts" \in DOMAIN channels
             /\ channels' = [channels EXCEPT !["alerts"] = @ \ failed]
    <3>1. ASSUME NEW t, NEW d
          PROVE  Registered(t, d)' <=>
                   Registered(t, d) /\ ~ (d = "alerts" /\ t \in failed)
      BY <2>3 DEF Registered
    <3>2. \A t \in failed : session[t] = "closed" \/ ~ alive[t]
      BY DEF Agree, BroadcastAgrees
    <3>3. ASSUME NEW d \in Channels, NEW t \in Sockets, d \in subscribed[t], alive[t]
          PROVE  t \notin failed
      BY <3>2, <3>3 DEF Agree, HandlersAgree
    <3> QED BY <2>1, <3>1, <3>3 DEF Agree, TableAgrees
  <2> QED BY <1>3, <2>2, <2>3 DEF EndBroadcast
<1>4. CASE RedisFails \/ RedisReturns \/ Publish \/ PublishFails \/ Stop \/ TaskEnds
  BY <1>1, <1>4 DEF RedisFails, RedisReturns, Publish, PublishFails, Stop, TaskEnds,
                    managerVars
<1>5. CASE DisconnectAll
  BY <1>5 DEF DisconnectAll
<1>6. ASSUME NEW s \in Sockets, Send(s) PROVE TableAgrees'
  BY <1>1, <1>6 DEF Send, managerVars
<1>7. ASSUME NEW s \in Sockets, Open(s) PROVE TableAgrees'
  <2>1. /\ session[s] = "new" /\ ~ shut /\ alive' = alive
        /\ session' = [session EXCEPT ![s] = "open"]
    BY <1>7 DEF Open
  <2>2. /\ session'[s] = "open"
        /\ \A t \in Sockets \ {s} : session'[t] = session[t]
    BY <2>1 DEF Typed, TableTyped
  <2>3. CASE s \in Direct
    <3>1. channels' = Joined(s, "alerts")
          /\ subscribed' = [subscribed EXCEPT ![s] = {"alerts"}]
      BY <1>7, <2>3 DEF Open
    <3>2. /\ subscribed'[s] = {"alerts"}
          /\ \A t \in Sockets \ {s} : subscribed'[t] = subscribed[t]
      BY <3>1 DEF Typed, TableTyped
    <3>3. \A c \in Channels, t \in Sockets :
            Registered(t, c)' <=> Registered(t, c) \/ (t = s /\ c = "alerts")
      BY <3>1, JoinRegisters
    <3>4. \A c \in Channels : ~ Registered(s, c)
      BY <2>1 DEF Agree, TableAgrees
    <3> QED BY <2>1, <2>2, <3>2, <3>3, <3>4 DEF Agree, TableAgrees
  <2>4. CASE s \notin Direct
    <3>1. UNCHANGED <<channels, subscribed>>
      BY <1>7, <2>4 DEF Open
    <3> QED BY <2>1, <2>2, <3>1 DEF Agree, TableAgrees, Registered
  <2> QED BY <2>3, <2>4
<1>8. ASSUME NEW s \in Sockets, PeerGone(s) PROVE TableAgrees'
  <2>1. ~ shut /\ UNCHANGED <<channels, session, subscribed>>
        /\ \A t \in Sockets : alive'[t] => alive[t]
    BY <1>8 DEF PeerGone, managerVars, Typed, TableTyped
  <2> QED BY <2>1 DEF Agree, TableAgrees, Registered
<1>9. ASSUME NEW s \in Sockets, HandlerEnds(s) PROVE TableAgrees'
  <2>1. /\ ~ shut /\ channels' = Left(s, subscribed[s]) /\ alive' = alive
        /\ session' = [session EXCEPT ![s] = "closed"]
        /\ subscribed' = [subscribed EXCEPT ![s] = {}]
    BY <1>9 DEF HandlerEnds
  <2>2. /\ subscribed'[s] = {}
        /\ \A t \in Sockets \ {s} : session'[t] = session[t]
                                    /\ subscribed'[t] = subscribed[t]
    BY <2>1 DEF Typed, TableTyped
  <2>3. \A c \in Channels, t \in Sockets :
          Registered(t, c)' <=> Registered(t, c) /\ ~ (t = s /\ c \in subscribed[s])
    BY <2>1, LeaveRegisters
  <2> QED BY <2>1, <2>2, <2>3 DEF Agree, TableAgrees
<1>10. ASSUME NEW s \in Sockets, NEW c \in Channels, SubscribeSocket(s, c)
       PROVE  TableAgrees'
  <2>1. /\ ~ shut /\ channels' = Joined(s, c) /\ UNCHANGED <<session, alive>>
        /\ session[s] = "open"
        /\ subscribed' = [subscribed EXCEPT ![s] = @ \cup {c}]
    BY <1>10 DEF SubscribeSocket
  <2>2. /\ subscribed'[s] = subscribed[s] \cup {c}
        /\ \A t \in Sockets \ {s} : subscribed'[t] = subscribed[t]
    BY <2>1 DEF Typed, TableTyped
  <2>3. \A d \in Channels, t \in Sockets :
          Registered(t, d)' <=> Registered(t, d) \/ (t = s /\ d = c)
    BY <2>1, JoinRegisters
  <2> QED BY <2>1, <2>2, <2>3 DEF Agree, TableAgrees
<1>11. ASSUME NEW s \in Sockets, NEW c \in Channels, UnsubscribeSocket(s, c)
       PROVE  TableAgrees'
  <2>1. /\ ~ shut /\ channels' = Left(s, {c}) /\ UNCHANGED <<session, alive>>
        /\ subscribed' = [subscribed EXCEPT ![s] = @ \ {c}]
    BY <1>11 DEF UnsubscribeSocket
  <2>2. /\ subscribed'[s] = subscribed[s] \ {c}
        /\ \A t \in Sockets \ {s} : subscribed'[t] = subscribed[t]
    BY <2>1 DEF Typed, TableTyped
  <2>3. \A d \in Channels, t \in Sockets :
          Registered(t, d)' <=> Registered(t, d) /\ ~ (t = s /\ d \in {c})
    BY <2>1, LeaveRegisters
  <2> QED BY <2>1, <2>2, <2>3 DEF Agree, TableAgrees
<1>12. CASE UNCHANGED vars
  BY <1>1, <1>12 DEF vars, managerVars
<1> QED BY <1>2, <1>3, <1>4, <1>5, <1>6, <1>7, <1>8, <1>9, <1>10, <1>11, <1>12
      DEF Next, Consumer

(* For any sockets, alerts and outages, and whatever broadcasts clean up   *)
(* between the steps of the handlers: until the end of the process no      *)
(* channel holds the socket of a handler that has ended, and a peer that   *)
(* is there is in every channel its handler subscribed to.                 *)
THEOREM ChannelsAgreeHolds == Spec => []ChannelsAgree
<1>1. Typed /\ Agree => ChannelsAgree
  BY DEF Typed, TableTyped, Agree, TableAgrees, Registered, ChannelsAgree
<1>2. Typed /\ Typed' /\ Agree /\ [Next]_vars => Agree'
  BY HandlersStep, BroadcastStep, TableAgreesStep DEF Agree
<1> QED BY <1>1, <1>2, AgreeInit, TypedHolds, PTL DEF Spec

(* An alert that is due stays so, or arrives.  The snapshot of a broadcast *)
(* holds every peer that is there and has subscribed (TableAgrees), and a  *)
(* send that raises tells of one that is not (HandlersAgree).              *)
LEMMA AlertKept ==
  ASSUME Typed, Agree, [Next]_vars, NEW a \in Alerts, NEW s \in Sockets, Due(a, s)
  PROVE  Due(a, s)' \/ Arrives(a, s)'
<1> DEFINE Goal == Due(a, s)' \/ Arrives(a, s)'
<1>1. inbox \in Seq(Alerts) /\ received \in [Sockets -> Seq(Alerts)]
  BY DEF Typed, LinkTyped, TaskTyped
<1>2. CASE UNCHANGED <<inbox, pc, alert, todo>>
  BY <1>2 DEF Due
<1>3. ASSUME pubsub' # "on" PROVE Goal
  BY <1>3 DEF Arrives
<1>4. CASE Publish
  <2>1. UNCHANGED <<pc, alert, todo>>
    BY <1>4 DEF Publish, taskVars
  <2>2. CASE inbox' = inbox
    BY <1>2, <2>1, <2>2
  <2>3. CASE inbox' = Append(inbox, offered + 1)
    <3>1. \A i \in DOMAIN inbox : i \in DOMAIN inbox' /\ inbox'[i] = inbox[i]
      BY <1>1, <2>3
    <3> QED BY <2>1, <3>1 DEF Due, Range
  <2> QED BY <1>4, <2>2, <2>3 DEF Publish
<1>5. CASE Connect \/ Wake
  BY <1>5 DEF Connect, Wake, linkVars, Due
<1>6. CASE Subscribe
  <2>1. CASE Reset
    BY <1>3, <2>1 DEF Reset
  <2>2. CASE UNCHANGED inbox
    BY <1>6, <2>2 DEF Subscribe, Due
  <2> QED BY <1>6, <2>1, <2>2 DEF Subscribe
<1>7. CASE ListenFails
  BY <1>3, <1>7 DEF ListenFails, Reset
<1>8. CASE Read
  <2>1. /\ inbox # <<>> /\ inbox' = Tail(inbox) /\ alert' = Head(inbox)
        /\ pc = "listen" /\ UNCHANGED <<channels, shut, alive, subscribed>>
    BY <1>8 DEF Read, Take, managerVars, peerVars
  <2>2. ~ shut
    BY <2>1 DEF Typed, TaskTyped
  <2>3. PICK i \in DOMAIN inbox : inbox[i] = a
    BY <2>1 DEF Due, Range
  <2>4. CASE i # 1
    <3>1. i - 1 \in DOMAIN Tail(inbox) /\ Tail(inbox)[i - 1] = inbox[i]
      BY <1>1, <2>1, <2>4
    <3> QED BY <2>1, <2>3, <3>1 DEF Due, Range
  <2>5. CASE i = 1
    <3>1. alert' = a
      BY <1>1, <2>1, <2>3, <2>5
    <3>2. CASE "alerts" \notin subscribed[s] \/ ~ alive[s]
      BY <2>1, <3>2 DEF Arrives
    <3>3. CASE "alerts" \in subscribed[s] /\ alive[s]
      <4>1. "alerts" \in DOMAIN channels /\ s \in channels["alerts"]
        BY <2>2, <3>3 DEF Agree, TableAgrees, Registered, Channels
      <4>2. pc' = "send" /\ todo' = channels["alerts"]
        BY <1>8, <4>1 DEF Read
      <4> QED BY <3>1, <4>1, <4>2 DEF Due
    <3> QED BY <3>2, <3>3
  <2> QED BY <2>4, <2>5
<1>9. CASE EndBroadcast
  BY <1>9 DEF EndBroadcast, linkVars, Due
<1>10. ASSUME NEW t \in Sockets, Send(t) PROVE Goal
  <2>1. /\ UNCHANGED <<inbox, pc, alert, alive, subscribed>>
        /\ todo' = todo \ {t} /\ (Deliver(t) \/ Refuse(t))
    BY <1>10 DEF Send, linkVars, peerVars
  <2>2. CASE a \in Range(inbox) \/ t # s
    BY <2>1, <2>2 DEF Due
  <2>3. CASE alert = a /\ t = s /\ Deliver(s)
    <3>1. received' = [received EXCEPT ![s] = Append(@, alert)]
      BY <2>3 DEF Deliver
    <3>2. received'[s] = Append(received[s], a) /\ received[s] \in Seq(Alerts)
      BY <1>1, <2>3, <3>1
    <3>3. Len(received[s]) + 1 \in DOMAIN received'[s]
          /\ received'[s][Len(received[s]) + 1] = a
      BY <3>2
    <3> QED BY <3>3 DEF Arrives, Range
  <2>4. CASE t = s /\ Refuse(s)
    <3>1. session[s] # "open" \/ ~ alive[s]
      BY <2>4 DEF Refuse
    <3>2. subscribed[s] = {} \/ ~ alive[s]
      BY <3>1 DEF Agree, HandlersAgree
    <3> QED BY <2>1, <3>2 DEF Arrives
  <2> QED BY <2>1, <2>2, <2>3, <2>4 DEF Due
<1>11. CASE RedisFails \/ RedisReturns \/ PublishFails \/ DisconnectAll
  BY <1>2, <1>11 DEF RedisFails, RedisReturns, PublishFails, DisconnectAll, taskVars, linkVars
<1>12. CASE Stop \/ TaskEnds
  BY <1>3, <1>12 DEF Stop, TaskEnds
<1>13. ASSUME NEW t \in Sockets, Open(t) \/ PeerGone(t) \/ HandlerEnds(t) PROVE Goal
  BY <1>2, <1>13 DEF Open, PeerGone, HandlerEnds, taskVars, linkVars
<1>14. ASSUME NEW t \in Sockets, NEW c \in Channels,
              SubscribeSocket(t, c) \/ UnsubscribeSocket(t, c)
       PROVE  Goal
  BY <1>2, <1>14 DEF SubscribeSocket, UnsubscribeSocket, taskVars, linkVars
<1>15. CASE UNCHANGED vars
  BY <1>2, <1>15 DEF vars, taskVars, linkVars
<1> HIDE DEF Goal
<1> QED
  BY <1>4, <1>5, <1>6, <1>7, <1>8, <1>9, <1>10, <1>11, <1>12, <1>13, <1>14, <1>15
  DEF Next, Consumer, Goal

(* No step loses an alert that has reached the consumer: one socket that   *)
(* raises does not keep another from its alert, and the cleanup of a       *)
(* broadcast leaves no peer out of the next.                               *)
THEOREM AlertsKeptHolds == Spec => AlertsKept
<1>1. Typed /\ Agree /\ [Next]_vars =>
        [\A a \in Alerts, s \in Sockets :
           Due(a, s) => Due(a, s)' \/ Arrives(a, s)']_vars
  BY AlertKept
<1>2. Spec => [](Typed /\ Agree)
  <2>1. Typed /\ Typed' /\ Agree /\ [Next]_vars => Agree'
    BY HandlersStep, BroadcastStep, TableAgreesStep DEF Agree
  <2> QED BY <2>1, AgreeInit, TypedHolds, PTL DEF Spec
<1> QED BY <1>1, <1>2, PTL DEF Spec, AlertsKept

-----------------------------------------------------------------------------
(* What a handler makes of its messages.  The fold over a queue is given   *)
(* by a recursion over sets of indexes; here it is put without recursion:  *)
(* the last message about a channel decides, and where there is none the   *)
(* channel is as it was.                                                   *)

Channel(m) == {Backend(m.path)} \ {"unknown"}
Backends == {Backend(p) : p \in Paths}
Handled(R, m) == IF m.action = "subscribe" THEN R \cup Channel(m)
                                           ELSE R \ Channel(m)
Fold(R, q) == FoldLeft(LAMBDA Q, m : Handled(Q, m), R, q)

\* Of the messages at the indexes in D, none takes b away after i.
NotLost(q, D, b, i) ==
  \A j \in D : j > i /\ b \in Channel(q[j]) => q[j].action = "subscribe"

Holds(R, q, D, b) ==
  \/ b \in R /\ NotLost(q, D, b, 0)
  \/ \E i \in D : /\ b \in Channel(q[i]) /\ q[i].action = "subscribe"
                  /\ NotLost(q, D, b, i)

After(R, q, D) == {b \in R \cup Backends : Holds(R, q, D, b)}

\* Of the sets in T, all of them subsets of a finite set, one is smallest.
LEMMA SmallestSet ==
  ASSUME NEW D, IsFiniteSet(D), NEW T \in SUBSET (SUBSET D), T # {}
  PROVE  \E m \in T : \A s \in T : s \subseteq m => s = m
<1> DEFINE R == StrictSubsetOrdering(D)
<1>1. IsWellFoundedOn(R, FiniteSubsetsOf(D))
  BY FS_StrictSubsetOrderingWellFounded
<1>2. T \subseteq FiniteSubsetsOf(D)
  BY FS_Subset DEF FiniteSubsetsOf
<1> HIDE DEF R
<1>3. PICK m \in T : \A s \in T : ~ (<<s, m>> \in R)
  BY <1>1, <1>2, WFMin
<1>4. \A s \in T : s \subseteq m => s = m
  BY <1>3 DEF R, StrictSubsetOrdering
<1> QED BY <1>4

\* The greatest of finitely many numbers.
LEMMA Greatest ==
  ASSUME NEW D, IsFiniteSet(D), D # {}, \A i \in D : i \in Nat
  PROVE  \E x \in D : \A y \in D : x >= y
<1> DEFINE From(k) == {i \in D : i >= k}
           T == {s \in SUBSET D : \E k \in D : s = From(k)}
<1>1. T \in SUBSET (SUBSET D)
  OBVIOUS
<1>2. T # {}
  <2>1. PICK k \in D : TRUE
    OBVIOUS
  <2>2. From(k) \in T
    OBVIOUS
  <2> QED BY <2>2
<1>3. PICK s \in T : \A t \in T : t \subseteq s => t = s
  <2> HIDE DEF T
  <2> QED BY <1>1, <1>2, SmallestSet
<1>4. PICK k \in D : s = From(k)
  BY <1>3
<1>5. ASSUME NEW y \in D PROVE k >= y
  <2> SUFFICES ASSUME y > k PROVE FALSE
    BY <1>4, <1>5
  <2>1. From(y) \in T
    OBVIOUS
  <2>2. From(y) \subseteq s /\ k \in s /\ k \notin From(y)
    BY <1>4
  <2> HIDE DEF From, T
  <2> QED BY <1>3, <2>1, <2>2
<1> QED BY <1>5

LEMMA MaxOfNumbers ==
  ASSUME NEW n \in Nat, NEW D \in SUBSET (1 .. n), D # {}
  PROVE  Max(D) \in D /\ \A i \in D : i <= Max(D)
<1>1. IsFiniteSet(1 .. n)
  BY FS_Interval
<1>2. IsFiniteSet(D)
  BY <1>1, FS_Subset
<1>3. \A i \in D : i \in Nat
  OBVIOUS
<1>4. \E x \in D : \A y \in D : x >= y
  BY <1>2, <1>3, Greatest
<1>5. Max(D) \in D /\ \A i \in D : Max(D) >= i
  BY <1>4 DEF Max
<1> QED BY <1>3, <1>5

\* One message more.
LastOf(D, x) == x \in D /\ \A i \in D : i \in Nat \ {0} /\ i <= x

LEMMA AfterOneMore ==
  ASSUME NEW R, NEW q, NEW D, NEW x, LastOf(D, x),
         Channel(q[x]) \subseteq Backends
  PROVE  After(R, q, D) = Handled(After(R, q, D \ {x}), q[x])
<1> USE DEF LastOf
<1> DEFINE E == D \ {x}
<1>1. ASSUME NEW b, b \notin Channel(q[x])
      PROVE  Holds(R, q, D, b) <=> Holds(R, q, E, b)
  <2>1. ASSUME NEW i PROVE NotLost(q, D, b, i) <=> NotLost(q, E, b, i)
    BY <1>1 DEF NotLost
  <2> QED BY <1>1, <2>1 DEF Holds
<1>2. ASSUME NEW b \in Channel(q[x])
      PROVE  Holds(R, q, D, b) <=> q[x].action = "subscribe"
  <2>1. CASE q[x].action = "subscribe"
    <3>1. NotLost(q, D, b, x)
      BY DEF NotLost
    <3> QED BY <2>1, <3>1 DEF Holds
  <2>2. CASE q[x].action # "subscribe"
    <3>1. x \in Nat /\ x > 0 /\ \A i \in D : i \in Nat
      OBVIOUS
    <3>2. ASSUME NEW i \in D \cup {0}, i # x PROVE x > i
      BY <3>1, <3>2
    <3>3. \A i \in D \cup {0} : NotLost(q, D, b, i) => i = x
      BY <1>2, <2>2, <3>2 DEF NotLost
    <3> QED BY <2>2, <3>1, <3>3 DEF Holds
  <2> QED BY <2>1, <2>2
<1> HIDE DEF E
<1> QED BY <1>1, <1>2 DEF After, Handled, E

LEMMA AfterNothing ==
  ASSUME NEW R, NEW q
  PROVE  After(R, q, {}) = R
BY DEF After, Holds, NotLost

\* The recursion that defines the fold, and its solution.
FoldAt(R, q, g, s) == IF s = {} THEN R ELSE Handled(g[s \ {Max(s)}], q[Max(s)])
Folds(R, q, g) == g = [s \in SUBSET DOMAIN q |-> FoldAt(R, q, g, s)]

LEMMA AfterSolves ==
  ASSUME NEW R, NEW q \in Seq(Message), NEW s \in SUBSET DOMAIN q, s # {}
  PROVE  /\ Max(s) \in s
         /\ After(R, q, s) = Handled(After(R, q, s \ {Max(s)}), q[Max(s)])
<1>1. /\ DOMAIN q = 1 .. Len(q) /\ Len(q) \in Nat
      /\ \A i \in DOMAIN q : q[i] \in Message
  BY SeqShape
<1>2. Max(s) \in s /\ \A i \in s : i <= Max(s)
  BY <1>1, MaxOfNumbers
<1>3. LastOf(s, Max(s))
  BY <1>1, <1>2 DEF LastOf
<1>4. Channel(q[Max(s)]) \subseteq Backends
  <2>1. q[Max(s)] \in Message
    BY <1>1, <1>2
  <2> QED BY <2>1 DEF Channel, Backends, Message
<1> QED BY <1>2, <1>3, <1>4, AfterOneMore

LEMMA FoldIs ==
  ASSUME NEW R, NEW q \in Seq(Message)
  PROVE  Fold(R, q) = After(R, q, DOMAIN q)
<1> DEFINE D == DOMAIN q
           len == Len(q)
           a == [s \in SUBSET D |-> After(R, q, s)]
           c == CHOOSE g : Folds(R, q, g)
<1>1. D = 1 .. len /\ len \in Nat /\ \A i \in D : q[i] \in Message
  OBVIOUS
<1>2. ASSUME NEW s \in SUBSET D, s # {} PROVE Max(s) \in s
  BY <1>2, AfterSolves
<1>3. Folds(R, q, a)
  <2>1. ASSUME NEW s \in SUBSET D PROVE a[s] = FoldAt(R, q, a, s)
    <3>1. CASE s = {}
      BY <3>1, AfterNothing DEF FoldAt
    <3>2. CASE s # {}
      <4>1. Max(s) \in s
        BY <3>2, AfterSolves
      <4>2. After(R, q, s) = Handled(After(R, q, s \ {Max(s)}), q[Max(s)])
        BY <3>2, AfterSolves
      <4> QED BY <3>2, <4>1, <4>2 DEF FoldAt
    <3> QED BY <3>1, <3>2
  <2> QED BY <2>1 DEF Folds
<1>4. Folds(R, q, c)
  BY <1>3
<1>5. Fold(R, q) = c[D]
  BY Zenon DEF Fold, FoldLeft, MapThenFoldSet, Folds, FoldAt
<1> HIDE DEF c, a, D, len
<1>6. c[D] = a[D]
  <2> DEFINE Differ == {s \in SUBSET D : c[s] # a[s]}
  <2> SUFFICES ASSUME Differ # {} PROVE FALSE
    OBVIOUS
  <2>1. PICK s \in Differ : \A t \in Differ : t \subseteq s => t = s
    <3>1. Differ \in SUBSET (SUBSET D)
      OBVIOUS
    <3>2. len \in Nat
      BY <1>1
    <3>3. IsFiniteSet(1 .. len)
      BY <3>2, FS_Interval
    <3>4. IsFiniteSet(D)
      BY <1>1, <3>3
    <3> HIDE DEF Differ
    <3> QED BY <3>1, <3>4, SmallestSet
  <2>2. s \in SUBSET D /\ c[s] # a[s]
    BY <2>1
  <2>3. c[s] = FoldAt(R, q, c, s) /\ a[s] = FoldAt(R, q, a, s)
    BY <1>3, <1>4, <2>2 DEF Folds, D
  <2>4. s # {}
    BY <2>2, <2>3 DEF FoldAt
  <2>5. Max(s) \in s
    BY <1>2, <2>2, <2>4
  <2>6. s \ {Max(s)} \notin Differ /\ s \ {Max(s)} \in SUBSET D
    BY <2>1, <2>2, <2>5
  <2>7. c[s \ {Max(s)}] = a[s \ {Max(s)}]
    BY <2>6
  <2> QED BY <2>2, <2>3, <2>4, <2>7 DEF FoldAt
<1>7. a[D] = After(R, q, D)
  BY DEF a
<1> QED BY <1>5, <1>6, <1>7 DEF D

LEMMA FoldEmpty ==
  ASSUME NEW R
  PROVE  Fold(R, <<>>) = R
<1>1. <<>> \in Seq(Message)
  BY EmptySeq
<1>2. DOMAIN <<>> = {}
  OBVIOUS
<1> QED BY <1>1, <1>2, FoldIs, AfterNothing

\* The message sent last is handled last.
LEMMA FoldAppend ==
  ASSUME NEW R, NEW q \in Seq(Message), NEW m \in Message
  PROVE  Fold(R, Append(q, m)) = Handled(Fold(R, q), m)
<1> DEFINE long == Append(q, m)
           D == DOMAIN long
           x == Len(q) + 1
<1>1. /\ D = 1 .. x /\ DOMAIN q = D \ {x} /\ Len(q) \in Nat
      /\ long \in Seq(Message) /\ long[x] = m
      /\ \A i \in DOMAIN q : long[i] = q[i]
  <2>1. Len(q) \in Nat /\ DOMAIN q = 1 .. Len(q)
    BY SeqShape
  <2>2. /\ long \in Seq(Message) /\ D = 1 .. x /\ long[x] = m
        /\ \A i \in DOMAIN q : long[i] = q[i]
    BY AppendShape
  <2> QED BY <2>1, <2>2
<1>2. Channel(long[x]) \subseteq Backends
  BY <1>1 DEF Channel, Backends, Message
<1>3. LastOf(D, x)
  BY <1>1 DEF LastOf
<1> HIDE DEF long, D, x
<1>4. After(R, long, D) = Handled(After(R, long, D \ {x}), m)
  <2>1. After(R, long, D) = Handled(After(R, long, D \ {x}), long[x])
    BY <1>2, <1>3, AfterOneMore
  <2> QED BY <1>1, <2>1
<1>5. After(R, long, DOMAIN q) = After(R, q, DOMAIN q)
  <2>1. \A b, i : NotLost(long, DOMAIN q, b, i) <=> NotLost(q, DOMAIN q, b, i)
    BY <1>1 DEF NotLost
  <2>2. \A b : Holds(R, long, DOMAIN q, b) <=> Holds(R, q, DOMAIN q, b)
    BY <1>1, <2>1 DEF Holds
  <2> QED BY <2>2 DEF After
<1>6. Fold(R, long) = After(R, long, D) /\ Fold(R, q) = After(R, q, DOMAIN q)
  BY <1>1, FoldIs DEF D
<1> QED BY <1>1, <1>4, <1>5, <1>6 DEF long

\* It makes no difference to the outcome that the first message is read.
LEMMA FoldHead ==
  ASSUME NEW R, NEW q \in Seq(Message), q # <<>>
  PROVE  Fold(Handled(R, Head(q)), Tail(q)) = Fold(R, q)
<1> DEFINE m == Head(q)
           t == Tail(q)
           Q == Handled(R, m)
           D == DOMAIN q
           E == DOMAIN t
<1>1. /\ m \in Message /\ t \in Seq(Message) /\ 1 \in D /\ m = q[1]
      /\ \A i \in E : i \in Nat /\ i >= 1 /\ i + 1 \in D /\ t[i] = q[i + 1]
  BY TailShape
<1>2. \A i \in D : i = 1 \/ (i \in Nat /\ i > 1 /\ i - 1 \in E /\ t[i - 1] = q[i])
  OBVIOUS
<1>3. Channel(m) \subseteq Backends
  BY <1>1 DEF Channel, Backends, Message
<1> HIDE DEF m, t, D, E
<1>4. ASSUME NEW b, NEW i \in E \cup {0}
      PROVE  NotLost(t, E, b, i) <=> NotLost(q, D, b, i + 1)
  <2>1. ASSUME NotLost(t, E, b, i), NEW j \in D, j > i + 1, b \in Channel(q[j])
        PROVE  q[j].action = "subscribe"
    <3>1. i \in Nat
      BY <1>1
    <3>2. j \in Nat /\ j - 1 \in E /\ t[j - 1] = q[j]
      BY <1>2, <2>1, <3>1
    <3>3. j - 1 > i
      BY <2>1, <3>1, <3>2
    <3> QED BY <2>1, <3>2, <3>3 DEF NotLost
  <2>2. ASSUME NotLost(q, D, b, i + 1), NEW j \in E, j > i, b \in Channel(t[j])
        PROVE  t[j].action = "subscribe"
    <3>1. i \in Nat
      BY <1>1
    <3>2. j + 1 \in D /\ t[j] = q[j + 1] /\ j + 1 > i + 1
      BY <1>1, <2>2, <3>1
    <3> QED BY <2>2, <3>2 DEF NotLost
  <2>3. NotLost(t, E, b, i) => NotLost(q, D, b, i + 1)
    BY <2>1 DEF NotLost
  <2>4. NotLost(q, D, b, i + 1) => NotLost(t, E, b, i)
    BY <2>2 DEF NotLost
  <2> QED BY <2>3, <2>4
<1>5. ASSUME NEW b PROVE Holds(Q, t, E, b) <=> Holds(R, q, D, b)
  <2> DEFINE First == b \in Q /\ NotLost(q, D, b, 1)
             Later(i) == /\ b \in Channel(q[i]) /\ q[i].action = "subscribe"
                         /\ NotLost(q, D, b, i)
  <2>1. Holds(Q, t, E, b) <=> First \/ \E i \in E : Later(i + 1)
    <3>1. NotLost(t, E, b, 0) <=> NotLost(q, D, b, 1)
      BY <1>4
    <3>2. \A i \in E : NotLost(t, E, b, i) <=> NotLost(q, D, b, i + 1)
      BY <1>4
    <3>3. \A i \in E : t[i] = q[i + 1]
      BY <1>1
    <3> QED BY <3>1, <3>2, <3>3 DEF Holds
  <2>2. (\E i \in E : Later(i + 1)) <=> \E i \in D : i # 1 /\ Later(i)
    <3> HIDE DEF Later
    <3>1. \A i \in E : i + 1 \in D /\ i + 1 # 1
      BY <1>1
    <3>2. \A i \in D : i # 1 => i - 1 \in E /\ (i - 1) + 1 = i
      BY <1>2
    <3> QED BY <3>1, <3>2
  <2>3. First <=> (b \in R /\ NotLost(q, D, b, 0)) \/ Later(1)
    <3>1. NotLost(q, D, b, 0)
            <=> /\ b \in Channel(q[1]) => q[1].action = "subscribe"
                /\ NotLost(q, D, b, 1)
      <4>1. \A j \in D : j > 0 <=> (j = 1 \/ j > 1)
        BY <1>2
      <4> QED BY <1>1, <4>1 DEF NotLost
    <3> QED BY <1>1, <3>1 DEF Handled
  <2>4. Holds(R, q, D, b) <=> \/ b \in R /\ NotLost(q, D, b, 0)
                              \/ \E i \in D : Later(i)
    BY DEF Holds
  <2> HIDE DEF First, Later
  <2> QED BY <1>1, <2>1, <2>2, <2>3, <2>4
<1>6. After(Q, t, E) = After(R, q, D)
  BY <1>3, <1>5 DEF After, Handled
<1>7. Fold(Q, t) = After(Q, t, E) /\ Fold(R, q) = After(R, q, D)
  BY <1>1, FoldIs DEF D, E
<1> QED BY <1>6, <1>7 DEF t, m

\* Subscriptions add up.
LEMMA FoldSubscribes ==
  ASSUME NEW R, NEW q \in Seq(Message), NEW t \in Seq(Message),
         \A i \in DOMAIN t : t[i].action = "subscribe"
  PROVE  \A b : b \in Fold(R, q \o t)
           <=> b \in Fold(R, q) \/ \E i \in DOMAIN t : b \in Channel(t[i])
<1> DEFINE long == q \o t
           len == Len(q)
           D == DOMAIN q
           E == DOMAIN t
           L == DOMAIN long
<1>1. /\ len \in Nat /\ D = 1 .. len /\ long \in Seq(Message)
      /\ \A i \in D : i \in L /\ long[i] = q[i]
      /\ \A i \in E : i \in Nat /\ len + i \in L /\ len + i > 0 /\ long[len + i] = t[i]
      /\ \A j \in L : \/ j \in D
                      \/ j \in Nat /\ j > len /\ j - len \in E /\ long[j] = t[j - len]
  OBVIOUS
<1>2. \A i \in E : Channel(t[i]) \subseteq Backends
  <2>1. \A i \in E : t[i] \in Message
    BY SeqShape
  <2> QED BY <2>1 DEF Channel, Backends, Message
<1>3. Fold(R, long) = After(R, long, L) /\ Fold(R, q) = After(R, q, D)
  BY <1>1, FoldIs
<1> HIDE DEF long, len, D, E, L
<1>4. \A j \in L : j \notin D => long[j].action = "subscribe"
  BY <1>1 DEF E
<1>5. ASSUME NEW b, NEW i \in D \cup {0}
      PROVE  NotLost(long, L, b, i) <=> NotLost(q, D, b, i)
  BY <1>1, <1>4 DEF NotLost
<1>6. ASSUME NEW b PROVE Holds(R, q, D, b) => Holds(R, long, L, b)
  BY <1>1, <1>5 DEF Holds
<1>7. ASSUME NEW b, NEW i \in E, b \in Channel(t[i]) PROVE Holds(R, long, L, b)
  <2>1. len + i \in L /\ long[len + i] = t[i] /\ i \in Nat
    BY <1>1
  <2>2. NotLost(long, L, b, len + i)
    <3>1. ASSUME NEW j \in L, j > len + i PROVE long[j].action = "subscribe"
      <4>1. j \notin D
        BY <1>1, <2>1, <3>1
      <4> QED BY <1>4, <4>1
    <3> QED BY <3>1 DEF NotLost
  <2>3. t[i].action = "subscribe"
    BY DEF E
  <2> QED BY <1>7, <2>1, <2>2, <2>3 DEF Holds
<1>8. ASSUME NEW b, Holds(R, long, L, b), \A i \in E : b \notin Channel(t[i])
      PROVE  Holds(R, q, D, b)
  <2>1. \A j \in L : b \in Channel(long[j]) => j \in D
    BY <1>1, <1>8
  <2> QED BY <1>1, <1>5, <1>8, <2>1 DEF Holds
<1>9. ASSUME NEW b
      PROVE  b \in After(R, long, L)
               <=> b \in After(R, q, D) \/ \E i \in E : b \in Channel(t[i])
  BY <1>2, <1>6, <1>7, <1>8 DEF After
<1> QED BY <1>3, <1>9 DEF long, E

\* A finite set as a sequence.
LEMMA SequenceOfSet ==
  ASSUME NEW S, IsFiniteSet(S)
  PROVE  /\ SetToSeq(S) \in Seq(S)
         /\ \A x \in S : \E i \in DOMAIN SetToSeq(S) : SetToSeq(S)[i] = x
<1> DEFINE n == Cardinality(S)
           f == SetToSeq(S)
<1>1. n \in Nat /\ ExistsBijection(1 .. n, S)
  BY FS_CardinalityType
<1>2. PICK g : g \in Bijection(1 .. n, S)
  BY <1>1 DEF ExistsBijection
<1>3. g \in [1 .. n -> S] /\ IsInjective(g)
  BY <1>2 DEF Bijection, Injection, IsInjective
<1>4. f \in [1 .. n -> S] /\ IsInjective(f)
  BY <1>3 DEF SetToSeq
<1> HIDE DEF f
<1>5. f \in Injection(1 .. n, S)
  BY <1>4 DEF Injection, IsInjective
<1>6. IsFiniteSet(1 .. n) /\ Cardinality(1 .. n) = n
  BY <1>1, FS_Interval
<1>7. f \in Surjection(1 .. n, S)
  <2> HIDE DEF n
  <2>1. Cardinality(1 .. n) = Cardinality(S)
    BY <1>6 DEF n
  <2> QED BY <1>5, <2>1, FS_Injection
<1>8. f \in Seq(S) /\ DOMAIN f = 1 .. n
  BY <1>1, <1>4
<1>9. \A x \in S : \E i \in 1 .. n : f[i] = x
  BY <1>7 DEF Surjection
<1> QED BY <1>8, <1>9 DEF f

LEMMA SequenceOfOne ==
  ASSUME NEW x
  PROVE  SetToSeq({x}) = <<x>>
<1> DEFINE f == SetToSeq({x})
<1>1. IsFiniteSet({x}) /\ Cardinality({x}) = 1
  BY FS_Singleton
<1>2. \E g \in [1 .. 1 -> {x}] : IsInjective(g)
  <2> DEFINE g == [i \in 1 .. 1 |-> x]
  <2>1. g \in [1 .. 1 -> {x}] /\ IsInjective(g)
    BY DEF IsInjective
  <2> QED BY <2>1
<1>3. f \in [1 .. 1 -> {x}]
  BY <1>1, <1>2 DEF SetToSeq
<1> HIDE DEF f
<1>4. f \in Seq({x}) /\ Len(f) = 1 /\ f[1] = x
  BY <1>3
<1>5. f = <<x>>
  BY <1>4
<1> QED BY <1>5 DEF f
-----------------------------------------------------------------------------
(* Types of the page's end.                                                *)

PageSide ==
  /\ auth \in {"loading", "in", "out"}
  /\ mounted \in [Components -> Paths \cup {"none"}]
  /\ Wanted # {} => auth = "in"
  /\ deaf \subseteq Paths

SocketSide ==
  /\ ws \in 0 .. MaxSockets
  /\ state \in [SocketIds -> {"none", "connecting", "open", "closing", "closed"}]
  /\ ws # 0 => state[ws] \in {"connecting", "open", "closed"}
  /\ \E n \in 0 .. MaxSockets : Created = 1 .. n

QueueSide ==
  /\ queue \in [SocketIds -> Seq(Message)]
  /\ registered \in [SocketIds -> SUBSET Backends]
  /\ \A s \in SocketIds : state[s] # "open" => queue[s] = <<>> /\ registered[s] = {}

CallSide ==
  /\ waiting \in Nat /\ timers \in Nat
  /\ attempts \in 0 .. MaxAttempts
  /\ isConnecting \in BOOLEAN /\ shouldReconnect \in BOOLEAN /\ raced \in BOOLEAN
  /\ isConnecting => \E s \in SocketIds : state[s] \in {"connecting", "closing"}
  /\ losses \in Nat /\ refusals \in Nat /\ signOuts \in Nat

PageTyped == PageSide /\ SocketSide /\ QueueSide /\ CallSide

LEMMA PageBounds == MaxAttempts \in Nat /\ MaxSockets \in Nat
BY PageBoundAssumption

LEMMA WantedPaths ==
  ASSUME PageSide
  PROVE  Wanted \subseteq Paths /\ IsFiniteSet(Wanted)
<1>1. Wanted \subseteq Paths
  BY DEF PageSide, Wanted
<1> DEFINE T == {mounted[c] : c \in Components}
<1>2. mounted \in Surjection(Components, T)
  BY DEF PageSide, Surjection
<1>3. IsFiniteSet(T)
  <2> HIDE DEF T
  <2> QED BY <1>2, ComponentAssumption, FS_Surjection
<1>4. Wanted \subseteq T
  BY DEF Wanted
<1>5. IsFiniteSet(Wanted)
  BY <1>3, <1>4, FS_Subset
<1> QED BY <1>1, <1>5

LEMMA MessagesFinite ==
  ASSUME NEW a, NEW P, IsFiniteSet(P)
  PROVE  IsFiniteSet([action : {a}, path : P])
<1> DEFINE S == [action : {a}, path : P]
           f == [p \in P |-> [action |-> a, path |-> p]]
<1>1. f \in Surjection(P, S)
  <2>1. f \in [P -> S]
    OBVIOUS
  <2>2. ASSUME NEW m \in S PROVE \E p \in P : f[p] = m
    <3>1. m = [action |-> a, path |-> m.path] /\ m.path \in P
      OBVIOUS
    <3> QED BY <3>1
  <2> QED BY <2>1, <2>2 DEF Surjection
<1> HIDE DEF f, S
<1>2. IsFiniteSet(S)
  BY <1>1, FS_Surjection
<1> QED BY <1>2 DEF S

\* What is sent, and where it ends up.
LEMMA Sent ==
  ASSUME QueueSide, NEW s \in SocketIds, NEW a \in {"subscribe", "unsubscribe"},
         NEW P \in SUBSET Paths, IsFiniteSet(P), SendSubscription(s, a, P)
  PROVE  /\ queue' \in [SocketIds -> Seq(Message)]
         /\ \A t \in SocketIds : t # s => queue'[t] = queue[t]
         /\ queue'[s] = queue[s] \o SetToSeq([action : {a}, path : P])
         /\ SetToSeq([action : {a}, path : P]) \in Seq(Message)
<1> DEFINE S == [action : {a}, path : P]
           more == SetToSeq(S)
<1>1. more \in Seq(S)
  <2>1. IsFiniteSet(S)
    BY MessagesFinite
  <2> HIDE DEF S
  <2> QED BY <2>1, SequenceOfSet
<1>2. S \subseteq Message
  BY DEF Message
<1>3. more \in Seq(Message)
  <2> HIDE DEF S, more
  <2> QED BY <1>1, <1>2, SeqMonotonic
<1>4. queue' = [queue EXCEPT ![s] = @ \o more]
  BY DEF SendSubscription
<1> HIDE DEF more
<1>5. queue[s] \o more \in Seq(Message)
  BY <1>3 DEF QueueSide
<1> QED BY <1>3, <1>4, <1>5 DEF QueueSide, more

LEMMA PageTypedInit == PageInit => PageTyped
<1> SUFFICES ASSUME PageInit PROVE PageTyped
  OBVIOUS
<1>1. PageSide
  BY AuthAssumption DEF PageInit, PageSide, Wanted
<1>2. SocketSide
  <2>1. Created = {}
    BY DEF PageInit, Created
  <2>2. 1 .. 0 = {} /\ 0 \in 0 .. MaxSockets
    BY PageBounds
  <2> QED BY <2>1, <2>2 DEF PageInit, SocketSide
<1>3. QueueSide
  <2>1. <<>> \in Seq(Message)
    BY EmptySeq
  <2> QED BY <2>1 DEF PageInit, QueueSide
<1>4. CallSide
  <2>1. shouldReconnect \in BOOLEAN
    BY DEF PageInit
  <2>2. waiting \in Nat /\ attempts \in 0 .. MaxAttempts
    BY PageBounds DEF PageInit
  <2> QED BY <2>1, <2>2 DEF PageInit, CallSide
<1> QED BY <1>1, <1>2, <1>3, <1>4 DEF PageTyped

LEMMA PageSideStep == PageTyped /\ [PageNext]_wsVars => PageSide'
<1> SUFFICES ASSUME PageTyped, [PageNext]_wsVars PROVE PageSide'
  OBVIOUS
<1> USE DEF PageTyped
<1>1. CASE SignIn
  BY <1>1 DEF SignIn, PageSide, Wanted
<1>2. CASE SignOut
  BY <1>2 DEF SignOut, PageSide, Wanted
<1>3. CASE Token \/ NoToken \/ Timer \/ UNCHANGED wsVars
  BY <1>3 DEF Token, NoToken, Timer, wsVars, pageVars, PageSide, Wanted
<1>4. ASSUME NEW c \in Components, Unmount(c) PROVE PageSide'
  <2>1. Wanted' \subseteq Wanted
    BY <1>4 DEF Unmount, PageSide, Wanted
  <2>2. mounted' \in [Components -> Paths \cup {"none"}] /\ auth' = auth
    BY <1>4 DEF Unmount, PageSide
  <2>3. deaf' \subseteq Paths
    BY <1>4, WantedPaths DEF Unmount, PageSide
  <2> QED BY <2>1, <2>2, <2>3 DEF PageSide
<1>5. ASSUME NEW c \in Components, NEW p \in Paths, Mount(c, p) PROVE PageSide'
  BY <1>5 DEF Mount, PageSide
<1>6. ASSUME NEW s \in SocketIds, Opened(s) \/ Closed(s) \/ ServerReads(s)
      PROVE  PageSide'
  <2>1. auth' = auth /\ mounted' = mounted /\ (deaf' = deaf \/ deaf' = {})
    BY <1>6 DEF Opened, Closed, ServerReads, pageVars
  <2> QED BY <2>1 DEF PageSide, Wanted
<1> QED BY <1>1, <1>2, <1>3, <1>4, <1>5, <1>6 DEF PageNext

LEMMA SocketSideStep == PageTyped /\ [PageNext]_wsVars => SocketSide'
<1> SUFFICES ASSUME PageTyped, [PageNext]_wsVars PROVE SocketSide'
  OBVIOUS
<1> USE DEF PageTyped
<1>1. ASSUME Disconnect PROVE SocketSide'
  <2>1. \A s \in SocketIds : state'[s] = "none" <=> state[s] = "none"
    BY <1>1 DEF Disconnect, SocketSide, Live
  <2>2. Created' = Created
    BY <2>1 DEF Created
  <2>3. /\ ws' = 0 /\ 0 \in 0 .. MaxSockets
        /\ state' \in [SocketIds -> {"none", "connecting", "open", "closing", "closed"}]
    BY <1>1, PageBounds DEF Disconnect, SocketSide
  <2> QED BY <2>2, <2>3 DEF SocketSide
<1>2. CASE SignIn \/ SignOut
  BY <1>1, <1>2 DEF SignIn, SignOut
<1>3. ASSUME UNCHANGED <<ws, state>> PROVE SocketSide'
  BY <1>3 DEF SocketSide, Created
<1>4. CASE NoToken \/ Timer \/ UNCHANGED wsVars
  BY <1>3, <1>4 DEF NoToken, Timer, wsVars, socketVars
<1>5. ASSUME NEW c \in Components, Unmount(c) \/ \E p \in Paths : Mount(c, p)
      PROVE  SocketSide'
  BY <1>3, <1>5 DEF Unmount, Mount
<1>6. CASE Token
  <2>1. PICK k \in 0 .. MaxSockets : Created = 1 .. k
    BY DEF SocketSide
  <2>2. Cardinality(Created) = k
    BY <2>1, FS_Interval
  <2> DEFINE s == k + 1
  <2>3. k \in Nat /\ MaxSockets \in Nat /\ k < MaxSockets
    <3>1. k \in Nat /\ MaxSockets \in Nat /\ k <= MaxSockets
      BY PageBounds
    <3>2. k # MaxSockets
      BY <1>6, <2>1 DEF Token, Created, SocketIds
    <3> QED BY <3>1, <3>2
  <2>4. s \in SocketIds /\ s \in 1 .. MaxSockets /\ s # 0
    BY <2>3 DEF SocketIds
  <2>5. ws' = s /\ state' = [state EXCEPT ![s] = "connecting"]
    BY <1>6, <2>2 DEF Token
  <2>6. Created' = 1 .. s
    <3>1. \A t \in SocketIds : state'[t] # "none" <=> (state[t] # "none" \/ t = s)
      BY <2>4, <2>5 DEF SocketSide
    <3>2. Created' = Created \cup {s}
      BY <2>4, <3>1 DEF Created
    <3> QED BY <2>1, <2>3, <3>2
  <2>7. /\ ws' \in 0 .. MaxSockets /\ state'[ws'] = "connecting"
        /\ state' \in [SocketIds -> {"none", "connecting", "open", "closing", "closed"}]
    BY <2>3, <2>4, <2>5 DEF SocketSide
  <2>8. s \in 0 .. MaxSockets
    BY <2>3
  <2>9. \E m \in 0 .. MaxSockets : Created' = 1 .. m
    BY <2>6, <2>8
  <2> HIDE DEF s
  <2> QED BY <2>7, <2>9 DEF SocketSide
<1>7. ASSUME NEW s \in SocketIds, Opened(s) \/ Closed(s) PROVE SocketSide'
  <2>1. /\ ws' = ws
        /\ state' = [state EXCEPT ![s] = "open"] \/ state' = [state EXCEPT ![s] = "closed"]
    BY <1>7 DEF Opened, Closed
  <2>2. state[s] # "none"
    BY <1>7 DEF Opened, Closed, Live
  <2>3. \A t \in SocketIds : state'[t] = "none" <=> state[t] = "none"
    BY <2>1, <2>2 DEF SocketSide
  <2>4. Created' = Created
    BY <2>3 DEF Created
  <2>5. ws # 0 => ws \in SocketIds
    BY PageBounds DEF SocketSide, SocketIds
  <2>6. (ws # 0 => state[ws] \in {"connecting", "open", "closed"})'
    BY <2>1, <2>5 DEF SocketSide
  <2> QED BY <2>1, <2>4, <2>6 DEF SocketSide
<1>8. ASSUME NEW s \in SocketIds, ServerReads(s) PROVE SocketSide'
  BY <1>3, <1>8 DEF ServerReads
<1> QED BY <1>2, <1>4, <1>5, <1>6, <1>7, <1>8 DEF PageNext

LEMMA CallSideStep == PageTyped /\ [PageNext]_wsVars => CallSide'
<1> SUFFICES ASSUME PageTyped, [PageNext]_wsVars PROVE CallSide'
  OBVIOUS
<1> USE DEF PageTyped
<1>1. ASSUME Disconnect PROVE /\ shouldReconnect' \in BOOLEAN /\ raced' \in BOOLEAN
                              /\ \A s \in SocketIds :
                                   state[s] \in {"connecting", "closing"}
                                     => state'[s] \in {"connecting", "closing"}
  BY <1>1 DEF Disconnect, CallSide, SocketSide, Live
<1>2. CASE SignIn \/ SignOut
  BY <1>1, <1>2 DEF SignIn, SignOut, BeginConnect, CallSide, boundVars
<1>3. CASE Token
  <2>1. PICK n \in 0 .. MaxSockets : Created = 1 .. n
    BY DEF SocketSide
  <2>2. SocketSide'
    BY <1>3, SocketSideStep DEF PageNext
  <2>3. ws' # 0 /\ ws' \in SocketIds /\ state'[ws'] = "connecting"
    <3>1. Cardinality(Created) = n /\ n \in Nat
      BY <2>1, FS_Interval
    <3>2. ws' = n + 1
      BY <1>3, <3>1 DEF Token
    <3>3. ws' \in SocketIds
      BY <2>2, <3>1, <3>2 DEF SocketSide, SocketIds
    <3> QED BY <1>3, <3>1, <3>2, <3>3 DEF Token, SocketSide
  <2> QED BY <1>3, <2>3 DEF Token, CallSide, boundVars
<1>4. ASSUME state' = state, attempts' = attempts, UNCHANGED <<isConnecting,
               shouldReconnect, raced, losses, signOuts>>,
             waiting' \in Nat, timers' \in Nat, refusals' \in Nat
      PROVE  CallSide'
  BY <1>4 DEF CallSide
<1>5. CASE NoToken \/ Timer
  BY <1>4, <1>5 DEF NoToken, Timer, BeginConnect, CallSide, socketVars, boundVars
<1>6. CASE UNCHANGED wsVars
  BY <1>4, <1>6 DEF wsVars, CallSide, socketVars, callVars, boundVars
<1>7. ASSUME NEW c \in Components, Unmount(c) PROVE CallSide'
  BY <1>4, <1>7 DEF Unmount, CallSide, callVars, boundVars
<1>8. ASSUME NEW c \in Components, NEW p \in Paths, Mount(c, p) PROVE CallSide'
  BY <1>4, <1>8 DEF Mount, BeginConnect, CallSide
<1>9. ASSUME NEW s \in SocketIds, Opened(s) PROVE CallSide'
  <2>1. raced' \in BOOLEAN
    BY <1>9 DEF Opened
  <2>2. attempts' \in 0 .. MaxAttempts
    BY <1>9, PageBounds DEF Opened
  <2> QED BY <1>9, <2>1, <2>2 DEF Opened, CallSide, boundVars
<1>10. ASSUME NEW s \in SocketIds, Closed(s) PROVE CallSide'
  <2>1. attempts' \in 0 .. MaxAttempts /\ timers' \in Nat
    <3>1. ScheduleReconnect
      BY <1>10 DEF Closed
    <3> QED BY <3>1, PageBounds DEF ScheduleReconnect, CallSide
  <2>2. losses' \in Nat /\ raced' \in BOOLEAN
    BY <1>10 DEF Closed, CallSide
  <2> QED BY <1>10, <2>1, <2>2 DEF Closed, CallSide
<1>11. ASSUME NEW s \in SocketIds, ServerReads(s) PROVE CallSide'
  BY <1>4, <1>11 DEF ServerReads, CallSide, callVars, boundVars
<1> QED BY <1>2, <1>3, <1>5, <1>6, <1>7, <1>8, <1>9, <1>10, <1>11 DEF PageNext

\* A socket that is open, and the one the service holds, is a socket.
LEMMA OpenSocket ==
  ASSUME SocketSide, ws # 0
  PROVE  ws \in SocketIds
BY PageBounds DEF SocketSide, SocketIds

LEMMA QueueSideStep == PageTyped /\ [PageNext]_wsVars => QueueSide'
<1> SUFFICES ASSUME PageTyped, [PageNext]_wsVars PROVE QueueSide'
  OBVIOUS
<1> USE DEF PageTyped
<1>1. <<>> \in Seq(Message)
  BY EmptySeq
<1>2. ASSUME Disconnect PROVE QueueSide'
  BY <1>1, <1>2 DEF Disconnect, QueueSide, SocketSide, Live
<1>3. CASE SignIn \/ SignOut
  BY <1>2, <1>3 DEF SignIn, SignOut
<1>4. ASSUME UNCHANGED <<state, queue, registered>> PROVE QueueSide'
  BY <1>4 DEF QueueSide
<1>5. CASE NoToken \/ Timer \/ UNCHANGED wsVars
  BY <1>4, <1>5 DEF NoToken, Timer, wsVars, socketVars
<1>6. CASE Token
  <2>1. PICK k \in 0 .. MaxSockets : Created = 1 .. k
    BY DEF SocketSide
  <2>2. Cardinality(Created) = k /\ k \in Nat
    BY <2>1, FS_Interval
  <2>3. state' = [state EXCEPT ![k + 1] = "connecting"]
    BY <1>6, <2>2 DEF Token
  <2>4. k + 1 \notin Created
    BY <2>1, <2>2
  <2>5. \A s \in SocketIds : state'[s] # "open" => state[s] # "open"
    BY <2>3, <2>4 DEF SocketSide, Created
  <2> QED BY <1>6, <2>5 DEF Token, QueueSide
<1>7. ASSUME NEW a \in {"subscribe", "unsubscribe"}, NEW P \in SUBSET Paths,
             NEW s \in SocketIds, state'[s] = "open", IsFiniteSet(P),
             SendSubscription(s, a, P), registered' = registered,
             \A t \in SocketIds : state'[t] # "open" => state[t] # "open"
      PROVE  QueueSide'
  <2>1. /\ queue' \in [SocketIds -> Seq(Message)]
        /\ \A t \in SocketIds : t # s => queue'[t] = queue[t]
    BY <1>7, Sent
  <2> QED BY <1>7, <2>1 DEF QueueSide
<1>8. ASSUME NEW c \in Components, Unmount(c) PROVE QueueSide'
  <2>1. CASE UNCHANGED queue
    BY <1>4, <1>8, <2>1 DEF Unmount
  <2>2. CASE IsOpen /\ SendSubscription(ws, "unsubscribe", {mounted[c]})
    <3>1. mounted[c] \in Paths
      BY <1>8 DEF Unmount, PageSide
    <3>2. ws \in SocketIds /\ state[ws] = "open"
      BY <2>2, OpenSocket DEF IsOpen
    <3>3. IsFiniteSet({mounted[c]})
      BY FS_Singleton
    <3> QED BY <1>7, <1>8, <2>2, <3>1, <3>2, <3>3 DEF Unmount
  <2> QED BY <1>8, <2>1, <2>2 DEF Unmount
<1>9. ASSUME NEW c \in Components, NEW p \in Paths, Mount(c, p) PROVE QueueSide'
  <2>1. CASE UNCHANGED queue
    BY <1>4, <1>9, <2>1 DEF Mount
  <2>2. CASE IsOpen /\ SendSubscription(ws, "subscribe", {p})
    <3>1. ws \in SocketIds /\ state[ws] = "open"
      BY <2>2, OpenSocket DEF IsOpen
    <3>2. IsFiniteSet({p})
      BY FS_Singleton
    <3> QED BY <1>7, <1>9, <2>2, <3>1, <3>2 DEF Mount
  <2> QED BY <1>9, <2>1, <2>2 DEF Mount
<1>10. ASSUME NEW s \in SocketIds, Opened(s) PROVE QueueSide'
  <2>1. state' = [state EXCEPT ![s] = "open"] /\ registered' = registered
    BY <1>10 DEF Opened
  <2>2. \A t \in SocketIds : state'[t] # "open" => state[t] # "open"
    BY <2>1 DEF SocketSide
  <2>3. CASE UNCHANGED queue
    BY <2>1, <2>2, <2>3 DEF QueueSide
  <2>4. CASE ws # 0 /\ state'[ws] = "open" /\ SendSubscription(ws, "subscribe", Wanted)
    <3>1. ws \in SocketIds
      BY <2>4, OpenSocket
    <3>2. Wanted \in SUBSET Paths /\ IsFiniteSet(Wanted)
      BY WantedPaths
    <3> QED BY <1>7, <2>1, <2>2, <2>4, <3>1, <3>2
  <2> QED BY <1>10, <2>3, <2>4 DEF Opened
<1>11. ASSUME NEW s \in SocketIds, Closed(s) PROVE QueueSide'
  BY <1>1, <1>11 DEF Closed, QueueSide, SocketSide
<1>12. ASSUME NEW s \in SocketIds, ServerReads(s) PROVE QueueSide'
  <2>1. queue[s] \in Seq(Message) /\ queue[s] # <<>>
    BY <1>12 DEF ServerReads, QueueSide
  <2>2. Head(queue[s]) \in Message /\ Tail(queue[s]) \in Seq(Message)
    BY <2>1, TailShape
  <2>3. queue' = [queue EXCEPT ![s] = Tail(queue[s])] /\ state' = state
    BY <1>12 DEF ServerReads, QueueSide
  <2>4. registered' = [registered EXCEPT ![s] = Handled(registered[s], Head(queue[s]))]
    BY <1>12 DEF ServerReads, QueueSide, Handled, Channel
  <2>5. Handled(registered[s], Head(queue[s])) \in SUBSET Backends
    BY <2>2 DEF Handled, Channel, Backends, Message, QueueSide
  <2>6. state[s] = "open"
    BY <2>1 DEF QueueSide
  <2> QED BY <2>2, <2>3, <2>4, <2>5, <2>6 DEF QueueSide
<1> QED BY <1>3, <1>5, <1>6, <1>8, <1>9, <1>10, <1>11, <1>12 DEF PageNext

\* Types of the page's end: the inductive invariant, and what the runs check.
THEOREM PageTypes == PageSpec => []PageTyped
<1>1. PageTyped /\ [PageNext]_wsVars => PageTyped'
  BY PageSideStep, SocketSideStep, QueueSideStep, CallSideStep DEF PageTyped
<1> QED BY <1>1, PageTypedInit, PTL DEF PageSpec

(* The types of the dashboard's socket hold, and isConnecting is never set *)
(* without a socket that is still connecting or closing.                   *)
THEOREM PageTypeCorrect == PageSpec => []PageTypeOK
<1>1. PageTyped => PageTypeOK
  <2> SUFFICES ASSUME PageTyped PROVE PageTypeOK
    OBVIOUS
  <2>1. \A s \in SocketIds : Range(queue[s]) \subseteq Message
    <3>1. ASSUME NEW q \in Seq(Message) PROVE Range(q) \subseteq Message
      BY SeqShape DEF Range
    <3> QED BY <3>1 DEF PageTyped, QueueSide
  <2>2. \A s \in SocketIds : registered[s] \subseteq {Backend(p) : p \in Paths}
    BY DEF PageTyped, QueueSide, Backends
  <2>3. {isConnecting, shouldReconnect, raced} \subseteq BOOLEAN
    BY DEF PageTyped, CallSide
  <2> QED BY <2>1, <2>2, <2>3
          DEF PageTyped, PageSide, SocketSide, QueueSide, CallSide, PageTypeOK
<1> QED BY <1>1, PageTypes, PTL
-----------------------------------------------------------------------------
(* What is registered for the socket, and what is wanted.                  *)

\* The channels of the service's socket once everything is read.
Served1 == Fold(registered[ws], queue[ws])

RightlyServed ==
  IsOpen =>
    /\ \A p \in Wanted \ deaf : Backend(p) # "unknown" => Backend(p) \in Served1
    /\ \A b \in Served1 : \E p \in Wanted : Backend(p) = b
    /\ "unknown" \notin Served1

LEMMA SettledIsFold ==
  ASSUME NEW s
  PROVE  Settled(s) = Fold(registered[s], queue[s])
BY DEF Settled, Fold, Handled, Channel

\* One message more to the socket the service holds.
LEMMA SentOne ==
  ASSUME PageTyped, IsOpen, NEW a \in {"subscribe", "unsubscribe"}, NEW p \in Paths,
         SendSubscription(ws, a, {p}), ws' = ws, registered' = registered
  PROVE  Served1' = Handled(Served1, [action |-> a, path |-> p])
<1> DEFINE m == [action |-> a, path |-> p]
<1>1. ws \in SocketIds
  BY OpenSocket DEF IsOpen, PageTyped
<1>2. IsFiniteSet({p}) /\ {p} \in SUBSET Paths
  BY FS_Singleton
<1>3. queue'[ws] = queue[ws] \o SetToSeq([action : {a}, path : {p}])
  BY <1>1, <1>2, Sent DEF PageTyped
<1>4. [action : {a}, path : {p}] = {m}
  <2>1. ASSUME NEW x \in [action : {a}, path : {p}] PROVE x = m
    <3>1. x = [action |-> x.action, path |-> x.path]
      OBVIOUS
    <3>2. x.action = a /\ x.path = p
      OBVIOUS
    <3> QED BY <3>1, <3>2
  <2>2. m \in [action : {a}, path : {p}]
    OBVIOUS
  <2> HIDE DEF m
  <2> QED BY <2>1, <2>2
<1>5. m \in Message
  BY DEF Message
<1>6. queue[ws] \in Seq(Message)
  BY <1>1 DEF PageTyped, QueueSide
<1> HIDE DEF m
<1>7. queue'[ws] = Append(queue[ws], m)
  <2>1. SetToSeq({m}) = <<m>>
    BY SequenceOfOne
  <2>2. queue[ws] \o <<m>> = Append(queue[ws], m)
    BY <1>5, <1>6, AppendIsConcat
  <2> QED BY <1>3, <1>4, <2>1, <2>2
<1>8. Fold(registered[ws], Append(queue[ws], m)) = Handled(Fold(registered[ws], queue[ws]), m)
  BY <1>5, <1>6, FoldAppend
<1> QED BY <1>7, <1>8 DEF Served1, m

\* Everything wanted, sent once more to the socket the service holds.
LEMMA SentAll ==
  ASSUME PageTyped, ws # 0, SendSubscription(ws, "subscribe", Wanted), ws' = ws,
         registered' = registered
  PROVE  \A b : b \in Served1' <=> b \in Served1
                  \/ \E p \in Wanted : Backend(p) = b /\ b # "unknown"
<1> DEFINE S == [action : {"subscribe"}, path : Wanted]
           more == SetToSeq(S)
<1>1. ws \in SocketIds
  BY OpenSocket DEF PageTyped
<1>2. IsFiniteSet(Wanted) /\ Wanted \in SUBSET Paths
  BY WantedPaths DEF PageTyped
<1>3. queue'[ws] = queue[ws] \o more /\ more \in Seq(Message)
  BY <1>1, <1>2, Sent DEF PageTyped
<1>4. queue[ws] \in Seq(Message)
  BY <1>1 DEF PageTyped, QueueSide
<1>5. more \in Seq(S) /\ \A m \in S : \E i \in DOMAIN more : more[i] = m
  <2>1. IsFiniteSet(S)
    BY <1>2, MessagesFinite
  <2> HIDE DEF S
  <2> QED BY <2>1, SequenceOfSet
<1> HIDE DEF more
<1>6. \A i \in DOMAIN more : more[i].action = "subscribe" /\ more[i].path \in Wanted
  <2>1. \A i \in DOMAIN more : more[i] \in S
    <3> HIDE DEF S
    <3> QED BY <1>5, SeqShape
  <2> QED BY <2>1
<1>7. \A p \in Wanted : \E i \in DOMAIN more : more[i].path = p
  <2>1. ASSUME NEW p \in Wanted PROVE \E i \in DOMAIN more : more[i].path = p
    <3>1. [action |-> "subscribe", path |-> p] \in S
      OBVIOUS
    <3>2. PICK i \in DOMAIN more : more[i] = [action |-> "subscribe", path |-> p]
      BY <1>5, <3>1
    <3> QED BY <3>2
  <2> QED BY <2>1
<1>8. \A b : b \in Fold(registered[ws], queue[ws] \o more)
        <=> b \in Fold(registered[ws], queue[ws])
              \/ \E i \in DOMAIN more : b \in Channel(more[i])
  BY <1>3, <1>4, <1>6, FoldSubscribes
<1>9. \A b : (\E i \in DOMAIN more : b \in Channel(more[i]))
        <=> \E p \in Wanted : Backend(p) = b /\ b # "unknown"
  BY <1>6, <1>7 DEF Channel
<1> QED BY <1>3, <1>8, <1>9 DEF Served1

LEMMA ServedStep == PageTyped /\ RightlyServed /\ [PageNext]_wsVars => RightlyServed'
<1> SUFFICES ASSUME PageTyped, RightlyServed, [PageNext]_wsVars PROVE RightlyServed'
  OBVIOUS
<1>1. PageSide /\ SocketSide /\ QueueSide
  BY DEF PageTyped
<1>2. CASE SignIn \/ SignOut
  BY <1>2 DEF SignIn, SignOut, Disconnect, RightlyServed, IsOpen
<1>3. ASSUME IsOpen' => IsOpen, UNCHANGED <<ws, mounted, deaf>>, IsOpen' => Served1' = Served1
      PROVE  RightlyServed'
  <2>1. Wanted' = Wanted
    BY <1>3 DEF Wanted
  <2> QED BY <1>3, <2>1 DEF RightlyServed
<1>4. CASE NoToken \/ Timer \/ UNCHANGED wsVars
  BY <1>3, <1>4 DEF NoToken, Timer, wsVars, pageVars, socketVars, IsOpen, Served1
<1>5. CASE Token
  <2>1. PICK k \in 0 .. MaxSockets : Created = 1 .. k
    BY <1>1 DEF SocketSide
  <2>2. ws' = k + 1 /\ state' = [state EXCEPT ![k + 1] = "connecting"]
    <3>1. Cardinality(Created) = k /\ k \in Nat
      BY <2>1, FS_Interval
    <3> QED BY <1>5, <3>1 DEF Token
  <2>3. ~ IsOpen'
    <3>1. k + 1 \in SocketIds => state'[k + 1] = "connecting"
      BY <1>1, <2>2 DEF SocketSide
    <3>2. k + 1 \in SocketIds
      <4>1. SocketSide'
        BY <1>5, SocketSideStep DEF PageNext
      <4>2. ws' \in 0 .. MaxSockets /\ k \in Nat
        BY <4>1 DEF SocketSide
      <4> QED BY <2>2, <4>2 DEF SocketIds
    <3> QED BY <2>2, <3>1, <3>2 DEF IsOpen
  <2> QED BY <2>3 DEF RightlyServed
<1>6. ASSUME NEW c \in Components, Unmount(c) PROVE RightlyServed'
  <2> DEFINE p == mounted[c]
             last == \A d \in Components \ {c} : mounted[d] # p
  <2>1. /\ p \in Paths /\ p \in Wanted
        /\ mounted' = [mounted EXCEPT ![c] = "none"]
        /\ UNCHANGED <<ws, state, registered>>
    BY <1>1, <1>6 DEF Unmount, PageSide, Wanted
  <2>2. IsOpen' <=> IsOpen
    BY <2>1 DEF IsOpen
  <2>3. CASE ~ IsOpen
    BY <2>2, <2>3 DEF RightlyServed
  <2>4. CASE IsOpen /\ ~ last
    <3>1. UNCHANGED <<queue, deaf>>
      BY <1>6, <2>4 DEF Unmount
    <3>2. Wanted' = Wanted
      BY <1>1, <2>1, <2>4 DEF Wanted, PageSide
    <3>3. Served1' = Served1
      BY <2>1, <3>1 DEF Served1
    <3> QED BY <2>2, <3>1, <3>2, <3>3 DEF RightlyServed
  <2>5. CASE IsOpen /\ last
    <3>1. SendSubscription(ws, "unsubscribe", {p})
      BY <1>6, <2>5 DEF Unmount
    <3>2. deaf' = deaf \cup {q \in Wanted : q # p /\ Backend(q) = Backend(p)}
      BY <1>6, <2>5 DEF Unmount
    <3>3. Wanted' = Wanted \ {p}
      BY <1>1, <2>1, <2>5 DEF Wanted, PageSide
    <3>4. Served1' = Handled(Served1, [action |-> "unsubscribe", path |-> p])
      <4>1. PageTyped /\ p \in Paths
        BY <2>1
      <4> HIDE DEF p
      <4> QED BY <2>1, <2>5, <3>1, <4>1, SentOne
    <3>5. Served1' = Served1 \ ({Backend(p)} \ {"unknown"})
      BY <3>4 DEF Handled, Channel
    <3> HIDE DEF p
    <3> QED BY <2>2, <2>5, <3>2, <3>3, <3>5 DEF RightlyServed
  <2> QED BY <2>3, <2>4, <2>5
<1>7. ASSUME NEW c \in Components, NEW p \in Paths, Mount(c, p) PROVE RightlyServed'
  <2>1. UNCHANGED <<ws, state, registered>> /\ mounted' = [mounted EXCEPT ![c] = p]
    BY <1>7 DEF Mount
  <2>2. IsOpen' <=> IsOpen
    BY <2>1 DEF IsOpen
  <2>3. CASE ~ IsOpen
    BY <2>2, <2>3 DEF RightlyServed
  <2>4. CASE IsOpen
    <3>1. SendSubscription(ws, "subscribe", {p}) /\ deaf' = deaf \ {p}
      BY <1>7, <2>4 DEF Mount
    <3>2. Wanted' = Wanted \cup ({p} \ {"none"})
      BY <1>1, <1>7, <2>1 DEF Wanted, PageSide, Mount
    <3>3. Served1' = Handled(Served1, [action |-> "subscribe", path |-> p])
      BY <2>1, <2>4, <3>1, SentOne
    <3>4. Served1' = Served1 \cup ({Backend(p)} \ {"unknown"})
      BY <3>3 DEF Handled, Channel
    <3>5. Backend("none") = "unknown"
      BY DEF Backend
    <3> QED BY <2>2, <2>4, <3>1, <3>2, <3>4, <3>5 DEF RightlyServed
  <2> QED BY <2>3, <2>4
<1>8. ASSUME NEW s \in SocketIds, Opened(s) PROVE RightlyServed'
  <2>1. /\ state[s] = "connecting" /\ state' = [state EXCEPT ![s] = "open"]
        /\ UNCHANGED <<ws, mounted, registered>>
    BY <1>8 DEF Opened
  <2>2. CASE ~ IsOpen'
    BY <2>2 DEF RightlyServed
  <2>3. CASE IsOpen'
    <3>1. ws # 0 /\ state'[ws] = "open"
      BY <2>1, <2>3 DEF IsOpen
    <3>2. SendSubscription(ws, "subscribe", Wanted) /\ deaf' = {}
      BY <1>8, <3>1 DEF Opened
    <3>3. \A b : b \in Served1' <=> b \in Served1
                     \/ \E p \in Wanted : Backend(p) = b /\ b # "unknown"
      BY <2>1, <3>1, <3>2, SentAll
    <3>4. Wanted' = Wanted
      BY <2>1 DEF Wanted
    <3>5. /\ \A b \in Served1 : \E p \in Wanted : Backend(p) = b
          /\ "unknown" \notin Served1
      <4>1. CASE IsOpen
        BY <4>1 DEF RightlyServed
      <4>2. CASE ~ IsOpen
        <5>1. ws \in SocketIds /\ state[ws] # "open"
          BY <1>1, <3>1, <4>2, OpenSocket DEF IsOpen
        <5>2. queue[ws] = <<>> /\ registered[ws] = {}
          BY <1>1, <5>1 DEF QueueSide
        <5>3. Served1 = {}
          BY <5>2, FoldEmpty DEF Served1
        <5> QED BY <5>3
      <4> QED BY <4>1, <4>2
    <3>6. \A p \in Wanted' : Backend(p) # "unknown" => Backend(p) \in Served1'
      BY <3>3, <3>4
    <3>7. \A b \in Served1' : \E p \in Wanted' : Backend(p) = b
      BY <3>3, <3>4, <3>5
    <3>8. "unknown" \notin Served1'
      BY <3>3, <3>5
    <3> QED BY <3>6, <3>7, <3>8 DEF RightlyServed
  <2> QED BY <2>2, <2>3
<1>9. ASSUME NEW s \in SocketIds, Closed(s) PROVE RightlyServed'
  <2>1. /\ state' = [state EXCEPT ![s] = "closed"]
        /\ queue' = [queue EXCEPT ![s] = <<>>]
        /\ registered' = [registered EXCEPT ![s] = {}]
        /\ UNCHANGED <<ws, mounted, deaf>>
    BY <1>9 DEF Closed, pageVars
  <2>2. IsOpen' => IsOpen /\ ws \in SocketIds /\ ws # s
    BY <1>1, <2>1, OpenSocket DEF IsOpen, SocketSide
  <2>3. IsOpen' => Served1' = Served1
    BY <1>1, <2>1, <2>2 DEF Served1, QueueSide
  <2> QED BY <1>3, <2>1, <2>2, <2>3
<1>10. ASSUME NEW s \in SocketIds, ServerReads(s) PROVE RightlyServed'
  <2>1. /\ queue[s] # <<>> /\ queue[s] \in Seq(Message)
        /\ queue' = [queue EXCEPT ![s] = Tail(queue[s])]
        /\ registered' = [registered EXCEPT ![s] = Handled(registered[s], Head(queue[s]))]
        /\ UNCHANGED <<ws, state, mounted, deaf>>
    BY <1>1, <1>10 DEF ServerReads, pageVars, QueueSide, Handled, Channel
  <2>2. IsOpen' => IsOpen /\ ws \in SocketIds
    BY <1>1, <2>1, OpenSocket DEF IsOpen
  <2>3. Fold(Handled(registered[s], Head(queue[s])), Tail(queue[s])) = Fold(registered[s], queue[s])
    BY <2>1, FoldHead
  <2>4. IsOpen' => Served1' = Served1
    BY <1>1, <2>1, <2>2, <2>3 DEF Served1, QueueSide
  <2> QED BY <1>3, <2>1, <2>2, <2>4
<1> QED BY <1>2, <1>4, <1>5, <1>6, <1>7, <1>8, <1>9, <1>10 DEF PageNext

(* The messages sent to an open socket, once read, register it for exactly *)
(* the channels the mounted components want, but for a path whose channel  *)
(* another path of that channel has taken away.                            *)
THEOREM ServedAlways == PageSpec => []Served
<1>1. PageInit => RightlyServed
  BY DEF PageInit, RightlyServed, IsOpen
<1>2. RightlyServed => Served
  BY SettledIsFold DEF RightlyServed, Served, Served1
<1> QED BY <1>1, <1>2, PageTypes, ServedStep, PTL DEF PageSpec
-----------------------------------------------------------------------------
(* One socket, and a page that is not stranded.                            *)

\* Unless calls of connect raced, one comes after the other.
InTurn ==
  ~ raced =>
    /\ Live \subseteq {ws} \ {0}
    /\ waiting > 0 => Live = {}
    /\ (\E s \in SocketIds : state[s] = "connecting") => isConnecting

\* Before the user is known nothing has happened.
Pristine ==
  auth = "loading" =>
    /\ ws = 0 /\ \A s \in SocketIds : state[s] = "none"
    /\ waiting = 0 /\ timers = 0 /\ ~ isConnecting
    /\ losses = 0 /\ signOuts = 0

\* The service reconnects in the first session only; there isConnecting
\* speaks of the socket it holds.
FirstSession ==
  /\ shouldReconnect => auth = "in" /\ signOuts = 0
  /\ auth = "out" => signOuts > 0
  /\ signOuts = 0 =>
       /\ \A s \in SocketIds : state[s] # "closing"
       /\ isConnecting => ws # 0 /\ state[ws] = "connecting"

\* Attempts and timers come from losses.
AttemptsPaid ==
  /\ attempts <= losses
  /\ losses = 0 => timers = 0

HasProspects ==
  IsOpen \/ waiting > 0 \/ timers > 0 \/ (ws # 0 /\ state[ws] = "connecting")

MayReconnect ==
  \/ shouldReconnect /\ (losses <= MaxAttempts \/ (attempts < MaxAttempts /\ ~ raced))
  \/ losses = 0 /\ signOuts = 0

Prospects == auth = "in" /\ refusals = 0 /\ MayReconnect => HasProspects

Attached == InTurn /\ Pristine /\ FirstSession /\ AttemptsPaid /\ Prospects

\* A token makes the service's socket, and a new one.
LEMMA TokenMakes ==
  ASSUME PageTyped, Token
  PROVE  /\ ws' \in SocketIds /\ ws' # 0
         /\ state' = [state EXCEPT ![ws'] = "connecting"]
         /\ state'[ws'] = "connecting"
<1>1. PICK k \in 0 .. MaxSockets : Created = 1 .. k
  BY DEF PageTyped, SocketSide
<1>2. Cardinality(Created) = k /\ k \in Nat
  BY <1>1, FS_Interval
<1>3. ws' = k + 1 /\ state' = [state EXCEPT ![k + 1] = "connecting"]
  BY <1>2 DEF Token
<1>4. ws' \in SocketIds
  <2>1. SocketSide'
    BY SocketSideStep DEF PageNext
  <2> QED BY <1>2, <1>3, <2>1 DEF SocketSide, SocketIds
<1> QED BY <1>2, <1>3, <1>4 DEF PageTyped, SocketSide

LEMMA InTurnStep == PageTyped /\ InTurn /\ [PageNext]_wsVars => InTurn'
<1> SUFFICES ASSUME PageTyped, InTurn, [PageNext]_wsVars, ~ raced'
             PROVE  /\ Live' \subseteq {ws'} \ {0}
                    /\ waiting' > 0 => Live' = {}
                    /\ (\E s \in SocketIds : state'[s] = "connecting") => isConnecting'
  BY DEF InTurn
<1> DEFINE Goal == /\ Live' \subseteq {ws'} \ {0}
                   /\ waiting' > 0 => Live' = {}
                   /\ (\E s \in SocketIds : state'[s] = "connecting") => isConnecting'
<1> USE DEF PageTyped, SocketSide, CallSide
<1>1. ASSUME ~ raced
      PROVE  /\ Live \subseteq {ws} \ {0}
             /\ waiting > 0 => Live = {}
             /\ (\E s \in SocketIds : state[s] = "connecting") => isConnecting
  BY <1>1 DEF InTurn
<1>2. ASSUME Disconnect, waiting' \in Nat PROVE Goal
  <2>1. ~ raced /\ waiting = 0
    <3>1. ~ raced /\ ~ (waiting > 0)
      BY <1>2, Zenon DEF Disconnect
    <3> QED BY <3>1
  <2>2. \A s \in SocketIds : state'[s] \notin {"connecting", "open"}
    BY <1>1, <1>2, <2>1 DEF Disconnect, Live
  <2> QED BY <2>2 DEF Live
<1>3. CASE SignIn \/ SignOut
  BY <1>2, <1>3 DEF SignIn, SignOut, BeginConnect
<1>4. CASE Token
  <2>1. ~ raced /\ waiting = 1 /\ waiting' = 0 /\ isConnecting'
    <3>1. ~ raced /\ ~ (waiting > 1)
      BY <1>4, Zenon DEF Token
    <3>2. waiting > 0 /\ waiting' = waiting - 1 /\ isConnecting' = TRUE
      BY <1>4 DEF Token
    <3> QED BY <3>1, <3>2
  <2>2. \A s \in SocketIds : state[s] \notin {"connecting", "open"}
    BY <1>1, <2>1 DEF Live
  <2>3. Live' = {ws'} /\ ws' # 0
    BY <1>4, <2>2, TokenMakes DEF Live
  <2> QED BY <2>1, <2>3
<1>5. ASSUME UNCHANGED <<ws, state, isConnecting, raced>>, waiting' <= waiting,
             waiting' \in Nat
      PROVE  Goal
  BY <1>1, <1>5 DEF Live
<1>6. ASSUME UNCHANGED <<ws, state, isConnecting, raced>>, BeginConnect(IsOpen)
      PROVE  Goal
  <2>1. CASE isConnecting \/ IsOpen
    BY <1>5, <1>6, <2>1 DEF BeginConnect
  <2>2. CASE ~ isConnecting /\ ~ IsOpen
    <3>1. \A s \in SocketIds : state[s] \notin {"connecting", "open"}
      BY <1>1, <1>6, <2>2 DEF IsOpen, Live
    <3> QED BY <1>6, <3>1 DEF Live
  <2> QED BY <2>1, <2>2
<1>7. CASE NoToken \/ UNCHANGED wsVars
  BY <1>5, <1>7 DEF NoToken, wsVars, socketVars, callVars
<1>8. CASE Timer
  BY <1>5, <1>6, <1>8 DEF Timer, socketVars
<1>9. ASSUME NEW c \in Components, Unmount(c) PROVE Goal
  BY <1>5, <1>9 DEF Unmount, callVars
<1>10. ASSUME NEW c \in Components, NEW p \in Paths, Mount(c, p) PROVE Goal
  <2>1. CASE IsOpen
    BY <1>5, <1>10, <2>1 DEF Mount
  <2>2. CASE ~ IsOpen
    <3>1. BeginConnect(IsOpen)
      BY <1>10, <2>2 DEF Mount, BeginConnect
    <3> QED BY <1>6, <1>10, <3>1 DEF Mount
  <2> QED BY <2>1, <2>2
<1>11. ASSUME NEW s \in SocketIds, Opened(s) PROVE Goal
  <2>1. /\ ~ raced /\ \A t \in SocketIds \ {s} : state[t] # "connecting"
        /\ state[s] = "connecting" /\ state' = [state EXCEPT ![s] = "open"]
        /\ ws' = ws /\ waiting' = waiting
    BY <1>11 DEF Opened
  <2>2. s \in Live
    BY <2>1 DEF Live
  <2>3. Live' = Live
    BY <2>1 DEF Live
  <2>4. \A t \in SocketIds : state'[t] # "connecting"
    BY <2>1
  <2> QED BY <1>1, <2>1, <2>2, <2>3, <2>4
<1>12. ASSUME NEW s \in SocketIds, Closed(s) PROVE Goal
  <2>1. /\ ~ raced /\ \A t \in SocketIds \ {s} : state[t] # "connecting"
        /\ state' = [state EXCEPT ![s] = "closed"]
        /\ ws' = ws /\ waiting' = waiting
    BY <1>12 DEF Closed
  <2>2. Live' \subseteq Live
    BY <2>1 DEF Live
  <2>3. \A t \in SocketIds : state'[t] # "connecting"
    BY <2>1
  <2> QED BY <1>1, <2>1, <2>2, <2>3
<1>13. ASSUME NEW s \in SocketIds, ServerReads(s) PROVE Goal
  BY <1>5, <1>13 DEF ServerReads, callVars
<1> QED BY <1>3, <1>4, <1>7, <1>8, <1>9, <1>10, <1>11, <1>12, <1>13 DEF PageNext

(* As long as no call of connect overtakes another, there is one socket at *)
(* most, and the service holds it.                                         *)
THEOREM OneSocketAlways == PageSpec => []OneSocket
<1>1. PageInit => InTurn
  <2> SUFFICES ASSUME PageInit PROVE InTurn
    OBVIOUS
  <2>1. Live = {} /\ \A s \in SocketIds : state[s] # "connecting"
    BY DEF PageInit, Live
  <2> QED BY <2>1 DEF InTurn
<1>2. InTurn => OneSocket
  BY DEF InTurn, OneSocket
<1> QED BY <1>1, <1>2, PageTypes, InTurnStep, PTL DEF PageSpec

LEMMA PristineStep == PageTyped /\ Pristine /\ [PageNext]_wsVars => Pristine'
<1> SUFFICES ASSUME PageTyped, Pristine, [PageNext]_wsVars, auth' = "loading"
             PROVE  Pristine'
  BY DEF Pristine
<1>1. auth = "loading"
  BY DEF PageNext, SignIn, SignOut, Token, NoToken, Timer, Mount, Unmount, Opened,
         Closed, ServerReads, wsVars, pageVars
<1>2. /\ ws = 0 /\ \A s \in SocketIds : state[s] = "none"
      /\ waiting = 0 /\ timers = 0 /\ ~ isConnecting
      /\ losses = 0 /\ signOuts = 0 /\ Wanted = {}
  BY <1>1 DEF Pristine, PageTyped, PageSide
<1>3. ASSUME NEW s \in SocketIds PROVE ~ (Opened(s) \/ Closed(s) \/ ServerReads(s))
  BY <1>2 DEF Opened, Closed, Live, ServerReads, PageTyped, QueueSide
<1>4. ASSUME NEW c \in Components
      PROVE  ~ (Unmount(c) \/ \E p \in Paths : Mount(c, p))
  BY <1>1, <1>2 DEF Unmount, Mount, Wanted
<1>5. ~ (SignIn \/ SignOut \/ Token \/ NoToken \/ Timer)
  BY <1>1, <1>2 DEF SignIn, SignOut, Token, NoToken, Timer
<1>6. UNCHANGED wsVars
  BY <1>3, <1>4, <1>5 DEF PageNext
<1> QED BY <1>2, <1>6 DEF Pristine, wsVars, socketVars, callVars, boundVars

LEMMA FirstSessionStep ==
  PageTyped /\ Pristine /\ FirstSession /\ [PageNext]_wsVars => FirstSession'
<1> SUFFICES ASSUME PageTyped, Pristine, FirstSession, [PageNext]_wsVars
             PROVE  FirstSession'
  OBVIOUS
<1> USE DEF FirstSession
<1>1. signOuts \in Nat
  BY DEF PageTyped, CallSide
<1>2. CASE SignIn
  <2>1. shouldReconnect' = FALSE /\ auth' = "in" /\ signOuts' = signOuts
    BY <1>2 DEF SignIn, Disconnect, boundVars
  <2>2. CASE auth = "loading"
    <3>1. \A s \in SocketIds : state[s] = "none" /\ ~ isConnecting
      BY <2>2 DEF Pristine
    <3>2. \A s \in SocketIds : state'[s] # "closing"
      BY <1>2, <3>1 DEF SignIn, Disconnect, Live
    <3>3. ~ isConnecting'
      BY <1>2, <2>2 DEF SignIn, Pristine
    <3> QED BY <2>1, <3>2, <3>3
  <2>3. CASE auth # "loading"
    <3>1. signOuts > 0
      BY <1>2, <2>3 DEF SignIn, PageTyped, PageSide
    <3> QED BY <1>1, <2>1, <3>1
  <2> QED BY <2>2, <2>3
<1>3. CASE SignOut
  BY <1>1, <1>3 DEF SignOut, Disconnect
<1>4. ASSUME UNCHANGED <<auth, shouldReconnect, signOuts, ws, state, isConnecting>>
      PROVE  FirstSession'
  BY <1>4
<1>5. CASE NoToken \/ Timer \/ UNCHANGED wsVars
  BY <1>4, <1>5 DEF NoToken, Timer, wsVars, pageVars, socketVars, callVars, boundVars
<1>6. ASSUME NEW c \in Components, Unmount(c) \/ \E p \in Paths : Mount(c, p)
      PROVE  FirstSession'
  BY <1>4, <1>6 DEF Unmount, Mount, callVars, boundVars
<1>7. CASE Token
  <2>1. UNCHANGED <<auth, shouldReconnect, signOuts>>
    BY <1>7 DEF Token, pageVars, boundVars
  <2>2. \A s \in SocketIds : state'[s] = "closing" => state[s] = "closing"
    BY <1>7, TokenMakes DEF PageTyped, SocketSide
  <2>3. ws' # 0 /\ state'[ws'] = "connecting"
    BY <1>7, TokenMakes
  <2> QED BY <2>1, <2>2, <2>3
<1>8. ASSUME NEW s \in SocketIds, Opened(s) \/ Closed(s) PROVE FirstSession'
  <2>1. UNCHANGED <<auth, shouldReconnect, signOuts>> /\ ~ isConnecting'
    BY <1>8 DEF Opened, Closed, pageVars, boundVars
  <2>2. \A t \in SocketIds : state'[t] = "closing" => state[t] = "closing"
    BY <1>8 DEF Opened, Closed, PageTyped, SocketSide
  <2> QED BY <2>1, <2>2
<1>9. ASSUME NEW s \in SocketIds, ServerReads(s) PROVE FirstSession'
  BY <1>4, <1>9 DEF ServerReads, pageVars, callVars, boundVars
<1> QED BY <1>2, <1>3, <1>5, <1>6, <1>7, <1>8, <1>9 DEF PageNext

\* What a close changes: nothing is scheduled unless a socket was lost.
LEMMA ClosedBy ==
  ASSUME PageTyped, FirstSession, NEW s \in SocketIds, Closed(s)
  PROVE  \/ /\ losses' = losses + 1 /\ shouldReconnect /\ attempts < MaxAttempts
            /\ attempts' = attempts + 1 /\ timers' = timers + 1
         \/ /\ losses' = losses + 1 /\ ~ (shouldReconnect /\ attempts < MaxAttempts)
            /\ attempts' = attempts /\ timers' = timers
         \/ /\ losses' = losses /\ signOuts > 0 /\ ~ shouldReconnect
            /\ attempts' = attempts /\ timers' = timers
<1>1. ScheduleReconnect
  BY DEF Closed
<1>2. CASE state[s] = "closing" /\ UNCHANGED losses
  <2>1. signOuts > 0 /\ ~ shouldReconnect
    BY <1>2 DEF FirstSession, PageTyped, CallSide
  <2> QED BY <1>1, <1>2, <2>1 DEF ScheduleReconnect
<1>3. CASE losses' = losses + 1
  BY <1>1, <1>3 DEF ScheduleReconnect
<1> QED BY <1>2, <1>3 DEF Closed

LEMMA AttemptsPaidStep ==
  PageTyped /\ FirstSession /\ AttemptsPaid /\ [PageNext]_wsVars => AttemptsPaid'
<1> SUFFICES ASSUME PageTyped, FirstSession, AttemptsPaid, [PageNext]_wsVars
             PROVE  AttemptsPaid'
  OBVIOUS
<1>1. /\ losses \in Nat /\ timers \in Nat /\ attempts \in Nat
      /\ attempts <= losses /\ (losses = 0 => timers = 0)
  BY PageBounds DEF PageTyped, CallSide, AttemptsPaid
<1>2. ASSUME UNCHANGED losses, attempts' = attempts \/ attempts' = 0,
             timers' = timers \/ (timers > 0 /\ timers' = timers - 1)
      PROVE  AttemptsPaid'
  BY <1>1, <1>2 DEF AttemptsPaid
<1>3. ASSUME NEW s \in SocketIds, Closed(s) PROVE AttemptsPaid'
  BY <1>1, <1>3, ClosedBy DEF AttemptsPaid
<1>4. CASE SignIn \/ SignOut \/ Token \/ NoToken \/ Timer \/ UNCHANGED wsVars
  BY <1>2, <1>4 DEF SignIn, SignOut, Token, NoToken, Timer, wsVars, callVars, boundVars
<1>5. ASSUME NEW c \in Components, Unmount(c) \/ \E p \in Paths : Mount(c, p)
      PROVE  AttemptsPaid'
  BY <1>2, <1>5 DEF Unmount, Mount, callVars, boundVars
<1>6. ASSUME NEW s \in SocketIds, Opened(s) \/ ServerReads(s) PROVE AttemptsPaid'
  BY <1>2, <1>6 DEF Opened, ServerReads, callVars, boundVars
<1> QED BY <1>3, <1>4, <1>5, <1>6 DEF PageNext

\* Once a loss finds the attempts used up, reconnection has come to its end.
LEMMA ProspectsAfterLoss ==
  ASSUME PageTyped, FirstSession, AttemptsPaid, NEW s \in SocketIds, Closed(s),
         MayReconnect'
  PROVE  timers' > 0
<1>1. /\ losses \in Nat /\ timers \in Nat /\ attempts \in Nat /\ signOuts \in Nat
      /\ MaxAttempts \in Nat /\ attempts <= losses /\ attempts <= MaxAttempts
  BY PageBounds DEF PageTyped, CallSide, AttemptsPaid
<1>2. shouldReconnect' = shouldReconnect /\ signOuts' = signOuts
  BY DEF Closed
<1>3. CASE losses' = losses + 1 /\ timers' = timers + 1
  BY <1>1, <1>3
<1>4. CASE /\ losses' = losses + 1 /\ ~ (shouldReconnect /\ attempts < MaxAttempts)
           /\ attempts' = attempts /\ timers' = timers
  <2>1. ~ (losses' = 0)
    BY <1>1, <1>4
  <2>2. shouldReconnect
    BY <1>2, <2>1 DEF MayReconnect
  <2>3. attempts = MaxAttempts
    BY <1>1, <1>4, <2>2
  <2>4. ~ (losses' <= MaxAttempts) /\ ~ (attempts' < MaxAttempts)
    BY <1>1, <1>4, <2>3
  <2> QED BY <2>1, <2>4 DEF MayReconnect
<1>5. CASE losses' = losses /\ signOuts > 0 /\ ~ shouldReconnect
  <2>1. ~ (signOuts' = 0)
    BY <1>1, <1>2, <1>5
  <2> QED BY <1>2, <1>5, <2>1 DEF MayReconnect
<1> QED BY <1>3, <1>4, <1>5, ClosedBy

LEMMA ProspectsStep ==
  PageTyped /\ Attached /\ [PageNext]_wsVars => Prospects'
<1> SUFFICES ASSUME PageTyped, Attached, [PageNext]_wsVars,
                    auth' = "in", refusals' = 0, MayReconnect'
             PROVE  HasProspects'
  BY DEF Prospects
<1>1. /\ SocketSide /\ CallSide /\ FirstSession /\ AttemptsPaid /\ Pristine /\ InTurn
      /\ (auth = "in" /\ refusals = 0 /\ MayReconnect => HasProspects)
  BY DEF PageTyped, Attached, Prospects
<1>2. waiting \in Nat /\ timers \in Nat /\ refusals \in Nat /\ losses \in Nat /\ signOuts \in Nat
  BY <1>1 DEF CallSide
<1>3. CASE SignIn
  <2>1. shouldReconnect' = FALSE /\ losses' = losses /\ signOuts' = signOuts
    BY <1>3 DEF SignIn, Disconnect, boundVars
  <2>2. losses = 0 /\ signOuts = 0
    BY <2>1 DEF MayReconnect
  <2>3. auth = "loading"
    <3>1. auth # "out"
      BY <1>1, <2>2 DEF FirstSession
    <3> QED BY <1>3, <3>1 DEF SignIn, PageTyped, PageSide
  <2>4. ~ isConnecting /\ waiting = 0
    BY <1>1, <2>3 DEF Pristine
  <2>5. waiting' > 0
    BY <1>3, <2>4 DEF SignIn, BeginConnect
  <2> QED BY <2>5 DEF HasProspects
<1>4. CASE SignOut
  BY <1>4 DEF SignOut
<1>5. CASE Token
  BY <1>5, TokenMakes DEF HasProspects
<1>6. CASE NoToken
  BY <1>2, <1>6 DEF NoToken
\* Steps that leave the sockets and take no call or timer back.
<1>7. ASSUME UNCHANGED <<auth, refusals, shouldReconnect, losses, signOuts, attempts,
                         raced, ws, state>>,
             waiting' >= waiting, timers' = timers, waiting' \in Nat
      PROVE  HasProspects'
  <2>1. MayReconnect
    BY <1>7 DEF MayReconnect
  <2>2. HasProspects
    BY <1>1, <1>7, <2>1
  <2> QED BY <1>2, <1>7, <2>2 DEF HasProspects, IsOpen
<1>8. CASE UNCHANGED wsVars
  <2>1. waiting' >= waiting
    BY <1>2, <1>8 DEF wsVars, callVars
  <2> QED BY <1>2, <1>7, <1>8, <2>1 DEF wsVars, pageVars, socketVars, callVars, boundVars
<1>9. CASE Timer
  <2>1. /\ UNCHANGED <<auth, refusals, shouldReconnect, losses, signOuts, attempts, raced,
                       ws, state, isConnecting>>
        /\ timers > 0
    BY <1>9 DEF Timer, pageVars, socketVars, boundVars
  <2>2. shouldReconnect
    <3>1. losses # 0
      BY <1>1, <1>2, <2>1 DEF AttemptsPaid
    <3> QED BY <2>1, <3>1 DEF MayReconnect
  <2>3. BeginConnect(IsOpen)
    BY <1>9, <2>2 DEF Timer
  <2>4. CASE IsOpen
    BY <2>1, <2>4 DEF HasProspects, IsOpen
  <2>5. CASE isConnecting
    <3>1. ws # 0 /\ state[ws] = "connecting"
      BY <1>1, <2>2, <2>5 DEF FirstSession
    <3> QED BY <2>1, <3>1 DEF HasProspects
  <2>6. CASE ~ IsOpen /\ ~ isConnecting
    <3>1. waiting' > 0
      BY <1>2, <2>3, <2>6 DEF BeginConnect
    <3> QED BY <3>1 DEF HasProspects
  <2> QED BY <2>4, <2>5, <2>6
<1>10. ASSUME NEW c \in Components, Unmount(c) PROVE HasProspects'
  <2>1. waiting' >= waiting
    BY <1>2, <1>10 DEF Unmount, callVars
  <2> QED BY <1>2, <1>7, <1>10, <2>1 DEF Unmount, callVars, boundVars
<1>11. ASSUME NEW c \in Components, NEW p \in Paths, Mount(c, p) PROVE HasProspects'
  <2>1. waiting' >= waiting /\ waiting' \in Nat
    BY <1>2, <1>11 DEF Mount, BeginConnect
  <2> QED BY <1>7, <1>11, <2>1 DEF Mount
<1>12. ASSUME NEW s \in SocketIds, Opened(s) PROVE HasProspects'
  <2>1. /\ state[s] = "connecting" /\ state' = [state EXCEPT ![s] = "open"] /\ ws' = ws
        /\ UNCHANGED <<auth, waiting, timers, shouldReconnect, losses, signOuts, refusals>>
    BY <1>12 DEF Opened, boundVars
  <2>2. CASE s = ws
    <3>1. ws # 0 /\ state'[ws] = "open"
      <4>1. state'[s] = "open" /\ s # 0
        BY <1>1, <2>1, PageBounds DEF SocketSide, SocketIds
      <4> QED BY <2>2, <4>1
    <3> QED BY <2>1, <3>1 DEF HasProspects, IsOpen
  <2>3. CASE s # ws
    <3>1. raced
      <4>1. s \in Live
        BY <2>1 DEF Live
      <4> QED BY <1>1, <2>3, <4>1 DEF InTurn
    <3>2. raced'
      BY <1>12, <3>1, Zenon DEF Opened
    <3>3. MayReconnect
      BY <2>1, <3>2 DEF MayReconnect
    <3>4. HasProspects
      BY <1>1, <2>1, <3>3
    <3>5. ws # 0 => ws \in SocketIds
      BY <1>1, OpenSocket
    <3>6. ws # 0 => state'[ws] = state[ws]
      BY <1>1, <2>1, <2>3, <3>5 DEF SocketSide
    <3> QED BY <2>1, <3>4, <3>6 DEF HasProspects, IsOpen
  <2> QED BY <2>2, <2>3
<1>13. ASSUME NEW s \in SocketIds, Closed(s) PROVE HasProspects'
  BY <1>1, <1>13, ProspectsAfterLoss DEF HasProspects
<1>14. ASSUME NEW s \in SocketIds, ServerReads(s) PROVE HasProspects'
  <2>1. waiting' >= waiting
    BY <1>2, <1>14 DEF ServerReads, callVars
  <2> QED BY <1>2, <1>7, <1>14, <2>1 DEF ServerReads, pageVars, callVars, boundVars
<1> QED BY <1>3, <1>4, <1>5, <1>6, <1>8, <1>9, <1>10, <1>11, <1>12, <1>13, <1>14 DEF PageNext

LEMMA AttachedInit == PageInit => Attached
<1> SUFFICES ASSUME PageInit PROVE Attached
  OBVIOUS
<1>1. Live = {} /\ \A s \in SocketIds : state[s] = "none"
  BY DEF PageInit, Live
<1>2. InTurn
  BY <1>1 DEF PageInit, InTurn
<1>3. Pristine
  BY <1>1 DEF PageInit, Pristine
<1>4. FirstSession
  <2>1. auth # "out"
    BY AuthAssumption DEF PageInit
  <2>2. shouldReconnect => auth = "in"
    BY DEF PageInit
  <2>3. signOuts = 0 /\ ~ isConnecting
    BY DEF PageInit
  <2> QED BY <1>1, <2>1, <2>2, <2>3 DEF FirstSession
<1>5. AttemptsPaid
  BY DEF PageInit, AttemptsPaid
<1>6. Prospects
  <2>1. auth = "in" => waiting > 0
    BY DEF PageInit
  <2> QED BY <2>1 DEF Prospects, HasProspects
<1> QED BY <1>2, <1>3, <1>4, <1>5, <1>6 DEF Attached

\* The inductive invariant behind NeverStranded.
THEOREM StaysAttached == PageSpec => []Attached
<1>1. PageTyped /\ Attached /\ [PageNext]_wsVars => Attached'
  BY InTurnStep, PristineStep, FirstSessionStep, AttemptsPaidStep, ProspectsStep DEF Attached
<1> QED BY <1>1, AttachedInit, PageTypes, PTL DEF PageSpec

(* A signed-in page no token was refused has its socket or is about to get *)
(* it, until the attempts are used up or the user has signed out: no order *)
(* of closing, opening and timers leaves it with neither.                  *)
THEOREM NeverStrandedAlways == PageSpec => []NeverStranded
<1>1. PageTyped /\ Attached => NeverStranded
  <2> SUFFICES ASSUME PageTyped, Attached, auth = "in", refusals = 0, MayReconnect
               PROVE  \/ IsOpen \/ waiting > 0 \/ timers > 0
                      \/ \E s \in SocketIds : state[s] = "connecting"
    BY DEF NeverStranded, MayReconnect
  <2>1. HasProspects
    BY DEF Attached, Prospects
  <2>2. ws # 0 => ws \in SocketIds
    BY OpenSocket DEF PageTyped
  <2> QED BY <2>1, <2>2 DEF HasProspects
<1> QED BY <1>1, PageTypes, StaysAttached, PTL

=============================================================================
