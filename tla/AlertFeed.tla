----------------------------- MODULE AlertFeed -----------------------------
(***************************************************************************)
(* Alerts on their way from the trading server to the dashboards:          *)
(* AlertPublisher publishes them on a Redis channel, AlertConsumer reads   *)
(* the channel in the API process and the ConnectionManager there sends    *)
(* them to every socket that is registered for "alerts".                   *)
(*                                                                         *)
(* The API is one event loop: a task gives way only where it awaits the    *)
(* network.  The lock of the manager is never held across such a wait,     *)
(* except by disconnect_all at the end of the process, so connect and      *)
(* disconnect are single steps, and a broadcast is one step per socket.    *)
(* Between two of them a handler may register its socket, take it out or   *)
(* end, and that may remove the channel the broadcast is about to clean.   *)
(*                                                                         *)
(* Redis keeps nothing for a consumer that is not subscribed.  It is       *)
(* modelled by what publishing and listening show of it.                   *)
(***************************************************************************)
EXTENDS Naturals, Sequences, FiniteSets, SequencesExt

CONSTANTS
  Sockets,      \* WebSocket connections, each used once
  Direct,       \* those opened at /ws/alerts, registered by their opening
  MaxAlerts,    \* bound: alerts published
  MaxOutages    \* bound: failures of Redis

ASSUME SocketAssumption == Direct \subseteq Sockets
ASSUME BoundAssumption == {MaxAlerts, MaxOutages} \subseteq Nat

(* Backend channels: the one of the alerts, and another one.               *)
Channels == {"alerts", "training"}

VARIABLES
  redis,        \* "up" or "down"
  outages,      \* failures of Redis so far
  offered,      \* alerts handed to the publisher so far: 1, 2, ...
  pub,          \* connection of the publisher: "none", "open" or "stale"
  running,      \* _running of the consumer
  client,       \* _redis_client of the consumer is set
  pubsub,       \* _pubsub of the consumer: "none", "on" or "broken"
  inbox,        \* alerts Redis has sent to the consumer, not read yet
  pc,           \* where the task of the consumer is
  alert,        \* the alert it is broadcasting
  todo,         \* sockets it has still to send it to
  failed,       \* sockets that raised
  channels,     \* channels of the manager: those that exist, and their sockets
  connections,  \* connections of the manager
  session,      \* state of the handler of each socket
  alive,        \* the peer of the socket is there
  subscribed,   \* channels the handler has registered its socket for
  received,     \* alerts each peer was sent, in order
  shut          \* disconnect_all was called

redisVars == <<redis, outages, offered, pub>>
linkVars == <<running, client, pubsub, inbox>>
taskVars == <<pc, alert, todo, failed>>
managerVars == <<channels, connections, shut>>
peerVars == <<session, alive, subscribed>>
vars == <<redisVars, linkVars, taskVars, managerVars, peerVars, received>>

Alerts == 1 .. MaxAlerts

TypeOK ==
  /\ redis \in {"up", "down"}
  /\ outages \in 0 .. MaxOutages
  /\ offered \in 0 .. MaxAlerts
  /\ pub \in {"none", "open", "stale"}
  /\ running \in BOOLEAN /\ client \in BOOLEAN /\ shut \in BOOLEAN
  /\ pubsub \in {"none", "on", "broken"}
  /\ pubsub = "none" => inbox = <<>>
  /\ Range(inbox) \subseteq Alerts
  /\ pc \in {"connect", "subscribe", "listen", "send", "sleep", "ended"}
  /\ alert \in {0} \cup Alerts
  /\ todo \subseteq Sockets /\ failed \subseteq Sockets
  /\ pc # "send" => todo = {} /\ failed = {}
  /\ DOMAIN channels \subseteq Channels
  /\ \A c \in DOMAIN channels : channels[c] \subseteq connections \cup Sockets
  /\ connections \subseteq Sockets
  /\ session \in [Sockets -> {"new", "open", "closed"}]
  /\ alive \in [Sockets -> BOOLEAN]
  /\ subscribed \in [Sockets -> SUBSET Channels]
  /\ \A s \in Sockets : Range(received[s]) \subseteq Alerts
-----------------------------------------------------------------------------
(* The channels once socket s has joined c, or left all of C: a channel    *)
(* without sockets is deleted.                                             *)
Joined(s, c) ==
  [d \in DOMAIN channels \cup {c} |->
     (IF d \in DOMAIN channels THEN channels[d] ELSE {})
       \cup (IF d = c THEN {s} ELSE {})]

\* Mutant of Left: only one of several channels is left.
LeftOne(s, C) ==
  LET gone == IF C = {} THEN {} ELSE {CHOOSE c \in C : TRUE}
  IN  [d \in {c \in DOMAIN channels : ~ (c \in gone /\ channels[c] \subseteq {s})} |->
        IF d \in gone THEN channels[d] \ {s} ELSE channels[d]]

Left(s, C) ==
  [d \in {c \in DOMAIN channels : ~ (c \in C /\ channels[c] \subseteq {s})} |->
     IF d \in C THEN channels[d] \ {s} ELSE channels[d]]
-----------------------------------------------------------------------------
Init ==
  /\ redis = "up" /\ outages = 0 /\ offered = 0 /\ pub = "none"
  /\ running = TRUE /\ client = FALSE /\ pubsub = "none" /\ inbox = <<>>
  /\ pc = "connect" /\ alert = 0 /\ todo = {} /\ failed = {}
  /\ channels = <<>> /\ connections = {} /\ shut = FALSE
  /\ session = [s \in Sockets |-> "new"]
  /\ alive = [s \in Sockets |-> TRUE]
  /\ subscribed = [s \in Sockets |-> {}]
  /\ received = [s \in Sockets |-> <<>>]

(* Every connection breaks with Redis.                                     *)
RedisFails ==
  /\ redis = "up" /\ outages < MaxOutages
  /\ redis' = "down"
  /\ outages' = outages + 1
  /\ pub' = IF pub = "open" THEN "stale" ELSE pub
  /\ pubsub' = IF pubsub = "on" THEN "broken" ELSE pubsub
  /\ UNCHANGED <<offered, running, client, inbox, taskVars, managerVars,
                 peerVars, received>>

RedisReturns ==
  /\ redis = "down"
  /\ redis' = "up"
  /\ UNCHANGED <<outages, offered, pub, linkVars, taskVars, managerVars,
                 peerVars, received>>

(* publish_alert connects if there is no connection; Redis passes the      *)
(* alert on to those who are subscribed and keeps nothing.                 *)
Publish ==
  /\ offered < MaxAlerts
  /\ redis = "up"
  /\ offered' = offered + 1
  /\ pub' = "open"
  /\ inbox' = IF pubsub = "on" THEN Append(inbox, offered + 1) ELSE inbox
  /\ UNCHANGED <<redis, outages, running, client, pubsub, taskVars,
                 managerVars, peerVars, received>>

(* It fails for want of Redis, or on the connection of an earlier Redis:   *)
(* the connection is dropped, the alert is not kept either.                *)
PublishFails ==
  /\ offered < MaxAlerts
  /\ redis = "down" \/ pub = "stale"
  /\ offered' = offered + 1
  /\ pub' = "none"
  /\ UNCHANGED <<redis, outages, linkVars, taskVars, managerVars, peerVars,
                 received>>
-----------------------------------------------------------------------------
(* The consumer: _consume_loop from its top.                               *)
Connect ==
  /\ pc = "connect" /\ running
  /\ \/ /\ client \/ redis = "up"
        /\ client' = TRUE
        /\ pc' = "subscribe"
     \/ /\ ~ client /\ redis = "down"
        /\ client' = FALSE
        /\ pc' = "sleep"
  /\ UNCHANGED <<redisVars, running, pubsub, inbox, alert, todo, failed,
                 managerVars, peerVars, received>>

\* Mutant of Reset: the subscription that broke is kept.
ResetClientOnly ==
  /\ client' = FALSE
  /\ pc' = "sleep"
  /\ UNCHANGED <<running, pubsub, inbox>>

(* The error path: both connections are dropped before the wait.           *)
Reset ==
  /\ client' = FALSE
  /\ pubsub' = "none"
  /\ inbox' = <<>>
  /\ pc' = "sleep"
  /\ UNCHANGED running

Subscribe ==
  /\ pc = "subscribe"
  /\ \/ /\ client /\ redis = "up"
        /\ pubsub' = IF pubsub = "none" THEN "on" ELSE pubsub
        /\ pc' = "listen"
        /\ UNCHANGED <<running, client, inbox>>
     \/ /\ ~ client \/ redis = "down"
        /\ Reset
  /\ UNCHANGED <<redisVars, alert, todo, failed, managerVars, peerVars,
                 received>>

(* listen raises: the connection broke, or nothing came for the timeout of *)
(* the socket.                                                             *)
ListenFails ==
  /\ pc = "listen" /\ running
  /\ pubsub = "broken" \/ inbox = <<>>
  /\ Reset
  /\ UNCHANGED <<redisVars, alert, todo, failed, managerVars, peerVars,
                 received>>

\* Mutant of Take: the message stays where it was.
TakeAndKeep == inbox' = inbox

Take == inbox' = Tail(inbox)

(* The next message, up to the snapshot that broadcast_to_channel takes.   *)
Read ==
  /\ pc = "listen" /\ running
  /\ inbox # <<>>
  /\ Take
  /\ alert' = Head(inbox)
  /\ IF "alerts" \in DOMAIN channels
       THEN todo' = channels["alerts"] /\ pc' = "send"
       ELSE todo' = {} /\ pc' = pc
  /\ UNCHANGED <<redisVars, running, client, pubsub, failed, managerVars,
                 peerVars, received>>

Deliver(s) ==
  /\ session[s] = "open" /\ alive[s]
  /\ received' = [received EXCEPT ![s] = Append(@, alert)]
  /\ failed' = failed

(* A socket whose peer is gone may still take the message.                 *)
Refuse(s) ==
  /\ session[s] # "open" \/ ~ alive[s]
  /\ failed' \in {failed \cup {s}} \cup (IF session[s] = "open" THEN {failed} ELSE {})
  /\ UNCHANGED received

\* Mutant of Send: the first socket that raises ends the broadcast.
SendOrGiveUp(s) ==
  /\ pc = "send" /\ s \in todo
  /\ Deliver(s) \/ Refuse(s)
  /\ todo' = IF failed' = failed THEN todo \ {s} ELSE {}
  /\ UNCHANGED <<redisVars, linkVars, pc, alert, managerVars, peerVars>>

Send(s) ==
  /\ pc = "send" /\ s \in todo
  /\ Deliver(s) \/ Refuse(s)
  /\ todo' = todo \ {s}
  /\ UNCHANGED <<redisVars, linkVars, pc, alert, managerVars, peerVars>>

(* The sockets that raised are taken out.  When a handler has deleted the  *)
(* channel meanwhile this raises a KeyError, which _handle_alert logs.     *)
EndBroadcast ==
  /\ pc = "send" /\ todo = {}
  /\ failed' = {}
  /\ pc' = "listen"
  /\ IF failed # {} /\ "alerts" \in DOMAIN channels
       THEN /\ channels' = [channels EXCEPT !["alerts"] = @ \ failed]
            /\ connections' = connections \ failed
       ELSE UNCHANGED <<channels, connections>>
  /\ UNCHANGED <<redisVars, linkVars, alert, todo, shut, peerVars, received>>

Wake ==
  /\ pc = "sleep" /\ running
  /\ pc' = "connect"
  /\ UNCHANGED <<redisVars, linkVars, alert, todo, failed, managerVars,
                 peerVars, received>>
-----------------------------------------------------------------------------
(* A socket is accepted; the handlers of single channels register it.      *)
Open(s) ==
  /\ session[s] = "new" /\ running
  /\ session' = [session EXCEPT ![s] = "open"]
  /\ IF s \in Direct
       THEN /\ channels' = Joined(s, "alerts")
            /\ connections' = connections \cup {s}
            /\ subscribed' = [subscribed EXCEPT ![s] = {"alerts"}]
       ELSE UNCHANGED <<channels, connections, subscribed>>
  /\ UNCHANGED <<redisVars, linkVars, taskVars, shut, alive, received>>

(* The generic handler reads "subscribe", be it after disconnect_all, which  *)
(* closes the sockets it knows and ends no handler.                        *)
SubscribeSocket(s, c) ==
  /\ session[s] = "open" /\ alive[s] /\ s \notin Direct
  /\ channels' = Joined(s, c)
  /\ connections' = connections \cup {s}
  /\ subscribed' = [subscribed EXCEPT ![s] = @ \cup {c}]
  /\ UNCHANGED <<redisVars, linkVars, taskVars, shut, session, alive, received>>

(* It reads "unsubscribe" of a channel it has registered the socket for.   *)
UnsubscribeSocket(s, c) ==
  /\ session[s] = "open" /\ alive[s] /\ s \notin Direct
  /\ c \in subscribed[s]
  /\ channels' = Left(s, {c})
  /\ connections' = connections \ {s}
  /\ subscribed' = [subscribed EXCEPT ![s] = @ \ {c}]
  /\ UNCHANGED <<redisVars, linkVars, taskVars, shut, session, alive, received>>

PeerGone(s) ==
  /\ session[s] = "open" /\ alive[s]
  /\ alive' = [alive EXCEPT ![s] = FALSE]
  /\ UNCHANGED <<redisVars, linkVars, taskVars, managerVars, session,
                 subscribed, received>>

(* receive_text raises: the handler takes its socket out everywhere.       *)
HandlerEnds(s) ==
  /\ session[s] = "open" /\ ~ alive[s]
  /\ session' = [session EXCEPT ![s] = "closed"]
  /\ channels' = Left(s, subscribed[s])
  /\ connections' = IF subscribed[s] = {} THEN connections ELSE connections \ {s}
  /\ subscribed' = [subscribed EXCEPT ![s] = {}]
  /\ UNCHANGED <<redisVars, linkVars, taskVars, shut, alive, received>>
-----------------------------------------------------------------------------
(* The end of the application: AlertConsumer.stop closes the connections,  *)
(* the task leaves its loop or is cancelled where it is, and what          *)
(* connections holds is closed.                                            *)
Stop ==
  /\ running
  /\ running' = FALSE
  /\ client' = FALSE /\ pubsub' = "none" /\ inbox' = <<>>
  /\ UNCHANGED <<redisVars, taskVars, managerVars, peerVars, received>>

\* Mutant of TaskEnds: the rest of the broadcast stays behind.
TaskEndsMidway ==
  /\ ~ running /\ pc # "ended"
  /\ pc' = "ended"
  /\ client' = FALSE /\ pubsub' = "none" /\ inbox' = <<>>
  /\ UNCHANGED <<redisVars, running, alert, todo, failed, managerVars, peerVars,
                 received>>

TaskEnds ==
  /\ ~ running /\ pc # "ended"
  /\ pc' = "ended"
  /\ client' = FALSE /\ pubsub' = "none" /\ inbox' = <<>>
  /\ todo' = {} /\ failed' = {}
  /\ UNCHANGED <<redisVars, running, alert, managerVars, peerVars, received>>

DisconnectAll ==
  /\ pc = "ended" /\ ~ shut
  /\ shut' = TRUE
  /\ alive' = [s \in Sockets |-> alive[s] /\ s \notin connections]
  /\ connections' = {}
  /\ channels' = <<>>
  /\ UNCHANGED <<redisVars, linkVars, taskVars, session, subscribed, received>>
-----------------------------------------------------------------------------
Consumer ==
  \/ Connect
  \/ Subscribe
  \/ Read
  \/ EndBroadcast
  \/ Wake

Next ==
  \/ Consumer
  \/ ListenFails
  \/ RedisFails
  \/ RedisReturns
  \/ Publish
  \/ PublishFails
  \/ Stop
  \/ TaskEnds
  \/ DisconnectAll
  \/ \E s \in Sockets :
       \/ Send(s)
       \/ Open(s)
       \/ PeerGone(s)
       \/ HandlerEnds(s)
       \/ \E c \in Channels : SubscribeSocket(s, c) \/ UnsubscribeSocket(s, c)

(* The event loop runs every task that can go on.  A send ends, since the  *)
(* server closes a socket whose peer does not answer its pings; a broken   *)
(* connection to Redis is noticed.                                         *)
Fairness ==
  /\ WF_vars(Consumer)
  /\ WF_vars(ListenFails /\ pubsub = "broken")
  /\ \A s \in Sockets : WF_vars(Send(s))

Spec == Init /\ [][Next]_vars /\ Fairness
-----------------------------------------------------------------------------
(* Every peer is sent alerts in the order of their publication, each at    *)
(* most once, through lost connections and new subscriptions, and no       *)
(* broadcast is under way once the sockets were closed.                    *)
InOrder ==
  /\ \A s \in Sockets : \A i, j \in DOMAIN received[s] :
       i < j => received[s][i] < received[s][j]
  /\ shut => todo = {}

(* Until the end of the process the table of the manager and what the      *)
(* handlers know agree: no channel holds the socket of a handler that has  *)
(* ended, and a peer that is there gets what its handler subscribed to,    *)
(* whatever broadcasts cleaned up in between.                              *)
ChannelsAgree ==
  ~ shut =>
    /\ \A c \in DOMAIN channels : \A s \in channels[c] :
         session[s] = "open" /\ c \in subscribed[s]
    /\ \A s \in Sockets : \A c \in subscribed[s] :
         alive[s] => c \in DOMAIN channels /\ s \in channels[c]

(* After every failure the consumer subscribes again once Redis stays up.  *)
Resubscribes ==
  <>[](redis = "up" /\ running) => []<>(pubsub = "on")

(* An alert that has reached the consumer is sent to every socket that     *)
(* stays registered, unless the connection to Redis breaks first.          *)
Arrives(a, s) ==
  \/ a \in Range(received[s])
  \/ "alerts" \notin subscribed[s] \/ ~ alive[s]
  \/ pubsub # "on"

AlertsArrive ==
  \A a \in Alerts, s \in Sockets :
    (a \in Range(inbox) /\ "alerts" \in subscribed[s]) ~> Arrives(a, s)

(* No step loses it on the way: an alert that is still to be read, or to   *)
(* be sent to socket s, stays so until one of these has become true.       *)
Due(a, s) == a \in Range(inbox) \/ (pc = "send" /\ alert = a /\ s \in todo)

AlertsKept ==
  [][\A a \in Alerts, s \in Sockets :
       Due(a, s) => Due(a, s)' \/ Arrives(a, s)']_vars
=============================================================================
