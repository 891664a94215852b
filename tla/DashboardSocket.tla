-------------------------- MODULE DashboardSocket --------------------------
(***************************************************************************)
(* The WebSocket of the dashboard: WebSocketService, the one instance of   *)
(* it in a page, driven by the WebSocketProvider (which connects and       *)
(* disconnects as the user signs in and out) and by the components that    *)
(* subscribe while they are mounted; and what the generic handler of the   *)
(* API makes of the messages.                                              *)
(*                                                                         *)
(* The page is one event loop.  connect gives way once, at the await for   *)
(* the token, after its only look at the socket and at isConnecting: two   *)
(* calls may both come through, and each opens a socket.  A socket the     *)
(* service has lost hold of lives on, and its events are still handled.    *)
(*                                                                         *)
(* Delays are left out: a timer may fire at any time.                      *)
(***************************************************************************)
EXTENDS Naturals, Sequences, FiniteSets, SequencesExt

CONSTANTS
  Components,   \* React components that subscribe, each to one path at a time
  Paths,        \* channel paths of the dashboard, out of those Backend knows
  AuthAtMount,  \* what isSignedIn may be as Clerk has it when the provider mounts
  MaxAttempts,  \* maxReconnectAttempts
  MaxSockets,   \* bound: sockets created
  MaxLosses,    \* bound: sockets lost, or refused by the server
  MaxRefusals,  \* bound: tokens refused
  MaxSignOuts,  \* bound: times the user signs out
  MaxMounts     \* bound: times a component mounts

ASSUME ComponentAssumption == IsFiniteSet(Components)
ASSUME AuthAssumption == AuthAtMount \subseteq {"loading", "in"}
ASSUME PageBoundAssumption ==
  {MaxAttempts, MaxSockets, MaxLosses, MaxRefusals, MaxSignOuts,
   MaxMounts} \subseteq Nat

VARIABLES
  auth,             \* isSignedIn: "loading" (undefined), "in" or "out"
  mounted,          \* mounted[c]: path of component c, or "none"
  ws,               \* the socket the service holds, 0 for null
  state,            \* state[s]: readyState of socket s, "none" before it exists
  queue,            \* messages on their way to the handler of socket s
  registered,       \* backend channels that handler has registered s for
  waiting,          \* calls of connect that wait for their token
  timers,           \* reconnections scheduled
  attempts,         \* reconnectAttempts
  isConnecting,
  shouldReconnect,
  deaf,             \* history: paths whose channel another path unsubscribed
  raced,            \* history: a connect went ahead beside another one
  losses, refusals, signOuts, mounts

pageVars == <<auth, mounted, deaf>>
socketVars == <<ws, state, queue, registered>>
callVars == <<waiting, timers, attempts, isConnecting, shouldReconnect, raced>>
boundVars == <<losses, refusals, signOuts, mounts>>
wsVars == <<pageVars, socketVars, callVars, boundVars>>

SocketIds == 1 .. MaxSockets
Created == {s \in SocketIds : state[s] # "none"}
Live == {s \in SocketIds : state[s] \in {"connecting", "open"}}

(* CHANNEL_MAPPING and CHANNEL_PATTERNS: the progress of every experiment  *)
(* is the training channel, and ticks are not known.                       *)
Backend(p) ==
  CASE p \in {"metrics", "progress"} -> "training"
    [] p = "positions" -> "positions"
    [] OTHER -> "unknown"

Message == [action : {"subscribe", "unsubscribe"}, path : Paths]

(* The keys of subscribers.                                                *)
Wanted == {mounted[c] : c \in Components} \ {"none"}

IsOpen == ws # 0 /\ state[ws] = "open"

PageTypeOK ==
  /\ auth \in {"loading", "in", "out"}
  /\ mounted \in [Components -> Paths \cup {"none"}]
  /\ Wanted # {} => auth = "in"
  /\ ws \in 0 .. MaxSockets
  /\ state \in [SocketIds -> {"none", "connecting", "open", "closing", "closed"}]
  /\ ws # 0 => state[ws] \in {"connecting", "open", "closed"}
  /\ \A s \in SocketIds :
       /\ Range(queue[s]) \subseteq Message
       /\ registered[s] \subseteq {Backend(p) : p \in Paths}
       /\ state[s] # "open" => queue[s] = <<>> /\ registered[s] = {}
  /\ {waiting, timers} \subseteq Nat
  /\ attempts \in 0 .. MaxAttempts
  /\ {isConnecting, shouldReconnect, raced} \subseteq BOOLEAN
  /\ isConnecting => \E s \in SocketIds : state[s] \in {"connecting", "closing"}
  /\ deaf \subseteq Paths
-----------------------------------------------------------------------------
SendSubscription(s, action, paths) ==
  queue' = [queue EXCEPT ![s] = @ \o SetToSeq([action : {action}, path : paths])]

(* What connect does before its await, with the socket and isConnecting it *)
(* finds.                                                                  *)
BeginConnect(open) ==
  waiting' = IF open \/ isConnecting THEN waiting ELSE waiting + 1

\* Mutant of Disconnect: the socket it closes is forgotten together with its
\* close event.
DisconnectSilently ==
  /\ shouldReconnect' = FALSE
  /\ ws' = 0
  /\ state' = [s \in SocketIds |->
                 IF s = ws /\ s \in Live THEN "closed" ELSE state[s]]
  /\ queue' = [s \in SocketIds |-> IF s = ws THEN <<>> ELSE queue[s]]
  /\ registered' = [s \in SocketIds |-> IF s = ws THEN {} ELSE registered[s]]
  /\ raced' = (raced \/ waiting > 0)

(* disconnect: the service lets go of its socket, which closes.            *)
Disconnect ==
  /\ shouldReconnect' = FALSE
  /\ ws' = 0
  /\ state' = [s \in SocketIds |->
                 IF s = ws /\ s \in Live THEN "closing" ELSE state[s]]
  /\ queue' = [s \in SocketIds |-> IF s = ws THEN <<>> ELSE queue[s]]
  /\ registered' = [s \in SocketIds |-> IF s = ws THEN {} ELSE registered[s]]
  /\ raced' = (raced \/ waiting > 0)
-----------------------------------------------------------------------------
(* The service is as it was constructed, and the effects of a provider that *)
(* mounts have run: anyone not known to be signed in is disconnected.      *)
PageInit ==
  /\ auth \in AuthAtMount
  /\ mounted = [c \in Components |-> "none"]
  /\ ws = 0
  /\ state = [s \in SocketIds |-> "none"]
  /\ queue = [s \in SocketIds |-> <<>>]
  /\ registered = [s \in SocketIds |-> {}]
  /\ waiting = IF auth = "in" THEN 1 ELSE 0
  /\ timers = 0
  /\ attempts = 0
  /\ isConnecting = FALSE
  /\ shouldReconnect = (auth = "in")
  /\ deaf = {} /\ raced = FALSE
  /\ losses = 0 /\ refusals = 0 /\ signOuts = 0 /\ mounts = 0

(* The cleanup of the effect that ran while nobody was signed in           *)
(* disconnects once more, the new effect connects.                         *)
SignIn ==
  /\ auth # "in"
  /\ auth' = "in"
  /\ Disconnect
  /\ BeginConnect(FALSE)
  /\ UNCHANGED <<mounted, deaf, timers, attempts, isConnecting, boundVars>>

(* Components under a ProtectedRoute are gone with the session.            *)
SignOut ==
  /\ auth = "in" /\ signOuts < MaxSignOuts
  /\ auth' = "out"
  /\ signOuts' = signOuts + 1
  /\ mounted' = [c \in Components |-> "none"]
  /\ deaf' = {}
  /\ Disconnect
  /\ UNCHANGED <<waiting, timers, attempts, isConnecting, losses, refusals,
                 mounts>>

(* subscribe                                                               *)
Mount(c, p) ==
  /\ auth = "in" /\ mounted[c] = "none" /\ mounts < MaxMounts
  /\ mounts' = mounts + 1
  /\ mounted' = [mounted EXCEPT ![c] = p]
  /\ IF IsOpen
       THEN SendSubscription(ws, "subscribe", {p}) /\ UNCHANGED waiting /\ deaf' = deaf \ {p}
       ELSE BeginConnect(FALSE) /\ UNCHANGED <<queue, deaf>>
  /\ UNCHANGED <<auth, ws, state, registered, timers, attempts, isConnecting,
                 shouldReconnect, raced, losses, refusals, signOuts>>

\* Mutant of Unmount: the channel goes with any of its handlers.
UnmountForAll(c) ==
  /\ mounted[c] # "none"
  /\ mounted' = [mounted EXCEPT ![c] = "none"]
  /\ IF IsOpen
       THEN SendSubscription(ws, "unsubscribe", {mounted[c]})
       ELSE UNCHANGED queue
  /\ UNCHANGED <<auth, deaf, ws, state, registered, callVars, boundVars>>

(* The function that subscribe returned.  The last handler of a path takes *)
(* the backend channel away from every other path that shares it.          *)
Unmount(c) ==
  /\ mounted[c] # "none"
  /\ mounted' = [mounted EXCEPT ![c] = "none"]
  /\ LET p == mounted[c]
         last == \A d \in Components \ {c} : mounted[d] # p
     IN  IF IsOpen /\ last
           THEN /\ SendSubscription(ws, "unsubscribe", {p})
                /\ deaf' = deaf \cup {q \in Wanted : q # p /\ Backend(q) = Backend(p)}
           ELSE UNCHANGED <<queue, deaf>>
  /\ UNCHANGED <<auth, ws, state, registered, callVars, boundVars>>
-----------------------------------------------------------------------------
\* Mutant of Token: isConnecting is not set.
TokenOnly ==
  /\ waiting > 0 /\ \E s \in SocketIds : state[s] = "none"
  /\ waiting' = waiting - 1
  /\ LET s == Cardinality(Created) + 1
     IN  /\ ws' = s
         /\ state' = [state EXCEPT ![s] = "connecting"]
  /\ raced' = (raced \/ waiting > 1)
  /\ UNCHANGED <<pageVars, queue, registered, timers, attempts, isConnecting,
                 shouldReconnect, boundVars>>

(* The token is there: the socket is created, whatever has happened since  *)
(* the call.                                                               *)
Token ==
  /\ waiting > 0 /\ \E s \in SocketIds : state[s] = "none"
  /\ waiting' = waiting - 1
  /\ isConnecting' = TRUE
  /\ LET s == Cardinality(Created) + 1
     IN  /\ ws' = s
         /\ state' = [state EXCEPT ![s] = "connecting"]
  /\ raced' = (raced \/ waiting > 1)
  /\ UNCHANGED <<pageVars, queue, registered, timers, attempts,
                 shouldReconnect, boundVars>>

(* No token, or the request for it failed: connect ends, and nothing tries *)
(* again.                                                                  *)
NoToken ==
  /\ waiting > 0 /\ refusals < MaxRefusals
  /\ waiting' = waiting - 1
  /\ refusals' = refusals + 1
  /\ UNCHANGED <<pageVars, socketVars, timers, attempts, isConnecting,
                 shouldReconnect, raced, losses, signOuts, mounts>>

(* onopen of socket s: resubscribeAll speaks to the socket the service     *)
(* holds now.                                                              *)
Opened(s) ==
  /\ state[s] = "connecting"
  /\ state' = [state EXCEPT ![s] = "open"]
  /\ isConnecting' = FALSE
  /\ attempts' = 0
  /\ IF ws # 0 /\ state'[ws] = "open"
       THEN SendSubscription(ws, "subscribe", Wanted) /\ deaf' = {}
       ELSE UNCHANGED <<queue, deaf>>
  /\ raced' = (raced \/ \E t \in SocketIds \ {s} : state[t] = "connecting")
  /\ UNCHANGED <<auth, mounted, ws, registered, waiting, timers,
                 shouldReconnect, boundVars>>

\* Mutant of ScheduleReconnect: the last attempt is never made.
ScheduleOneLess ==
  IF shouldReconnect /\ attempts + 1 < MaxAttempts
    THEN attempts' = attempts + 1 /\ timers' = timers + 1
    ELSE UNCHANGED <<attempts, timers>>

ScheduleReconnect ==
  IF shouldReconnect /\ attempts < MaxAttempts
    THEN attempts' = attempts + 1 /\ timers' = timers + 1
    ELSE UNCHANGED <<attempts, timers>>

(* onclose of socket s, whether or not the service still holds it.         *)
Closed(s) ==
  /\ \/ state[s] = "closing" /\ UNCHANGED losses
     \/ s \in Live /\ losses < MaxLosses /\ losses' = losses + 1
  /\ state' = [state EXCEPT ![s] = "closed"]
  /\ queue' = [queue EXCEPT ![s] = <<>>]
  /\ registered' = [registered EXCEPT ![s] = {}]
  /\ isConnecting' = FALSE
  /\ ScheduleReconnect
  /\ raced' = (raced \/ \E t \in SocketIds \ {s} : state[t] = "connecting")
  /\ UNCHANGED <<pageVars, ws, waiting, shouldReconnect, refusals, signOuts,
                 mounts>>

Timer ==
  /\ timers > 0
  /\ timers' = timers - 1
  /\ IF shouldReconnect THEN BeginConnect(IsOpen) ELSE UNCHANGED waiting
  /\ UNCHANGED <<pageVars, socketVars, attempts, isConnecting,
                 shouldReconnect, raced, boundVars>>

(* The handler of the API reads the next message of socket s.              *)
ServerReads(s) ==
  /\ queue[s] # <<>>
  /\ queue' = [queue EXCEPT ![s] = Tail(@)]
  /\ LET m == Head(queue[s])
         channel == {Backend(m.path)} \ {"unknown"}
     IN  registered' = [registered EXCEPT ![s] =
           IF m.action = "subscribe" THEN @ \cup channel ELSE @ \ channel]
  /\ UNCHANGED <<pageVars, ws, state, callVars, boundVars>>
-----------------------------------------------------------------------------
PageNext ==
  \/ SignIn
  \/ SignOut
  \/ Token
  \/ NoToken
  \/ Timer
  \/ \E c \in Components : Unmount(c) \/ \E p \in Paths : Mount(c, p)
  \/ \E s \in SocketIds : Opened(s) \/ Closed(s) \/ ServerReads(s)

PageSpec == PageInit /\ [][PageNext]_wsVars
-----------------------------------------------------------------------------
(* The channels of socket s once the handler has read everything.          *)
Settled(s) ==
  FoldLeft(LAMBDA R, m : LET channel == {Backend(m.path)} \ {"unknown"}
                         IN  IF m.action = "subscribe" THEN R \cup channel
                                                       ELSE R \ channel,
           registered[s], queue[s])

(* Through every order of mounting, unmounting, opening and closing, the   *)
(* messages sent so far register an open socket for exactly what the       *)
(* mounted components want; but for a path whose channel another path of   *)
(* the same channel took away with it.                                     *)
Served ==
  IsOpen =>
    /\ \A p \in Wanted \ deaf : Backend(p) # "unknown" => Backend(p) \in Settled(ws)
    /\ \A b \in Settled(ws) : \E p \in Wanted : Backend(p) = b

(* There is one socket at most, and it is the one the service holds,       *)
(* unless one call of connect went past another that waited for its token, *)
(* disconnect came in between, or the late close of an old socket hid that *)
(* a new one was connecting.                                               *)
OneSocket ==
  ~ raced => Live \subseteq {ws} \ {0}

(* A signed-in page that no token was refused has its socket or is about   *)
(* to get it: while reconnection is on and the attempts are not used up,   *)
(* or nothing was lost and nobody signed out.  An attempt that a forgotten *)
(* socket gave back when it opened does not count, nothing would use it.   *)
NeverStranded ==
  /\ auth = "in" /\ refusals = 0
  /\ \/ shouldReconnect /\ (losses <= MaxAttempts \/ (attempts < MaxAttempts /\ ~raced))
     \/ losses = 0 /\ signOuts = 0
  => IsOpen \/ waiting > 0 \/ timers > 0 \/ \E s \in SocketIds : state[s] = "connecting"

=============================================================================
