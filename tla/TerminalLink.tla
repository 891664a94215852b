---------------------------- MODULE TerminalLink ----------------------------
(***************************************************************************)
(* The way of an order from the trading loop to the MT5 terminal and back: *)
(* TradeExecutor, MT5BrokerAdapter, ZeroMQTerminal and the REQ socket of   *)
(* ZeroMQConnection on one side, the expert advisor with its REP socket on *)
(* the other, and the Account that books what was answered.                *)
(*                                                                         *)
(* A REQ socket must send and receive in turn.  get_response reads it with *)
(* NOBLOCK: an answer that is not there yet is a ConnectionError, although *)
(* the advisor looks for requests once a second.  The read is then never   *)
(* made up for, and the socket refuses every later send.                   *)
(*                                                                         *)
(* Two threads use the link without a lock: the loop, which opens, and the *)
(* kill switch callback, which closes what the account has booked.         *)
(* Lots are counted in the smallest unit.  Not modelled: prices, the       *)
(* return code PLACED, and the two processes being started again.  The     *)
(* queries before the first turn (authentication, account info) read with  *)
(* NOBLOCK too; the model begins when they have been answered in time.     *)
(***************************************************************************)
EXTENDS Integers

CONSTANTS
  Orders,      \* decisions of the loop to open a position
  NoOrder,
  Tickets,     \* tickets the broker can give out; without one it refuses
  NoTicket,
  Quantities,  \* lots the risk manager may ask for
  LotStep, MinLot, MaxLot,  \* of the symbol, at the terminal
  Faults       \* "garble" an answer, "refuse" a request, "partial" executions,
               \* "stopout" by the broker, "restart" of the advisor,
               \* "unsent": the market is closed or the socket has no peer

ASSUME LinkAssumption ==
  /\ NoOrder \notin Orders
  /\ NoTicket \notin Tickets
  /\ Quantities \subseteq Nat
  /\ LotStep \in Nat \ {0} /\ MinLot \in Nat \ {0} /\ MaxLot \in Nat
  /\ MinLot <= MaxLot

VARIABLES
  socket,   \* the REQ socket: "ready" to send or "waiting" for its answer
  serial,   \* requests sent so far
  request,  \* what the advisor has not taken yet, at most one
  reply,    \* what the socket has not been read for yet, at most one
  owner,    \* of every ticket: the order that opened it
  held,     \* of every ticket: its open lots at the terminal
  book,     \* Account.current_trade: the tickets
  size,     \* and their Trade.lotsize
  at,       \* where each thread is
  order,    \* the order the loop is busy with
  target,   \* the ticket the callback is busy with
  todo,     \* tickets the callback has still to close
  asked,    \* of every order: the lots asked for
  verdict,  \* of every order: what the executor made of it
  killed,   \* whether the kill switch has called back
  awaited,  \* history: the request each thread read, or reads, an answer for
  garbled,  \* history: orders with an answer that could not be read
  short,    \* history: orders answered with a partial execution
  unread    \* history: orders whose answer was not there when it was read

link == <<socket, serial, request, reply, awaited>>
terminal == <<owner, held>>
account == <<book, size>>
loop == <<order, asked, verdict, garbled, short, unread>>
callback == <<target, todo, killed>>
vars == <<link, terminal, account, loop, callback, at>>

Reading == {"ping", "open", "reping", "reopen", "close"}
Ops == {"ping", "open", "close"}
Results == {"done", "partial", "refused"}

TypeOK ==
  /\ socket \in {"ready", "waiting"}
  /\ serial \in Nat
  /\ request \in SUBSET [id : Nat, op : Ops, order : Orders \cup {NoOrder},
                         ticket : Tickets \cup {NoTicket}, lots : Nat]
  /\ reply \in SUBSET [id : Nat, result : Results,
                       ticket : Tickets \cup {NoTicket}, lots : Nat, readable : BOOLEAN]
  /\ owner \in [Tickets -> Orders \cup {NoOrder}]
  /\ held \in [Tickets -> Nat]
  /\ book \in SUBSET Tickets
  /\ size \in [Tickets -> Nat]
  /\ at \in [{"loop", "kill"} -> Reading \cup {"idle", "decided", "send", "retry", "resend"}]
  /\ order \in Orders \cup {NoOrder}
  /\ target \in Tickets \cup {NoTicket}
  /\ todo \in SUBSET Tickets
  /\ asked \in [Orders -> Nat]
  /\ verdict \in [Orders -> {"none", "sending", "filled", "rejected"}]
  /\ killed \in BOOLEAN
  /\ awaited \in [{"loop", "kill"} -> Nat]
  /\ garbled \in SUBSET Orders /\ short \in SUBSET Orders /\ unread \in SUBSET Orders

Init ==
  /\ socket = "ready" /\ serial = 0 /\ request = {} /\ reply = {}
  /\ owner = [t \in Tickets |-> NoOrder]
  /\ held = [t \in Tickets |-> 0]
  /\ book = {} /\ size = [t \in Tickets |-> 0]
  /\ at = [t \in {"loop", "kill"} |-> "idle"]
  /\ order = NoOrder /\ target = NoTicket /\ todo = {}
  /\ asked = [o \in Orders |-> 0]
  /\ verdict = [o \in Orders |-> "none"]
  /\ killed = FALSE
  /\ awaited = [t \in {"loop", "kill"} |-> 0]
  /\ garbled = {} /\ short = {} /\ unread = {}

-----------------------------------------------------------------------------
(* The socket.                                                             *)

CanSendAlways == TRUE  \* mutant: a REQ socket with ZMQ_REQ_RELAXED

CanSend == socket = "ready"

\* send_msg, when the socket lets it.
Send(thread, op, o, t, lots) ==
  /\ socket' = "waiting"
  /\ serial' = serial + 1
  /\ request' = request \cup {[id |-> serial + 1, op |-> op, order |-> o,
                               ticket |-> t, lots |-> lots]}
  /\ UNCHANGED reply
  /\ awaited' = [awaited EXCEPT ![thread] = serial + 1]

\* recv_json found an answer: the socket may send again, readable or not.
Receive(r) ==
  /\ r \in reply
  /\ socket' = "ready"
  /\ reply' = reply \ {r}
  /\ UNCHANGED <<serial, request, awaited>>

NoAnswerReset ==  \* mutant: the socket is opened anew
  reply = {} /\ socket' = "ready" /\ UNCHANGED <<serial, request, reply, awaited>>

NoAnswerYet == FALSE /\ UNCHANGED link  \* mutant: the read blocks

\* recv_json found none: nothing changes at the socket.
NoAnswer == reply = {} /\ UNCHANGED link

Goto(thread, stage) == at' = [at EXCEPT ![thread] = stage]

-----------------------------------------------------------------------------
(* The loop: TradeExecutor.send_order down to ZeroMQTerminal.send_order.    *)

\* The executor answers the loop: a Trade that the account books, or None.
Answer(v) ==
  /\ verdict' = [verdict EXCEPT ![order] = v]
  /\ Goto("loop", "idle")
  /\ UNCHANGED <<order, asked>>

Reject == Answer("rejected") /\ UNCHANGED account

\* A turn that found the switch off decides to open; a kill may come after.
Decide(o, q) ==
  /\ at["loop"] = "idle"
  /\ ~killed
  /\ verdict[o] = "none"
  /\ order' = o
  /\ asked' = [asked EXCEPT ![o] = q]
  /\ verdict' = [verdict EXCEPT ![o] = "sending"]
  /\ Goto("loop", "decided")
  /\ UNCHANGED <<link, terminal, account, callback, garbled, short, unread>>

\* _ensure_connection, after a minute of silence or to retry.
Ping ==
  /\ at["loop"] \in {"decided", "retry"}
  /\ IF CanSend
     THEN /\ Send("loop", "ping", NoOrder, NoTicket, 0)
          /\ Goto("loop", IF at["loop"] = "retry" THEN "reping" ELSE "ping")
          /\ UNCHANGED <<account, order, asked, verdict>>
     ELSE Reject /\ UNCHANGED link
  /\ UNCHANGED <<terminal, callback, garbled, short, unread>>

Open ==
  /\ at["loop"] \in {"decided", "send", "resend"}
  /\ IF CanSend
     THEN /\ Send("loop", "open", order, NoTicket, asked[order])
          /\ Goto("loop", IF at["loop"] = "resend" THEN "reopen" ELSE "open")
          /\ UNCHANGED <<account, order, asked, verdict>>
     ELSE Reject /\ UNCHANGED link
  /\ UNCHANGED <<terminal, callback, garbled, short, unread>>

\* No answer to a ping or an order.  The first try of an order pings once
\* more, which the socket that waits refuses: every case ends rejected.
Missed ==
  /\ at["loop"] \in Reading
  /\ NoAnswer
  /\ Reject
  /\ unread' = IF at["loop"] \in {"open", "reopen"} THEN unread \cup {order} ELSE unread
  /\ UNCHANGED <<terminal, callback, garbled, short>>

ReadPing ==
  /\ at["loop"] \in {"ping", "reping"}
  /\ \E r \in reply :
       /\ Receive(r)
       /\ IF r.readable
          THEN /\ Goto("loop", IF at["loop"] = "reping" THEN "resend" ELSE "send")
               /\ UNCHANGED <<account, order, asked, verdict>>
          ELSE Reject
  /\ UNCHANGED <<terminal, callback, garbled, short, unread>>

\* submit_order tells the quantity that was asked for, not what was executed.
Booked(t) ==
  /\ book' = book \cup {t}
  /\ size' = [size EXCEPT ![t] = asked[order]]

AgainAndAgain == TRUE  \* mutant: the retry retries

\* An unreadable answer is the one ConnectionError that is retried.
Again == at["loop"] = "open"

ReadOpen ==
  /\ at["loop"] \in {"open", "reopen"}
  /\ \E r \in reply :
       /\ Receive(r)
       /\ \/ /\ r.readable /\ r.result = "done"
             /\ Answer("filled") /\ Booked(r.ticket)
             /\ UNCHANGED <<garbled, short>>
          \/ /\ r.readable /\ r.result # "done"
             /\ Reject
             /\ short' = IF r.result = "partial" THEN short \cup {order} ELSE short
             /\ UNCHANGED garbled
          \/ /\ ~r.readable
             /\ garbled' = garbled \cup {order}
             /\ IF Again
                THEN Goto("loop", "retry") /\ UNCHANGED <<account, order, asked, verdict>>
                ELSE Reject
             /\ UNCHANGED short
  /\ UNCHANGED <<terminal, callback, unread>>

-----------------------------------------------------------------------------
(* The kill switch callback: close_order for each booked ticket.           *)

Kill ==
  /\ ~killed
  /\ killed' = TRUE
  /\ todo' = book
  /\ UNCHANGED <<link, terminal, account, loop, target, at>>

\* cancel_order always answers False, and the terminal is asked to close,
\* unless the market is closed or the request cannot be sent.
Close ==
  /\ killed /\ at["kill"] = "idle"
  /\ \E t \in todo :
       /\ todo' = todo \ {t}
       /\ target' = t
       /\ \/ CanSend /\ Send("kill", "close", NoOrder, t, size[t]) /\ Goto("kill", "close")
          \/ (~CanSend \/ "unsent" \in Faults) /\ UNCHANGED <<link, at>>
  /\ UNCHANGED <<terminal, account, loop, killed>>

MissedClose ==
  /\ at["kill"] = "close"
  /\ NoAnswer
  /\ Goto("kill", "idle")
  /\ UNCHANGED <<terminal, account, loop, callback>>

\* The lots in the answer are those of the deal; Account takes them for the
\* trade's when they are equal, and else for what is left of it.
ReadClose ==
  /\ at["kill"] = "close"
  /\ \E r \in reply :
       /\ Receive(r)
       /\ \/ /\ r.readable /\ r.lots = size[target]
             /\ book' = book \ {target} /\ UNCHANGED size
          \/ /\ r.readable /\ r.lots # size[target]
             /\ size' = [size EXCEPT ![target] = r.lots] /\ UNCHANGED book
          \/ ~r.readable /\ UNCHANGED account
  /\ Goto("kill", "idle")
  /\ UNCHANGED <<terminal, loop, callback>>

-----------------------------------------------------------------------------
(* The expert advisor.                                                     *)

\* The lots send_order makes of those it was asked for.
Clamped(q) ==
  LET whole == (q \div LotStep) * LotStep
  IN  IF whole < MinLot THEN MinLot ELSE IF whole > MaxLot THEN MaxLot ELSE whole

Executable(n) == IF "partial" \in Faults THEN 1..n ELSE {n}

Reply(r, result, t, lots) ==
  /\ request' = request \ {r}
  /\ \E readable \in IF "garble" \in Faults THEN BOOLEAN ELSE {TRUE} :
       reply' = reply \cup {[id |-> r.id, result |-> result, ticket |-> t,
                              lots |-> lots, readable |-> readable]}
  /\ UNCHANGED <<socket, serial, awaited>>

AnswerPing(r) ==
  /\ r.op = "ping"
  /\ Reply(r, "done", NoTicket, 0)
  /\ UNCHANGED terminal

Fresh == {t \in Tickets : owner[t] = NoOrder}
NewTicket == CHOOSE t \in Fresh : TRUE

ExecuteOpen(r) ==
  /\ r.op = "open"
  /\ \/ /\ "refuse" \in Faults \/ Fresh = {}
        /\ Reply(r, "refused", NoTicket, 0)
        /\ UNCHANGED terminal
     \/ /\ Fresh # {}
        /\ \E lots \in Executable(Clamped(r.lots)) :
             /\ owner' = [owner EXCEPT ![NewTicket] = r.order]
             /\ held' = [held EXCEPT ![NewTicket] = lots]
             /\ Reply(r, IF lots = Clamped(r.lots) THEN "done" ELSE "partial",
                      NewTicket, lots)

\* PositionClosePartial closes no more than there is; a ticket that is gone
\* leaves the result structure, and with it the lots, uninitialised.
ExecuteClose(r) ==
  /\ r.op = "close"
  /\ LET most == IF r.lots < held[r.ticket] THEN r.lots ELSE held[r.ticket]
     IN  \/ /\ "refuse" \in Faults
            /\ Reply(r, "refused", r.ticket, 0)
            /\ UNCHANGED terminal
         \/ /\ held[r.ticket] = 0
            /\ \E garbage \in 0..MaxLot : Reply(r, "refused", r.ticket, garbage)
            /\ UNCHANGED terminal
         \/ /\ most > 0
            /\ \E lots \in Executable(most) :
                 /\ held' = [held EXCEPT ![r.ticket] = @ - lots]
                 /\ Reply(r, "done", r.ticket, lots)
            /\ UNCHANGED owner

OnTimer ==
  /\ \E r \in request : AnswerPing(r) \/ ExecuteOpen(r) \/ ExecuteClose(r)
  /\ UNCHANGED <<account, loop, callback, at>>

\* The broker closes a position at its stop loss or take profit.
StopOut ==
  /\ "stopout" \in Faults
  /\ \E t \in Tickets : held[t] > 0 /\ held' = [held EXCEPT ![t] = 0]
  /\ UNCHANGED <<link, owner, account, loop, callback, at>>

\* The advisor is loaded anew: what was under way between the sockets is gone.
RestartAdvisor ==
  /\ "restart" \in Faults
  /\ request \cup reply # {}
  /\ request' = {} /\ reply' = {}
  /\ UNCHANGED <<socket, serial, awaited, terminal, account, loop, callback, at>>

-----------------------------------------------------------------------------
Trade == \/ Ping \/ Open \/ Missed \/ ReadPing \/ ReadOpen
CloseAll == Close \/ MissedClose \/ ReadClose

Next ==
  \/ \E o \in Orders, q \in Quantities : Decide(o, q)
  \/ Trade
  \/ Kill
  \/ CloseAll
  \/ OnTimer
  \/ StopOut
  \/ RestartAdvisor

Spec == Init /\ [][Next]_vars

\* Python runs both threads; of the advisor and the broker nothing is assumed.
FairSpec == Spec /\ WF_vars(Trade) /\ WF_vars(CloseAll)

-----------------------------------------------------------------------------
Awaits(thread) == at[thread] \in Reading

\* What a thread reads answers the request it sent: only one thread waits at
\* a time, and what is between the sockets is its own.  (The lock step of the
\* REQ socket, over two threads that share it without a lock.)
AnswersMatch ==
  /\ ~(Awaits("loop") /\ Awaits("kill"))
  /\ \A thread \in {"loop", "kill"} : Awaits(thread) =>
       /\ socket = "waiting"
       /\ \A r \in request \cup reply : r.id = awaited[thread]

OpenedBy(o) == {t \in Tickets : owner[t] = o}

\* The retry of send_order is the only way to a second position, it takes an
\* answer that could not be read, and there is no third.
TwiceOnlyIfGarbled ==
  \A o \in Orders :
    \A t \in OpenedBy(o), u \in OpenedBy(o) :
      t # u => o \in garbled /\ OpenedBy(o) = {t, u}

\* When an order that was reported as rejected has a position all the same,
\* its answer was unreadable, told of a part, or came too late.
RejectionsExplained ==
  \A t \in Tickets :
    owner[t] # NoOrder /\ verdict[owner[t]] = "rejected"
      => owner[t] \in garbled \cup short \cup unread

\* No two booked trades come from one order, and each comes from an order
\* that was answered as filled.
BookedOnce ==
  \A t \in Tickets : t \in book =>
    /\ owner[t] # NoOrder
    /\ verdict[owner[t]] = "filled"
    /\ \A u \in Tickets : u \in book /\ owner[u] = owner[t] => u = t

\* One answer that was not waited for is the last the link ever carries: the
\* socket stays as it is and no other order is answered too late.
Wedged == unread # {}

WedgedForGood ==
  /\ Wedged => socket = "waiting" /\ ~Awaits("loop") /\ ~Awaits("kill")
  /\ \A o \in unread, p \in unread : o = p

\* Whatever the terminal does, the loop is answered: no read ever blocks it.
LoopAnswered ==
  \A o \in Orders : verdict[o] = "sending" ~> verdict[o] \in {"filled", "rejected"}

=============================================================================
