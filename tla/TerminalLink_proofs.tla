------------------------- MODULE TerminalLink_proofs -------------------------
(***************************************************************************)
(* Proofs about TerminalLink: the lock step of the socket (LinkInv), what  *)
(* is under way belongs to whom (LoopInv), how many positions an order can *)
(* have (OwnInv), what an answer means to the reader (AnswerInv) and what  *)
(* a rejected order may leave behind (RejectInv), each for any orders,     *)
(* tickets, lots and faults.                                               *)
(***************************************************************************)
EXTENDS TerminalLink, TLAPS

Threads == {"loop", "kill"}
Stages == Reading \cup {"idle", "decided", "send", "retry", "resend"}

Requests == [id : Nat, op : Ops, order : Orders \cup {NoOrder},
             ticket : Tickets \cup {NoTicket}, lots : Nat]
Answers == [id : Nat, result : Results,
            ticket : Tickets \cup {NoTicket}, lots : Nat, readable : BOOLEAN]

LinkType ==
  /\ socket \in {"ready", "waiting"}
  /\ serial \in Nat
  /\ request \in SUBSET Requests
  /\ reply \in SUBSET Answers
  /\ awaited \in [Threads -> Nat]

TerminalType ==
  /\ owner \in [Tickets -> Orders \cup {NoOrder}]
  /\ held \in [Tickets -> Nat]

AccountType == book \in SUBSET Tickets /\ size \in [Tickets -> Nat]

LoopType ==
  /\ order \in Orders \cup {NoOrder}
  /\ asked \in [Orders -> Nat]
  /\ verdict \in [Orders -> {"none", "sending", "filled", "rejected"}]
  /\ garbled \in SUBSET Orders /\ short \in SUBSET Orders /\ unread \in SUBSET Orders

CallbackType ==
  /\ target \in Tickets \cup {NoTicket}
  /\ todo \in SUBSET Tickets
  /\ killed \in BOOLEAN

AtType == at \in [Threads -> Stages]

\* The type invariant, in parts that the steps change together.
LEMMA TypeParts ==
  TypeOK <=> LinkType /\ TerminalType /\ AccountType /\ LoopType /\ CallbackType /\ AtType
  BY DEF TypeOK, LinkType, TerminalType, AccountType, LoopType, CallbackType, AtType,
         Threads, Stages, Requests, Answers

-----------------------------------------------------------------------------
(* The socket and the two threads at it.                                   *)

LinkInv ==
  /\ socket = "ready" => request = {} /\ reply = {}
  /\ request = {} \/ reply = {}
  /\ \A r \in request, s \in request : r = s
  /\ \A r \in reply, s \in reply : r = s
  /\ \A r \in request \cup reply : r.id = serial
  /\ \A thread \in Threads : Awaits(thread) => socket = "waiting" /\ awaited[thread] = serial
  /\ ~(Awaits("loop") /\ Awaits("kill"))

Unsent == {"decided", "ping", "send", "retry", "reping", "resend"}

LoopInv ==
  /\ at["loop"] # "idle" => order \in Orders /\ verdict[order] = "sending"
  /\ at["loop"] \in {"open", "reopen"} => \A r \in request : r.op = "open" /\ r.order = order
  /\ at["loop"] \in {"ping", "reping"} => \A r \in request : r.op = "ping"
  /\ at["loop"] # "close"
  /\ at["kill"] \in {"idle", "close"}
  /\ at["kill"] = "close" => target \in Tickets
  /\ \A r \in request : r.op = "close" => r.ticket \in Tickets
  /\ \A r \in request : r.op = "open" =>
       /\ r.order \in Orders
       /\ verdict[r.order] # "none"
       /\ at["loop"] \in Unsent => r.order # order

NoPosition(o) == \A t \in Tickets : owner[t] # o
OnePosition(o) == \A t \in Tickets, u \in Tickets : owner[t] = o /\ owner[u] = o => t = u
TwoPositions(o) ==
  \A t \in Tickets, u \in Tickets, v \in Tickets :
    owner[t] = o /\ owner[u] = o /\ owner[v] = o => t = u \/ u = v \/ t = v

OwnInv ==
  /\ \A r \in request : r.op = "open" =>
       OnePosition(r.order) /\ (r.order \notin garbled => NoPosition(r.order))
  /\ \A o \in Orders : TwoPositions(o) /\ (o \notin garbled => OnePosition(o))
  /\ \A o \in Orders : verdict[o] = "none" => NoPosition(o) /\ o \notin garbled
  /\ at["loop"] \in {"decided", "ping", "send"} => NoPosition(order) /\ order \notin garbled
  /\ at["loop"] = "open" => order \notin garbled
  /\ at["loop"] \in {"retry", "reping", "resend"} => OnePosition(order)
  /\ at["loop"] \in {"retry", "reping", "resend", "reopen"} => order \in garbled

AnswerInv ==
  at["loop"] \in {"open", "reopen"} =>
    \A r \in reply :
      /\ r.result = "done" => r.ticket \in Tickets /\ owner[r.ticket] = order
      /\ r.result = "refused" /\ at["loop"] = "open" => NoPosition(order)

RejectInv ==
  /\ \A t \in Tickets : owner[t] \in Orders /\ verdict[owner[t]] = "rejected"
       => owner[t] \in garbled \cup short \cup unread
  /\ \A r \in request : r.op = "open" /\ verdict[r.order] = "rejected"
       => r.order \in garbled \cup short \cup unread

IInv == /\ TypeOK /\ LinkInv /\ LoopInv /\ OwnInv
        /\ AnswerInv /\ RejectInv /\ BookedOnce /\ WedgedForGood

-----------------------------------------------------------------------------
(* Sending and receiving.                                                  *)

\* Send puts one well-formed request on the way and leaves the answers alone.
LEMMA SendTyped ==
  ASSUME LinkType, NEW thread \in Threads, NEW op \in Ops, NEW o \in Orders \cup {NoOrder},
         NEW t \in Tickets \cup {NoTicket}, NEW lots \in Nat, Send(thread, op, o, t, lots)
  PROVE  LinkType'
<1> DEFINE new == [id |-> serial + 1, op |-> op, order |-> o, ticket |-> t, lots |-> lots]
<1>1. new \in Requests
  BY DEF LinkType, Requests
<1>2. request' = request \cup {new} /\ reply' = reply /\ socket' = "waiting" /\ serial' = serial + 1
  BY DEF Send
<1>3. awaited' = [awaited EXCEPT ![thread] = serial + 1]
  BY DEF Send
<1> HIDE DEF new
<1>4. request' \in SUBSET Requests
  BY <1>1, <1>2 DEF LinkType
<1>5. serial' \in Nat /\ awaited' \in [Threads -> Nat]
  BY <1>2, <1>3 DEF LinkType
<1> QED
  BY <1>2, <1>4, <1>5 DEF LinkType

\* Receive takes one answer away.
LEMMA ReceiveTyped ==
  ASSUME LinkType, NEW r, Receive(r)
  PROVE  LinkType' /\ r \in Answers
  BY DEF LinkType, Receive

\* Reply exchanges the request for an answer.
LEMMA ReplyTyped ==
  ASSUME LinkType, NEW r \in request, NEW result \in Results,
         NEW t \in Tickets \cup {NoTicket}, NEW lots \in Nat, Reply(r, result, t, lots)
  PROVE  LinkType'
<1>1. PICK readable \in BOOLEAN :
        reply' = reply \cup {[id |-> r.id, result |-> result, ticket |-> t,
                              lots |-> lots, readable |-> readable]}
  BY DEF Reply
<1>2. r.id \in Nat
  BY DEF LinkType, Requests
<1>3. [id |-> r.id, result |-> result, ticket |-> t, lots |-> lots, readable |-> readable] \in Answers
  BY <1>2 DEF Answers
<1>4. reply' \in SUBSET Answers
  BY <1>1, <1>3 DEF LinkType
<1> QED
  BY <1>4 DEF LinkType, Reply

\* Lots are rounded and bounded to a natural number.
LEMMA ClampedNat ==
  ASSUME NEW q \in Nat
  PROVE  Clamped(q) \in Nat
<1>1. q \div LotStep \in Nat
  BY LinkAssumption
<1> DEFINE whole == (q \div LotStep) * LotStep
<1>2. whole \in Nat
  BY <1>1, LinkAssumption
<1>3. Clamped(q) = IF whole < MinLot THEN MinLot ELSE IF whole > MaxLot THEN MaxLot ELSE whole
  BY DEF Clamped
<1> HIDE DEF whole
<1> QED
  BY <1>2, <1>3, LinkAssumption

LEMMA ExecutableNat ==
  ASSUME NEW n \in Nat, NEW lots \in Executable(n)
  PROVE  lots \in Nat /\ lots <= n
  BY DEF Executable

-----------------------------------------------------------------------------
(* Type correctness, action by action.                                     *)

LEMMA AnswerTyped ==
  ASSUME LoopType, AtType, at["loop"] # "idle", NEW v \in {"filled", "rejected"},
         order' = order, asked' = asked, verdict' = [verdict EXCEPT ![order] = v],
         Goto("loop", "idle"),
         garbled' \in SUBSET Orders, short' \in SUBSET Orders, unread' \in SUBSET Orders
  PROVE  LoopType' /\ AtType'
  BY DEF LoopType, AtType, Goto, Threads, Stages

LEMMA TypeStep ==
  ASSUME TypeOK, LoopInv, AnswerInv, [Next]_vars
  PROVE  TypeOK'
<1>0. LinkType /\ TerminalType /\ AccountType /\ LoopType /\ CallbackType /\ AtType
  BY TypeParts
<1> SUFFICES LinkType' /\ TerminalType' /\ AccountType' /\ LoopType' /\ CallbackType' /\ AtType'
  BY DEF TypeOK, LinkType, TerminalType, AccountType, LoopType, CallbackType, AtType,
         Threads, Stages, Requests, Answers
<1> USE <1>0
<1>1. CASE \E o \in Orders, q \in Quantities : Decide(o, q)
  <2>1. PICK o \in Orders, q \in Quantities : Decide(o, q)
    BY <1>1
  <2>2. q \in Nat
    BY LinkAssumption
  <2>3. LoopType'
    BY <2>1, <2>2 DEF Decide, LoopType
  <2>4. AtType'
    BY <2>1 DEF Decide, AtType, Goto, Threads, Stages
  <2>5. LinkType' /\ TerminalType' /\ AccountType' /\ CallbackType'
    BY <2>1 DEF Decide, LinkType, TerminalType, AccountType, CallbackType, link, terminal,
       account, callback
  <2> QED
    BY <2>3, <2>4, <2>5
<1>2. CASE Ping
  <2>1. TerminalType' /\ CallbackType' /\ AccountType'
    BY <1>2 DEF Ping, Reject, TerminalType, CallbackType, AccountType, terminal, callback, account
  <2>2. CASE CanSend
    <3>1. Send("loop", "ping", NoOrder, NoTicket, 0)
      BY <1>2, <2>2 DEF Ping
    <3>2. LinkType'
      BY <3>1, SendTyped DEF Threads, Ops
    <3>3. LoopType' /\ AtType'
      BY <1>2, <2>2 DEF Ping, LoopType, AtType, Goto, Threads, Stages, Reading
    <3> QED
      BY <2>1, <3>2, <3>3
  <2>3. CASE ~CanSend
    <3>1. Reject /\ UNCHANGED link /\ UNCHANGED <<garbled, short, unread>> /\ at["loop"] # "idle"
      BY <1>2, <2>3 DEF Ping
    <3>2. LinkType'
      BY <3>1 DEF LinkType, link
    <3>3. LoopType' /\ AtType'
      BY <3>1, AnswerTyped DEF Reject, Answer, LoopType
    <3> QED
      BY <2>1, <3>2, <3>3
  <2> QED
    BY <2>2, <2>3
<1>3. CASE Open
  <2>1. TerminalType' /\ CallbackType' /\ AccountType'
    BY <1>3 DEF Open, Reject, TerminalType, CallbackType, AccountType, terminal, callback, account
  <2>2. CASE CanSend
    <3>1. Send("loop", "open", order, NoTicket, asked[order])
      BY <1>3, <2>2 DEF Open
    <3>2. order \in Orders /\ asked[order] \in Nat
      BY <1>3 DEF Open, LoopInv, LoopType
    <3>3. LinkType'
      BY <3>1, <3>2, SendTyped DEF Threads, Ops
    <3>4. LoopType' /\ AtType'
      BY <1>3, <2>2 DEF Open, LoopType, AtType, Goto, Threads, Stages, Reading
    <3> QED
      BY <2>1, <3>3, <3>4
  <2>3. CASE ~CanSend
    <3>1. Reject /\ UNCHANGED link /\ UNCHANGED <<garbled, short, unread>> /\ at["loop"] # "idle"
      BY <1>3, <2>3 DEF Open
    <3>2. LinkType'
      BY <3>1 DEF LinkType, link
    <3>3. LoopType' /\ AtType'
      BY <3>1, AnswerTyped DEF Reject, Answer, LoopType
    <3> QED
      BY <2>1, <3>2, <3>3
  <2> QED
    BY <2>2, <2>3
<1>4. CASE Missed
  <2>1. at["loop"] # "idle" /\ Reject /\ garbled' = garbled /\ short' = short
    BY <1>4 DEF Missed, Reading
  <2>2. order \in Orders
    BY <2>1 DEF LoopInv
  <2>3. unread' \in SUBSET Orders
    BY <1>4, <2>2 DEF Missed, LoopType
  <2>4. LoopType' /\ AtType'
    BY <2>1, <2>3, AnswerTyped DEF Reject, Answer, LoopType
  <2>5. LinkType' /\ TerminalType' /\ AccountType' /\ CallbackType'
    BY <1>4 DEF Missed, Reject, NoAnswer, LinkType, TerminalType, AccountType, CallbackType,
       link, terminal, account, callback
  <2> QED
    BY <2>4, <2>5
<1>5. CASE ReadPing
  <2>1. PICK r \in reply :
          /\ Receive(r)
          /\ IF r.readable
             THEN /\ Goto("loop", IF at["loop"] = "reping" THEN "resend" ELSE "send")
                  /\ UNCHANGED <<account, order, asked, verdict>>
             ELSE Reject
    BY <1>5 DEF ReadPing
  <2>2. at["loop"] # "idle" /\ UNCHANGED <<terminal, callback, garbled, short, unread>>
    BY <1>5 DEF ReadPing
  <2>3. LinkType'
    BY <2>1, ReceiveTyped
  <2>4. TerminalType' /\ CallbackType'
    BY <2>2 DEF TerminalType, CallbackType, terminal, callback
  <2>5. CASE r.readable
    <3>1. LoopType' /\ AccountType'
      BY <2>1, <2>2, <2>5 DEF LoopType, AccountType, account
    <3>2. AtType'
      BY <2>1, <2>5 DEF AtType, Goto, Threads, Stages
    <3> QED
      BY <2>3, <2>4, <3>1, <3>2
  <2>6. CASE ~r.readable
    <3>1. AccountType'
      BY <2>1, <2>6 DEF Reject, AccountType, account
    <3>2. LoopType' /\ AtType'
      BY <2>1, <2>2, <2>6, AnswerTyped DEF Reject, Answer, LoopType
    <3> QED
      BY <2>3, <2>4, <3>1, <3>2
  <2> QED
    BY <2>5, <2>6
<1>6. CASE ReadOpen
  <2>1. PICK r \in reply :
          /\ Receive(r)
          /\ \/ /\ r.readable /\ r.result = "done"
                /\ Answer("filled") /\ Booked(r.ticket)
                /\ UNCHANGED <<garbled, short>>
             \/ /\ r.readable /\ r.result # "done"
                /\ Reject
                /\ short' = IF r.result = "partial" THEN short \cup {order} ELSE short
                /\ UNCHANGED garbled
             \/ /\ ~r.readable
                /\ garbled' = garbled \cup {order}
                /\ IF Again
                   THEN Goto("loop", "retry") /\ UNCHANGED <<account, order, asked, verdict>>
                   ELSE Reject
                /\ UNCHANGED short
    BY <1>6 DEF ReadOpen
  <2>2. at["loop"] # "idle" /\ UNCHANGED <<terminal, callback, unread>>
    BY <1>6 DEF ReadOpen
  <2>3. LinkType'
    BY <2>1, ReceiveTyped
  <2>4. TerminalType' /\ CallbackType'
    BY <2>2 DEF TerminalType, CallbackType, terminal, callback
  <2>5. order \in Orders /\ asked[order] \in Nat
    BY <2>2 DEF LoopInv, LoopType
  <2>6. CASE r.readable /\ r.result = "done"
    <3>1. r.ticket \in Tickets
      BY <1>6, <2>6 DEF ReadOpen, AnswerInv
    <3>2. AccountType'
      BY <2>1, <2>5, <2>6, <3>1 DEF Booked, AccountType
    <3>3. LoopType' /\ AtType'
      BY <2>1, <2>2, <2>6, AnswerTyped DEF Answer, LoopType
    <3> QED
      BY <2>3, <2>4, <3>2, <3>3
  <2>7. CASE r.readable /\ r.result # "done"
    <3>1. AccountType'
      BY <2>1, <2>7 DEF Reject, AccountType, account
    <3>2. short' \in SUBSET Orders
      BY <2>1, <2>5, <2>7 DEF LoopType
    <3>3. LoopType' /\ AtType'
      BY <2>1, <2>2, <2>7, <3>2, AnswerTyped DEF Reject, Answer, LoopType
    <3> QED
      BY <2>3, <2>4, <3>1, <3>3
  <2>8. CASE ~r.readable
    <3>1. garbled' \in SUBSET Orders /\ short' = short
      BY <2>1, <2>5, <2>8 DEF LoopType
    <3>2. CASE Again
      <4>1. LoopType' /\ AccountType'
        BY <2>1, <2>2, <2>8, <3>1, <3>2 DEF LoopType, AccountType, account
      <4>2. AtType'
        BY <2>1, <2>8, <3>2 DEF AtType, Goto, Threads, Stages
      <4> QED
        BY <2>3, <2>4, <4>1, <4>2
    <3>3. CASE ~Again
      <4>1. AccountType'
        BY <2>1, <2>8, <3>3 DEF Reject, AccountType, account
      <4>2. LoopType' /\ AtType'
        BY <2>1, <2>2, <2>8, <3>1, <3>3, AnswerTyped DEF Reject, Answer, LoopType
      <4> QED
        BY <2>3, <2>4, <4>1, <4>2
    <3> QED
      BY <3>2, <3>3
  <2> QED
    BY <2>1, <2>6, <2>7, <2>8
<1>7. CASE Kill
  BY <1>7 DEF Kill, LinkType, TerminalType, AccountType, LoopType, CallbackType, AtType,
     link, terminal, account, loop
<1>8. CASE Close
  <2>1. PICK t \in todo :
          /\ todo' = todo \ {t}
          /\ target' = t
          /\ \/ CanSend /\ Send("kill", "close", NoOrder, t, size[t]) /\ Goto("kill", "close")
             \/ UNCHANGED <<link, at>>
    BY <1>8 DEF Close
  <2>2. UNCHANGED <<terminal, account, loop, killed>>
    BY <1>8 DEF Close
  <2>3. TerminalType' /\ AccountType' /\ LoopType' /\ CallbackType'
    BY <2>1, <2>2 DEF TerminalType, AccountType, LoopType, CallbackType, terminal, account, loop
  <2>4. CASE CanSend /\ Send("kill", "close", NoOrder, t, size[t]) /\ Goto("kill", "close")
    <3>1. t \in Tickets /\ size[t] \in Nat
      BY <2>1 DEF CallbackType, AccountType
    <3>2. LinkType'
      BY <2>1, <2>4, <3>1, SendTyped DEF Threads, Ops
    <3>3. AtType'
      BY <2>1, <2>4 DEF AtType, Goto, Threads, Stages, Reading
    <3> QED
      BY <2>3, <3>2, <3>3
  <2>5. CASE UNCHANGED <<link, at>>
    BY <2>3, <2>5 DEF LinkType, AtType, link
  <2> QED
    BY <2>1, <2>4, <2>5
<1>9. CASE MissedClose
  BY <1>9 DEF MissedClose, NoAnswer, Goto, LinkType, TerminalType, AccountType, LoopType,
     CallbackType, AtType, Threads, Stages, link, terminal, account, loop, callback
<1>10. CASE ReadClose
  <2>1. PICK r \in reply :
          /\ Receive(r)
          /\ \/ /\ r.readable /\ r.lots = size[target]
                /\ book' = book \ {target} /\ UNCHANGED size
             \/ /\ r.readable /\ r.lots # size[target]
                /\ size' = [size EXCEPT ![target] = r.lots] /\ UNCHANGED book
             \/ ~r.readable /\ UNCHANGED account
    BY <1>10 DEF ReadClose
  <2>2. r.lots \in Nat
    BY <2>1 DEF LinkType, Answers
  <2>3. LinkType'
    BY <2>1, ReceiveTyped
  <2>4. AccountType'
    BY <2>1, <2>2 DEF AccountType, account
  <2>5. TerminalType' /\ LoopType' /\ CallbackType'
    BY <1>10 DEF ReadClose, TerminalType, LoopType, CallbackType, terminal, loop, callback
  <2>6. AtType'
    BY <1>10 DEF ReadClose, Goto, AtType, Threads, Stages
  <2> QED
    BY <2>3, <2>4, <2>5, <2>6
<1>11. CASE OnTimer
  <2>1. PICK r \in request : AnswerPing(r) \/ ExecuteOpen(r) \/ ExecuteClose(r)
    BY <1>11 DEF OnTimer
  <2>2. AccountType' /\ LoopType' /\ CallbackType' /\ AtType'
    BY <1>11 DEF OnTimer, AccountType, LoopType, CallbackType, AtType, account, loop, callback
  <2>3. r \in Requests
    BY <2>1 DEF LinkType
  <2>4. r.lots \in Nat /\ r.ticket \in Tickets \cup {NoTicket}
    BY <2>3 DEF Requests
  <2>5. CASE AnswerPing(r)
    <3>1. Reply(r, "done", NoTicket, 0) /\ UNCHANGED terminal
      BY <2>5 DEF AnswerPing
    <3>2. LinkType'
      BY <3>1, ReplyTyped DEF Results
    <3> QED
      BY <2>2, <3>1, <3>2 DEF TerminalType, terminal
  <2>6. CASE ExecuteOpen(r)
    <3>1. r.op = "open" /\ r.order \in Orders
      BY <2>6 DEF ExecuteOpen, LoopInv
    <3>2. CASE Reply(r, "refused", NoTicket, 0) /\ UNCHANGED terminal
      <4>1. LinkType'
        BY <3>2, ReplyTyped DEF Results
      <4> QED
        BY <2>2, <3>2, <4>1 DEF TerminalType, terminal
    <3>3. CASE /\ Fresh # {}
               /\ \E lots \in Executable(Clamped(r.lots)) :
                    /\ owner' = [owner EXCEPT ![NewTicket] = r.order]
                    /\ held' = [held EXCEPT ![NewTicket] = lots]
                    /\ Reply(r, IF lots = Clamped(r.lots) THEN "done" ELSE "partial",
                             NewTicket, lots)
      <4>1. PICK lots \in Executable(Clamped(r.lots)) :
              /\ owner' = [owner EXCEPT ![NewTicket] = r.order]
              /\ held' = [held EXCEPT ![NewTicket] = lots]
              /\ Reply(r, IF lots = Clamped(r.lots) THEN "done" ELSE "partial",
                       NewTicket, lots)
        BY <3>3
      <4>2. lots \in Nat
        BY <2>4, ClampedNat, ExecutableNat
      <4>3. NewTicket \in Tickets
        BY <3>3 DEF NewTicket, Fresh
      <4>4. (IF lots = Clamped(r.lots) THEN "done" ELSE "partial") \in Results
        BY DEF Results
      <4>5. LinkType'
        BY <4>1, <4>2, <4>3, <4>4, ReplyTyped
      <4>6. TerminalType'
        BY <3>1, <4>1, <4>2, <4>3 DEF TerminalType
      <4> QED
        BY <2>2, <4>5, <4>6
    <3> QED
      BY <2>6, <3>2, <3>3 DEF ExecuteOpen
  <2>7. CASE ExecuteClose(r)
    <3> DEFINE most == IF r.lots < held[r.ticket] THEN r.lots ELSE held[r.ticket]
    <3>1. r.op = "close" /\ r.ticket \in Tickets
      BY <2>7 DEF ExecuteClose, LoopInv
    <3>2. held[r.ticket] \in Nat
      BY <3>1 DEF TerminalType
    <3>3. CASE Reply(r, "refused", r.ticket, 0) /\ UNCHANGED terminal
      <4>1. LinkType'
        BY <2>4, <3>3, ReplyTyped DEF Results
      <4> QED
        BY <2>2, <3>3, <4>1 DEF TerminalType, terminal
    <3>4. CASE /\ \E garbage \in 0..MaxLot : Reply(r, "refused", r.ticket, garbage)
               /\ UNCHANGED terminal
      <4>1. PICK garbage \in 0..MaxLot : Reply(r, "refused", r.ticket, garbage)
        BY <3>4
      <4>2. garbage \in Nat
        BY LinkAssumption
      <4>3. LinkType'
        BY <2>4, <4>1, <4>2, ReplyTyped DEF Results
      <4> QED
        BY <2>2, <3>4, <4>3 DEF TerminalType, terminal
    <3>5. CASE /\ \E lots \in Executable(most) :
                    /\ held' = [held EXCEPT ![r.ticket] = @ - lots]
                    /\ Reply(r, "done", r.ticket, lots)
               /\ UNCHANGED owner
      <4>1. PICK lots \in Executable(most) :
              /\ held' = [held EXCEPT ![r.ticket] = @ - lots]
              /\ Reply(r, "done", r.ticket, lots)
        BY <3>5
      <4>2. most \in Nat /\ most <= held[r.ticket]
        BY <2>4, <3>2
      <4> HIDE DEF most
      <4>3. lots \in Nat /\ lots <= held[r.ticket]
        BY <3>2, <4>2, ExecutableNat
      <4>4. LinkType'
        BY <2>4, <4>1, <4>3, ReplyTyped DEF Results
      <4>5. held[r.ticket] - lots \in Nat
        BY <3>2, <4>3
      <4>6. TerminalType'
        BY <3>1, <3>5, <4>1, <4>5 DEF TerminalType
      <4> QED
        BY <2>2, <4>4, <4>6
    <3> QED
      BY <2>7, <3>3, <3>4, <3>5 DEF ExecuteClose
  <2> QED
    BY <2>1, <2>5, <2>6, <2>7
<1>12. CASE StopOut
  <2>1. TerminalType'
    BY <1>12 DEF StopOut, TerminalType
  <2> QED
    BY <1>12, <2>1 DEF StopOut, LinkType, AccountType, LoopType, CallbackType, AtType,
       link, account, loop, callback
<1>13. CASE RestartAdvisor
  BY <1>13 DEF RestartAdvisor, LinkType, TerminalType, AccountType, LoopType, CallbackType,
     AtType, terminal, account, loop, callback
<1>14. CASE UNCHANGED vars
  BY <1>14 DEF vars, LinkType, TerminalType, AccountType, LoopType, CallbackType, AtType,
     link, terminal, account, loop, callback
<1> QED
  BY <1>1, <1>2, <1>3, <1>4, <1>5, <1>6, <1>7, <1>8, <1>9, <1>10, <1>11, <1>12, <1>13, <1>14
     DEF Next, Trade, CloseAll

-----------------------------------------------------------------------------
(* The lock step of the socket.                                            *)

LEMMA LinkStep ==
  ASSUME LinkType, AtType, LinkInv, LoopInv, [Next]_vars
  PROVE  LinkInv'
<1> DEFINE Sent(thread) ==
      /\ CanSend
      /\ \E op, o, t, lots : op \in Ops /\ Send(thread, op, o, t, lots)
      /\ \E stage \in Reading : Goto(thread, stage)
<1>1. ASSUME NEW thread \in Threads, Sent(thread)
      PROVE  LinkInv'
  <2>1. socket = "ready" /\ request = {} /\ reply = {}
    BY <1>1 DEF CanSend, LinkInv
  <2>2. \A other \in Threads : ~Awaits(other)
    BY <2>1 DEF LinkInv
  <2>3. PICK op, o, t, lots : op \in Ops /\ Send(thread, op, o, t, lots)
    BY <1>1
  <2>4. PICK stage \in Reading : at' = [at EXCEPT ![thread] = stage]
    BY <1>1 DEF Goto
  <2>5. /\ socket' = "waiting" /\ serial' = serial + 1 /\ reply' = {}
        /\ request' = {[id |-> serial + 1, op |-> op, order |-> o, ticket |-> t, lots |-> lots]}
        /\ awaited' = [awaited EXCEPT ![thread] = serial + 1]
    BY <2>1, <2>3 DEF Send
  <2>6. \A other \in Threads : other # thread => ~Awaits(other)'
    BY <2>2, <2>4 DEF Awaits, AtType
  <2>7. \A r \in request' \cup reply' : r.id = serial'
    BY <2>5
  <2>8. awaited'[thread] = serial'
    BY <2>5 DEF LinkType
  <2>9. /\ \A r \in request', s \in request' : r = s
        /\ \A r \in reply', s \in reply' : r = s
    BY <2>5
  <2>10. \A other \in Threads : Awaits(other)' => socket' = "waiting" /\ awaited'[other] = serial'
    BY <2>5, <2>6, <2>8
  <2>11. ~(Awaits("loop")' /\ Awaits("kill")')
    BY <2>6 DEF Threads
  <2> QED
    BY <2>5, <2>7, <2>9, <2>10, <2>11 DEF LinkInv
<1>2. ASSUME NEW thread \in Threads, NEW r, Receive(r), at[thread] \in Reading,
             \A other \in Threads : at'[other] \in Reading => other # thread /\ at'[other] = at[other]
      PROVE  LinkInv'
  <2>1. socket' = "ready" /\ r \in reply /\ reply' = reply \ {r} /\ request' = request
    BY <1>2 DEF Receive
  <2>2. request' = {} /\ reply' = {}
    BY <2>1 DEF LinkInv
  <2>3. \A other \in Threads : Awaits(other)' => Awaits(other) /\ other # thread
    BY <1>2 DEF Awaits
  <2>4. \A other \in Threads : ~Awaits(other)'
    BY <1>2, <2>3 DEF LinkInv, Threads, Awaits
  <2> QED
    BY <2>1, <2>2, <2>4 DEF LinkInv, Threads
<1>3. ASSUME UNCHANGED link, \A other \in Threads : at'[other] \in Reading => at'[other] = at[other]
      PROVE  LinkInv'
  <2>1. \A other \in Threads : Awaits(other)' => Awaits(other)
    BY <1>3 DEF Awaits
  <2> QED
    BY <1>3, <2>1 DEF link, LinkInv, Threads
<1>4. ASSUME at' = at, socket' = socket, serial' = serial, awaited' = awaited,
             request' \subseteq request, \A r \in reply' : r.id = serial,
             \A r, s \in reply' : r = s,
             request' = {} \/ reply' = {}, socket = "ready" => reply' = {}
      PROVE  LinkInv'
  <2>1. \A other \in Threads : Awaits(other)' <=> Awaits(other)
    BY <1>4 DEF Awaits
  <2> QED
    BY <1>4, <2>1 DEF LinkInv, Threads
<1>5. CASE \E o \in Orders, q \in Quantities : Decide(o, q)
  BY <1>3, <1>5 DEF Decide, Goto, AtType, Threads, Reading
<1>6. CASE Ping
  <2>1. CASE CanSend
    BY <1>1, <1>6, <2>1 DEF Ping, Ops, Reading, Threads
  <2>2. CASE ~CanSend
    BY <1>3, <1>6, <2>2 DEF Ping, Reject, Answer, Goto, AtType, Threads, Reading
  <2> QED
    BY <2>1, <2>2
<1>7. CASE Open
  <2>1. CASE CanSend
    BY <1>1, <1>7, <2>1 DEF Open, Ops, Reading, Threads
  <2>2. CASE ~CanSend
    BY <1>3, <1>7, <2>2 DEF Open, Reject, Answer, Goto, AtType, Threads, Reading
  <2> QED
    BY <2>1, <2>2
<1>8. CASE Missed
  BY <1>3, <1>8 DEF Missed, NoAnswer, Reject, Answer, Goto, AtType, Threads, Reading
<1>9. CASE ReadPing
  <2>1. PICK r \in reply : Receive(r)
    BY <1>9 DEF ReadPing
  <2>2. at["loop"] \in Reading
    BY <1>9 DEF ReadPing, Reading
  <2>3. \E stage \in {"idle", "send", "resend"} : at' = [at EXCEPT !["loop"] = stage]
    BY <1>9 DEF ReadPing, Reject, Answer, Goto
  <2>4. \A other \in Threads : at'[other] \in Reading => other # "loop" /\ at'[other] = at[other]
    BY <2>3 DEF AtType, Threads, Reading
  <2> QED
    BY <1>2, <2>1, <2>2, <2>4 DEF Threads
<1>10. CASE ReadOpen
  <2>1. PICK r \in reply : Receive(r)
    BY <1>10 DEF ReadOpen
  <2>2. at["loop"] \in Reading
    BY <1>10 DEF ReadOpen, Reading
  <2>3. \E stage \in {"idle", "retry"} : at' = [at EXCEPT !["loop"] = stage]
    BY <1>10 DEF ReadOpen, Reject, Answer, Goto
  <2>4. \A other \in Threads : at'[other] \in Reading => other # "loop" /\ at'[other] = at[other]
    BY <2>3 DEF AtType, Threads, Reading
  <2> QED
    BY <1>2, <2>1, <2>2, <2>4 DEF Threads
<1>11. CASE Kill
  BY <1>3, <1>11 DEF Kill
<1>12. CASE Close
  <2>1. PICK t \in todo :
          \/ CanSend /\ Send("kill", "close", NoOrder, t, size[t]) /\ Goto("kill", "close")
          \/ UNCHANGED <<link, at>>
    BY <1>12 DEF Close
  <2>2. CASE CanSend /\ Send("kill", "close", NoOrder, t, size[t]) /\ Goto("kill", "close")
    BY <1>1, <2>2 DEF Ops, Reading, Threads
  <2>3. CASE UNCHANGED <<link, at>>
    BY <1>3, <2>3
  <2> QED
    BY <2>1, <2>2, <2>3
<1>13. CASE MissedClose
  BY <1>3, <1>13 DEF MissedClose, NoAnswer, Goto, AtType, Threads, Reading
<1>14. CASE ReadClose
  <2>1. PICK r \in reply : Receive(r)
    BY <1>14 DEF ReadClose
  <2>2. at["kill"] \in Reading /\ at' = [at EXCEPT !["kill"] = "idle"]
    BY <1>14 DEF ReadClose, Reading, Goto
  <2>3. \A other \in Threads : at'[other] \in Reading => other # "kill" /\ at'[other] = at[other]
    BY <2>2 DEF AtType, Threads, Reading
  <2> QED
    BY <1>2, <2>1, <2>2, <2>3 DEF Threads
<1>15. CASE OnTimer
  <2>1. PICK r \in request : AnswerPing(r) \/ ExecuteOpen(r) \/ ExecuteClose(r)
    BY <1>15 DEF OnTimer
  <2>2. PICK result, t, lots : Reply(r, result, t, lots)
    BY <2>1 DEF AnswerPing, ExecuteOpen, ExecuteClose
  <2>3. request' = {} /\ reply = {} /\ socket # "ready" /\ r.id = serial
    BY <2>2 DEF Reply, LinkInv
  <2>4. PICK readable : reply' = {[id |-> r.id, result |-> result, ticket |-> t,
                                   lots |-> lots, readable |-> readable]}
    BY <2>2, <2>3 DEF Reply
  <2>5. \A s \in reply' : s.id = serial
    BY <2>3, <2>4
  <2>6. \A s, u \in reply' : s = u
    BY <2>4
  <2> QED
    BY <1>4, <1>15, <2>2, <2>3, <2>5, <2>6 DEF OnTimer, Reply
<1>16. CASE StopOut
  BY <1>3, <1>16 DEF StopOut
<1>17. CASE RestartAdvisor
  BY <1>4, <1>17 DEF RestartAdvisor
<1>18. CASE UNCHANGED vars
  BY <1>3, <1>18 DEF vars
<1> QED
  BY <1>5, <1>6, <1>7, <1>8, <1>9, <1>10, <1>11, <1>12, <1>13, <1>14, <1>15, <1>16, <1>17, <1>18
     DEF Next, Trade, CloseAll

-----------------------------------------------------------------------------
(* Whose request is on the way.                                            *)

\* When the loop is answered it is idle, and what is on the way stays.
LEMMA RejectedLoop ==
  ASSUME LoopType, AtType, LoopInv, at["loop"] # "idle",
         NEW v \in {"filled", "rejected"}, verdict' = [verdict EXCEPT ![order] = v],
         Goto("loop", "idle"), order' = order, target' = target, request' \subseteq request
  PROVE  LoopInv'
<1>1. at'["loop"] = "idle" /\ at'["kill"] = at["kill"]
  BY DEF Goto, AtType, Threads
<1>2. order \in Orders
  BY DEF LoopInv
<1>3. \A o \in Orders : verdict[o] # "none" => verdict'[o] # "none"
  BY <1>2 DEF LoopType
<1>4. \A r \in request' : r \in request
  OBVIOUS
<1> QED
  BY <1>1, <1>3, <1>4 DEF LoopInv, Unsent

LEMMA LoopStep ==
  ASSUME LinkType, LoopType, CallbackType, AtType, LinkInv, LoopInv, [Next]_vars
  PROVE  LoopInv'
<1>1. CASE \E o \in Orders, q \in Quantities : Decide(o, q)
  <2>1. PICK o \in Orders, q \in Quantities : Decide(o, q)
    BY <1>1
  <2>2. at' = [at EXCEPT !["loop"] = "decided"] /\ order' = o /\ request' = request /\ target' = target
    BY <2>1 DEF Decide, Goto, link, callback
  <2>3. verdict[o] = "none" /\ verdict' = [verdict EXCEPT ![o] = "sending"]
    BY <2>1 DEF Decide
  <2>4. at'["loop"] = "decided" /\ at'["kill"] = at["kill"]
    BY <2>2 DEF AtType, Threads
  <2>5. verdict'[o] = "sending" /\ \A p \in Orders : verdict[p] # "none" => verdict'[p] # "none"
    BY <2>3 DEF LoopType
  <2>6. \A r \in request : r.op = "open" => r.order # o
    BY <2>3 DEF LoopInv
  <2> QED
    BY <2>2, <2>4, <2>5, <2>6 DEF LoopInv, Unsent
<1>2. CASE Ping
  <2>1. at["loop"] \in {"decided", "retry"} /\ target' = target
    BY <1>2 DEF Ping, callback
  <2>2. CASE CanSend
    <3>1. request = {}
      BY <2>2 DEF CanSend, LinkInv
    <3>2. \A r \in request' : r.op = "ping"
      BY <1>2, <2>2, <3>1 DEF Ping, Send
    <3>3. at'["loop"] \in {"ping", "reping"} /\ at'["kill"] = at["kill"]
      BY <1>2, <2>2 DEF Ping, Goto, AtType, Threads
    <3>4. order' = order /\ verdict' = verdict
      BY <1>2, <2>2 DEF Ping
    <3>5. order \in Orders /\ verdict[order] = "sending"
      BY <2>1 DEF LoopInv
    <3> QED
      BY <2>1, <3>2, <3>3, <3>4, <3>5 DEF LoopInv
  <2>3. CASE ~CanSend
    BY <1>2, <2>1, <2>3, RejectedLoop DEF Ping, Reject, Answer, link
  <2> QED
    BY <2>2, <2>3
<1>3. CASE Open
  <2>1. at["loop"] \in {"decided", "send", "resend"} /\ target' = target
    BY <1>3 DEF Open, callback
  <2>2. CASE CanSend
    <3>1. request = {}
      BY <2>2 DEF CanSend, LinkInv
    <3>2. \A r \in request' : r.op = "open" /\ r.order = order
      BY <1>3, <2>2, <3>1 DEF Open, Send
    <3>3. at'["loop"] \in {"open", "reopen"} /\ at'["kill"] = at["kill"]
      BY <1>3, <2>2 DEF Open, Goto, AtType, Threads
    <3>4. order' = order /\ verdict' = verdict
      BY <1>3, <2>2 DEF Open
    <3>5. order \in Orders /\ verdict[order] = "sending"
      BY <2>1 DEF LoopInv
    <3> QED
      BY <2>1, <3>2, <3>3, <3>4, <3>5 DEF LoopInv, Unsent
  <2>3. CASE ~CanSend
    BY <1>3, <2>1, <2>3, RejectedLoop DEF Open, Reject, Answer, link
  <2> QED
    BY <2>2, <2>3
<1>4. CASE Missed
  BY <1>4, RejectedLoop DEF Missed, NoAnswer, Reject, Answer, Reading, link, callback
<1>5. CASE ReadPing
  <2>1. at["loop"] \in {"ping", "reping"} /\ target' = target
    BY <1>5 DEF ReadPing, callback
  <2>2. PICK r \in reply :
          /\ Receive(r)
          /\ IF r.readable
             THEN /\ Goto("loop", IF at["loop"] = "reping" THEN "resend" ELSE "send")
                  /\ UNCHANGED <<account, order, asked, verdict>>
             ELSE Reject
    BY <1>5 DEF ReadPing
  <2>3. request' = {}
    BY <2>2 DEF Receive, LinkInv
  <2>4. CASE r.readable
    <3>1. at'["loop"] \in {"send", "resend"} /\ at'["kill"] = at["kill"]
      BY <2>2, <2>4 DEF Goto, AtType, Threads
    <3> QED
      BY <2>1, <2>2, <2>3, <2>4, <3>1 DEF LoopInv, Unsent
  <2>5. CASE ~r.readable
    BY <2>1, <2>2, <2>3, <2>5, RejectedLoop DEF Reject, Answer
  <2> QED
    BY <2>4, <2>5
<1>6. CASE ReadOpen
  <2>1. at["loop"] \in {"open", "reopen"} /\ target' = target
    BY <1>6 DEF ReadOpen, callback
  <2>2. request' = {}
    BY <1>6 DEF ReadOpen, Receive, LinkInv
  <2>3. CASE \E v \in {"filled", "rejected"} : Answer(v)
    BY <2>1, <2>2, <2>3, RejectedLoop DEF Answer
  <2>4. CASE Goto("loop", "retry") /\ UNCHANGED <<account, order, asked, verdict>>
    <3>1. at'["loop"] = "retry" /\ at'["kill"] = at["kill"]
      BY <2>4 DEF Goto, AtType, Threads
    <3> QED
      BY <2>1, <2>2, <2>4, <3>1 DEF LoopInv, Unsent
  <2> QED
    BY <1>6, <2>3, <2>4 DEF ReadOpen, Reject
<1>7. CASE Kill
  BY <1>7 DEF Kill, LoopInv, link, loop, Unsent
<1>8. CASE Close
  <2>1. PICK t \in todo :
          /\ target' = t
          /\ \/ CanSend /\ Send("kill", "close", NoOrder, t, size[t]) /\ Goto("kill", "close")
             \/ UNCHANGED <<link, at>>
    BY <1>8 DEF Close
  <2>2. t \in Tickets /\ order' = order /\ verdict' = verdict /\ at["kill"] = "idle"
    BY <1>8, <2>1 DEF Close, CallbackType, loop
  <2>3. CASE CanSend /\ Send("kill", "close", NoOrder, t, size[t]) /\ Goto("kill", "close")
    <3>1. request = {} /\ ~Awaits("loop")
      BY <2>3 DEF CanSend, LinkInv, Threads
    <3>2. \A r \in request' : r.op = "close" /\ r.ticket = t
      BY <2>1, <2>3, <3>1 DEF Send
    <3>3. at'["loop"] = at["loop"] /\ at'["kill"] = "close"
      BY <2>1, <2>3 DEF Goto, AtType, Threads
    <3>4. at'["loop"] \notin Reading
      BY <3>1, <3>3 DEF Awaits
    <3> QED
      BY <2>1, <2>2, <3>2, <3>3, <3>4 DEF LoopInv, Unsent, Reading
  <2>4. CASE UNCHANGED <<link, at>>
    BY <2>1, <2>2, <2>4 DEF LoopInv, Unsent, link
  <2> QED
    BY <2>1, <2>3, <2>4
<1>9. ASSUME order' = order, verdict' = verdict, target' = target, request' \subseteq request,
             at'["loop"] = at["loop"], at'["kill"] \in {"idle", at["kill"]}
      PROVE  LoopInv'
  <2>1. \A r \in request' : r \in request
    BY <1>9
  <2> QED
    BY <1>9, <2>1 DEF LoopInv, Unsent
<1>10. CASE MissedClose
  BY <1>9, <1>10 DEF MissedClose, NoAnswer, Goto, AtType, Threads, link, loop, callback
<1>11. CASE ReadClose
  BY <1>9, <1>11 DEF ReadClose, Receive, Goto, AtType, Threads, loop, callback
<1>12. CASE OnTimer
  BY <1>9, <1>12 DEF OnTimer, AnswerPing, ExecuteOpen, ExecuteClose, Reply, loop, callback
<1>13. CASE StopOut
  BY <1>9, <1>13 DEF StopOut, link, loop, callback
<1>14. CASE RestartAdvisor
  BY <1>9, <1>14 DEF RestartAdvisor, loop, callback
<1>15. CASE UNCHANGED vars
  BY <1>9, <1>15 DEF vars, link, loop, callback
<1> QED
  BY <1>1, <1>2, <1>3, <1>4, <1>5, <1>6, <1>7, <1>8, <1>10, <1>11, <1>12, <1>13, <1>14, <1>15
     DEF Next, Trade, CloseAll

-----------------------------------------------------------------------------
(* How many positions an order has.                                        *)

\* What the steps that neither open, garble nor begin an order have in common.
Calm ==
  /\ owner' = owner /\ garbled' = garbled /\ order' = order
  /\ \A o \in Orders : verdict'[o] = "none" => verdict[o] = "none"
  /\ \A r \in request' : r.op = "open" => r \in request
  /\ at'["loop"] \in {"decided", "ping", "send"} => at["loop"] \in {"decided", "ping", "send"}
  /\ at'["loop"] \in {"retry", "reping", "resend"} => at["loop"] \in {"retry", "reping", "resend"}
  /\ at'["loop"] \in {"open", "reopen"} => at'["loop"] = at["loop"]

\* The loop's thread answers the loop.
LEMMA AnswerCalm ==
  ASSUME LoopType, AtType, LoopInv, at["loop"] # "idle", NEW v \in {"filled", "rejected"},
         Answer(v), garbled' = garbled, owner' = owner,
         \A r \in request' : r.op = "open" => r \in request
  PROVE  Calm
<1>1. order \in Orders
  BY DEF LoopInv
<1>2. at'["loop"] = "idle"
  BY DEF Answer, Goto, AtType, Threads
<1>3. verdict' = [verdict EXCEPT ![order] = v]
  BY DEF Answer
<1>4. \A o \in Orders : verdict'[o] = "none" => verdict[o] = "none"
  BY <1>1, <1>3 DEF LoopType
<1>5. order' = order
  BY DEF Answer
<1> QED
  BY <1>2, <1>4, <1>5 DEF Calm

\* Every step is calm, or it decides, sends an order, reads what cannot be
\* read, or opens a position.
Decides == \E o \in Orders, q \in Quantities : Decide(o, q)
SendsOrder == Open /\ CanSend
ReadsGarbage ==
  /\ ReadOpen /\ at["loop"] = "open" /\ at'["loop"] = "retry"
  /\ garbled' = garbled \cup {order} /\ request' = request /\ order' = order
  /\ verdict' = verdict /\ reply # {}
GivesUp ==
  /\ ReadOpen /\ at["loop"] = "reopen" /\ at'["loop"] = "idle"
  /\ garbled' = garbled \cup {order} /\ request' = request /\ order' = order
  /\ verdict' = [verdict EXCEPT ![order] = "rejected"] /\ reply # {}
Opens ==
  \E r \in request :
    /\ r.op = "open" /\ request' = {}
    /\ Fresh # {} /\ owner' = [owner EXCEPT ![NewTicket] = r.order]
    /\ UNCHANGED <<order, verdict, garbled, at>>

LEMMA StepKinds ==
  ASSUME LinkType, LoopType, AtType, LinkInv, LoopInv, [Next]_vars
  PROVE  Calm \/ Decides \/ SendsOrder \/ ReadsGarbage \/ GivesUp \/ Opens
<1>1. CASE Ping
  <2>1. at["loop"] \in {"decided", "retry"} /\ owner' = owner /\ garbled' = garbled
    BY <1>1 DEF Ping, terminal
  <2>2. CASE CanSend
    <3>1. \A r \in request' : r.op = "open" => r \in request
      BY <1>1, <2>2 DEF Ping, Send
    <3>2. at'["loop"] = IF at["loop"] = "retry" THEN "reping" ELSE "ping"
      BY <1>1, <2>2 DEF Ping, Goto, AtType, Threads
    <3> QED
      BY <1>1, <2>1, <2>2, <3>1, <3>2 DEF Ping, Calm
  <2>3. CASE ~CanSend
    BY <1>1, <2>1, <2>3, AnswerCalm DEF Ping, Reject, link
  <2> QED
    BY <2>2, <2>3
<1>2. CASE Open
  <2>1. CASE ~CanSend
    BY <1>2, <2>1, AnswerCalm DEF Open, Reject, link, terminal
  <2> QED
    BY <1>2, <2>1 DEF SendsOrder
<1>3. CASE Missed
  BY <1>3, AnswerCalm DEF Missed, NoAnswer, Reject, Reading, link, terminal
<1>4. CASE ReadPing
  <2>1. PICK r \in reply :
          /\ Receive(r)
          /\ IF r.readable
             THEN /\ Goto("loop", IF at["loop"] = "reping" THEN "resend" ELSE "send")
                  /\ UNCHANGED <<account, order, asked, verdict>>
             ELSE Reject
    BY <1>4 DEF ReadPing
  <2>2. at["loop"] \in {"ping", "reping"} /\ owner' = owner /\ garbled' = garbled
    BY <1>4 DEF ReadPing, terminal
  <2>3. request' = request
    BY <2>1 DEF Receive
  <2>4. CASE r.readable
    <3>1. at'["loop"] = IF at["loop"] = "reping" THEN "resend" ELSE "send"
      BY <2>1, <2>4 DEF Goto, AtType, Threads
    <3> QED
      BY <2>1, <2>2, <2>3, <2>4, <3>1 DEF Calm
  <2>5. CASE ~r.readable
    BY <2>1, <2>2, <2>3, <2>5, AnswerCalm DEF Reject
  <2> QED
    BY <2>4, <2>5
<1>5. CASE ReadOpen
  <2>1. at["loop"] \in {"open", "reopen"} /\ owner' = owner
    BY <1>5 DEF ReadOpen, terminal
  <2>2. PICK r \in reply :
          /\ Receive(r)
          /\ \/ /\ r.readable /\ r.result = "done"
                /\ Answer("filled") /\ Booked(r.ticket)
                /\ UNCHANGED <<garbled, short>>
             \/ /\ r.readable /\ r.result # "done"
                /\ Reject
                /\ short' = IF r.result = "partial" THEN short \cup {order} ELSE short
                /\ UNCHANGED garbled
             \/ /\ ~r.readable
                /\ garbled' = garbled \cup {order}
                /\ IF Again
                   THEN Goto("loop", "retry") /\ UNCHANGED <<account, order, asked, verdict>>
                   ELSE Reject
                /\ UNCHANGED short
    BY <1>5 DEF ReadOpen
  <2>3. request' = request /\ reply # {}
    BY <2>2 DEF Receive
  <2>4. CASE r.readable
    BY <2>1, <2>2, <2>3, <2>4, AnswerCalm DEF Reject
  <2>5. CASE ~r.readable /\ Again
    <3>1. at'["loop"] = "retry"
      BY <2>2, <2>5 DEF Goto, AtType, Threads
    <3> QED
      BY <1>5, <2>2, <2>3, <2>5, <3>1 DEF ReadsGarbage, Again
  <2>6. CASE ~r.readable /\ ~Again
    <3>1. Answer("rejected")
      BY <2>2, <2>6 DEF Reject
    <3>2. at'["loop"] = "idle" /\ verdict' = [verdict EXCEPT ![order] = "rejected"] /\ order' = order
      BY <3>1 DEF Answer, Goto, AtType, Threads
    <3> QED
      BY <1>5, <2>1, <2>2, <2>3, <2>6, <3>2 DEF GivesUp, Again
  <2> QED
    BY <2>4, <2>5, <2>6
<1>6. CASE Close
  <2>1. owner' = owner /\ garbled' = garbled /\ order' = order /\ verdict' = verdict
    BY <1>6 DEF Close, terminal, loop
  <2>2. at'["loop"] = at["loop"]
    BY <1>6 DEF Close, Goto, AtType, Threads
  <2>3. \A r \in request' : r.op = "open" => r \in request
    BY <1>6 DEF Close, Send, link
  <2> QED
    BY <2>1, <2>2, <2>3 DEF Calm
<1>7. CASE MissedClose
  BY <1>7 DEF MissedClose, NoAnswer, Calm, Goto, AtType, Threads, link, terminal, loop
<1>8. CASE ReadClose
  BY <1>8 DEF ReadClose, Receive, Calm, Goto, AtType, Threads, terminal, loop
<1>9. CASE OnTimer
  <2>1. PICK r \in request : AnswerPing(r) \/ ExecuteOpen(r) \/ ExecuteClose(r)
    BY <1>9 DEF OnTimer
  <2>2. UNCHANGED <<order, verdict, garbled, at>>
    BY <1>9 DEF OnTimer, loop
  <2>3. request' = {}
    BY <2>1 DEF AnswerPing, ExecuteOpen, ExecuteClose, Reply, LinkInv
  <2>4. owner' = owner \/ ExecuteOpen(r)
    BY <2>1 DEF AnswerPing, ExecuteClose, terminal
  <2>5. CASE owner' = owner
    BY <2>2, <2>3, <2>5 DEF Calm
  <2>6. CASE ExecuteOpen(r)
    BY <2>1, <2>2, <2>3, <2>5, <2>6 DEF ExecuteOpen, Opens, terminal
  <2> QED
    BY <2>4, <2>5, <2>6
<1>10. CASE Kill \/ StopOut
  BY <1>10 DEF Kill, StopOut, Calm, link, terminal, loop
<1>11. CASE RestartAdvisor
  BY <1>11 DEF RestartAdvisor, Calm, terminal, loop
<1>12. CASE UNCHANGED vars
  BY <1>12 DEF vars, Calm, link, terminal, loop
<1> QED
  BY <1>1, <1>2, <1>3, <1>4, <1>5, <1>6, <1>7, <1>8, <1>9, <1>10, <1>11, <1>12
     DEF Next, Trade, CloseAll, Decides

LEMMA OwnStep ==
  ASSUME LinkType, TerminalType, LoopType, AtType, LinkInv, LoopInv, OwnInv, [Next]_vars
  PROVE  OwnInv'
<1>1. CASE Calm
  <2>1. \A o \in Orders : (OnePosition(o)' <=> OnePosition(o)) /\ (NoPosition(o)' <=> NoPosition(o))
                           /\ (TwoPositions(o)' <=> TwoPositions(o))
    BY <1>1 DEF Calm, OnePosition, NoPosition, TwoPositions
  <2>2. (OnePosition(order)' <=> OnePosition(order)) /\ (NoPosition(order)' <=> NoPosition(order))
    BY <1>1 DEF Calm, OnePosition, NoPosition
  <2>3. \A r \in request' : r.op = "open" => r \in request /\ r.order \in Orders
    BY <1>1 DEF Calm, LoopInv
  <2> QED
    BY <1>1, <2>1, <2>2, <2>3 DEF Calm, OwnInv
<1>2. CASE Decides
  <2>1. PICK o \in Orders, q \in Quantities : Decide(o, q)
    BY <1>2 DEF Decides
  <2>2. /\ order' = o /\ verdict[o] = "none" /\ verdict' = [verdict EXCEPT ![o] = "sending"]
        /\ owner' = owner /\ request' = request /\ garbled' = garbled
    BY <2>1 DEF Decide, link, terminal
  <2>3. at'["loop"] = "decided"
    BY <2>1 DEF Decide, Goto, AtType, Threads
  <2>4. \A p : (OnePosition(p)' <=> OnePosition(p)) /\ (NoPosition(p)' <=> NoPosition(p))
                           /\ (TwoPositions(p)' <=> TwoPositions(p))
    BY <2>2 DEF OnePosition, NoPosition, TwoPositions
  <2>5. \A p \in Orders : verdict'[p] = "none" => verdict[p] = "none"
    BY <2>2 DEF LoopType
  <2>6. NoPosition(o) /\ o \notin garbled
    BY <2>2 DEF OwnInv
  <2>7. NoPosition(order)' /\ order' \notin garbled'
    BY <2>2, <2>6 DEF NoPosition
  <2> QED
    BY <2>2, <2>3, <2>4, <2>5, <2>7 DEF OwnInv
<1>3. CASE SendsOrder
  <2>1. at["loop"] \in {"decided", "send", "resend"} /\ request = {}
    BY <1>3 DEF SendsOrder, Open, CanSend, LinkInv
  <2>2. /\ order' = order /\ verdict' = verdict /\ owner' = owner /\ garbled' = garbled
        /\ \A r \in request' : r.order = order
    BY <1>3, <2>1 DEF SendsOrder, Open, Send, terminal
  <2>3. at'["loop"] = IF at["loop"] = "resend" THEN "reopen" ELSE "open"
    BY <1>3 DEF SendsOrder, Open, Goto, AtType, Threads
  <2>4. \A p : (OnePosition(p)' <=> OnePosition(p)) /\ (NoPosition(p)' <=> NoPosition(p))
                           /\ (TwoPositions(p)' <=> TwoPositions(p))
    BY <2>2 DEF OnePosition, NoPosition, TwoPositions
  <2>5. NoPosition(order) => OnePosition(order)
    BY DEF NoPosition, OnePosition
  <2>6. OnePosition(order) /\ (order \notin garbled => NoPosition(order))
    BY <2>1, <2>5 DEF OwnInv
  <2> QED
    BY <2>1, <2>2, <2>3, <2>4, <2>6 DEF OwnInv
<1>4. CASE ReadsGarbage \/ GivesUp
  <2>1. request' = {} /\ order' = order /\ garbled' = garbled \cup {order} /\ order \in Orders
    BY <1>4 DEF ReadsGarbage, GivesUp, LinkInv, LoopInv
  <2>2. owner' = owner
    BY <1>4 DEF ReadsGarbage, GivesUp, ReadOpen, terminal
  <2>3. \A p : (OnePosition(p)' <=> OnePosition(p)) /\ (NoPosition(p)' <=> NoPosition(p))
                           /\ (TwoPositions(p)' <=> TwoPositions(p))
    BY <2>2 DEF OnePosition, NoPosition, TwoPositions
  <2>4. (OnePosition(order)' <=> OnePosition(order))
    BY <2>1, <2>2 DEF OnePosition
  <2>5. \A p \in Orders : verdict'[p] = "none" => verdict[p] = "none" /\ p # order
    BY <1>4 DEF ReadsGarbage, GivesUp, LoopType, LoopInv
  <2>6. CASE ReadsGarbage
    <3>1. OnePosition(order)
      BY <2>1, <2>6 DEF ReadsGarbage, OwnInv
    <3>2. at'["loop"] = "retry"
      BY <2>6 DEF ReadsGarbage
    <3> QED
      BY <2>1, <2>3, <2>4, <2>5, <3>1, <3>2 DEF OwnInv
  <2>7. CASE GivesUp
    <3>1. at'["loop"] = "idle"
      BY <2>7 DEF GivesUp
    <3> QED
      BY <2>1, <2>3, <2>5, <3>1 DEF OwnInv
  <2> QED
    BY <1>4, <2>6, <2>7
<1>5. CASE Opens
  <2>1. PICK r \in request :
          /\ r.op = "open" /\ request' = {}
          /\ Fresh # {} /\ owner' = [owner EXCEPT ![NewTicket] = r.order]
          /\ UNCHANGED <<order, verdict, garbled, at>>
    BY <1>5 DEF Opens
  <2>2. NewTicket \in Tickets /\ owner[NewTicket] = NoOrder
    BY <2>1 DEF NewTicket, Fresh
  <2>3. /\ r.order \in Orders /\ verdict[r.order] # "none"
        /\ at["loop"] \in Unsent => r.order # order
    BY <2>1 DEF LoopInv
  <2>4. OnePosition(r.order) /\ (r.order \notin garbled => NoPosition(r.order))
    BY <2>1 DEF OwnInv
  <2>5. \A t \in Tickets : owner'[t] = IF t = NewTicket THEN r.order ELSE owner[t]
    BY <2>1, <2>2 DEF TerminalType
  <2>6. \A p \in Orders : p # r.order =>
          (OnePosition(p)' <=> OnePosition(p)) /\ (NoPosition(p)' <=> NoPosition(p))
            /\ (TwoPositions(p)' <=> TwoPositions(p))
    <3>1. SUFFICES ASSUME NEW p \in Orders, p # r.order
                   PROVE  \A t \in Tickets : owner'[t] = p <=> owner[t] = p
      BY DEF OnePosition, NoPosition, TwoPositions
    <3> QED
      BY <2>2, <2>5, <3>1, LinkAssumption
  <2>7. at["loop"] \in Unsent => (OnePosition(order)' <=> OnePosition(order))
                                 /\ (NoPosition(order)' <=> NoPosition(order))
    <3>1. SUFFICES ASSUME at["loop"] \in Unsent
                   PROVE  \A t \in Tickets : owner'[t] = order <=> owner[t] = order
      BY <2>1 DEF OnePosition, NoPosition
    <3>2. order \in Orders /\ order # r.order
      BY <2>3, <3>1 DEF LoopInv, Unsent
    <3> QED
      BY <2>2, <2>5, <3>2, LinkAssumption
  <2>8. TwoPositions(r.order)'
    BY <2>4, <2>5 DEF OnePosition, TwoPositions
  <2>9. r.order \notin garbled => OnePosition(r.order)'
    BY <2>4, <2>5 DEF NoPosition, OnePosition
  <2>10. \A o \in Orders : TwoPositions(o)' /\ (o \notin garbled' => OnePosition(o)')
    BY <2>1, <2>6, <2>8, <2>9 DEF OwnInv
  <2>11. \A o \in Orders : verdict'[o] = "none" => NoPosition(o)' /\ o \notin garbled'
    BY <2>1, <2>3, <2>6 DEF OwnInv
  <2> QED
    BY <2>1, <2>7, <2>10, <2>11 DEF OwnInv, Unsent
<1> QED
  BY <1>1, <1>2, <1>3, <1>4, <1>5, StepKinds

-----------------------------------------------------------------------------
(* What an answer says, what a rejection leaves behind, what is booked.    *)

\* An answer "done" tells the ticket of the order that waits, and a refusal at
\* the first try means that there is no position.
LEMMA AnswersStep ==
  ASSUME LinkType, TerminalType, LoopType, AtType, LinkInv, LoopInv, OwnInv, AnswerInv, [Next]_vars
  PROVE  AnswerInv'
<1>1. ASSUME order' = order, owner' = owner, reply' \subseteq reply,
             at'["loop"] \in {"open", "reopen"} => at'["loop"] = at["loop"]
      PROVE  AnswerInv'
  <2>1. NoPosition(order)' <=> NoPosition(order)
    BY <1>1 DEF NoPosition
  <2>2. \A r \in reply' : r \in reply
    BY <1>1
  <2> QED
    BY <1>1, <2>1, <2>2 DEF AnswerInv
<1>2. ASSUME at'["loop"] \notin {"open", "reopen"}
      PROVE  AnswerInv'
  BY <1>2 DEF AnswerInv
<1>3. CASE Decides
  BY <1>2, <1>3 DEF Decides, Decide, Goto, AtType, Threads
<1>4. CASE Ping
  BY <1>2, <1>4 DEF Ping, Reject, Answer, Goto, AtType, Threads
<1>5. CASE Open
  <2>1. CASE CanSend
    <3>1. reply' = {}
      BY <1>5, <2>1 DEF Open, CanSend, Send, LinkInv
    <3> QED
      BY <3>1 DEF AnswerInv
  <2>2. CASE ~CanSend
    BY <1>2, <1>5, <2>2 DEF Open, Reject, Answer, Goto, AtType, Threads
  <2> QED
    BY <2>1, <2>2
<1>6. CASE Missed
  BY <1>2, <1>6 DEF Missed, Reject, Answer, Goto, AtType, Threads
<1>7. CASE ReadPing
  <2>1. \E stage \in {"idle", "send", "resend"} : at' = [at EXCEPT !["loop"] = stage]
    BY <1>7 DEF ReadPing, Reject, Answer, Goto
  <2> QED
    BY <1>2, <2>1 DEF AtType, Threads
<1>8. CASE ReadOpen
  <2>1. \E stage \in {"idle", "retry"} : at' = [at EXCEPT !["loop"] = stage]
    BY <1>8 DEF ReadOpen, Reject, Answer, Goto
  <2> QED
    BY <1>2, <2>1 DEF AtType, Threads
<1>9. CASE Kill
  BY <1>1, <1>9 DEF Kill, link, terminal, loop
<1>10. CASE Close
  <2>1. at'["loop"] = at["loop"]
    BY <1>10 DEF Close, Goto, AtType, Threads
  <2> QED
    BY <1>1, <1>10, <2>1 DEF Close, Send, link, terminal, loop
<1>11. CASE MissedClose
  BY <1>1, <1>11 DEF MissedClose, NoAnswer, Goto, AtType, Threads, link, terminal, loop
<1>12. CASE ReadClose
  BY <1>1, <1>12 DEF ReadClose, Receive, Goto, AtType, Threads, terminal, loop
<1>13. CASE OnTimer
  <2>1. PICK r \in request : AnswerPing(r) \/ ExecuteOpen(r) \/ ExecuteClose(r)
    BY <1>13 DEF OnTimer
  <2>2. SUFFICES ASSUME at["loop"] \in {"open", "reopen"}
                 PROVE  AnswerInv'
    BY <1>2, <1>13 DEF OnTimer
  <2>3. r.op = "open" /\ r.order = order /\ reply = {}
    BY <2>1, <2>2 DEF LoopInv, LinkInv
  <2>4. ExecuteOpen(r)
    BY <2>1, <2>3 DEF AnswerPing, ExecuteClose
  <2>5. order' = order /\ at' = at
    BY <1>13 DEF OnTimer, loop
  <2>6. CASE Reply(r, "refused", NoTicket, 0) /\ UNCHANGED terminal
    <3>1. \A s \in reply' : s.result = "refused"
      BY <2>3, <2>6 DEF Reply
    <3>2. at["loop"] = "open" => NoPosition(order)
      BY <2>1, <2>3 DEF OwnInv
    <3>3. NoPosition(order)' <=> NoPosition(order)
      BY <2>5, <2>6 DEF NoPosition, terminal
    <3> QED
      BY <2>5, <3>1, <3>2, <3>3 DEF AnswerInv
  <2>7. CASE /\ Fresh # {}
             /\ \E lots \in Executable(Clamped(r.lots)) :
                  /\ owner' = [owner EXCEPT ![NewTicket] = r.order]
                  /\ held' = [held EXCEPT ![NewTicket] = lots]
                  /\ Reply(r, IF lots = Clamped(r.lots) THEN "done" ELSE "partial",
                           NewTicket, lots)
    <3>1. PICK lots : Reply(r, IF lots = Clamped(r.lots) THEN "done" ELSE "partial",
                            NewTicket, lots)
      BY <2>7
    <3>2. \A s \in reply' : s.ticket = NewTicket /\ s.result # "refused"
      BY <2>3, <3>1 DEF Reply
    <3>3. NewTicket \in Tickets
      BY <2>7 DEF NewTicket, Fresh
    <3>4. owner'[NewTicket] = order
      BY <2>3, <2>7, <3>3 DEF TerminalType
    <3> QED
      BY <2>5, <3>2, <3>3, <3>4 DEF AnswerInv
  <2> QED
    BY <2>4, <2>6, <2>7 DEF ExecuteOpen
<1>14. CASE StopOut
  BY <1>1, <1>14 DEF StopOut, link, loop
<1>15. CASE RestartAdvisor
  BY <1>1, <1>15 DEF RestartAdvisor, terminal, loop
<1>16. CASE UNCHANGED vars
  BY <1>1, <1>16 DEF vars, link, terminal, loop
<1> QED
  BY <1>3, <1>4, <1>5, <1>6, <1>7, <1>8, <1>9, <1>10, <1>11, <1>12, <1>13, <1>14, <1>15, <1>16
     DEF Next, Trade, CloseAll, Decides

Explained == garbled \cup short \cup unread

\* The steps after which no more is rejected than before.
LEMMA NothingRejected ==
  ASSUME RejectInv, owner' = owner, Explained \subseteq Explained',
         \A o \in Orders : verdict'[o] = "rejected" => verdict[o] = "rejected",
         \A r \in request' : r.op = "open" => r \in request /\ r.order \in Orders
  PROVE  RejectInv'
  BY DEF RejectInv, Explained

\* Rejecting the order under way takes that it has no position, or an excuse.
LEMMA OneRejected ==
  ASSUME TerminalType, LoopType, RejectInv, order \in Orders, owner' = owner, request' \subseteq request,
         \A r \in request : r.op = "open" => r.order \in Orders,
         Explained \subseteq Explained', verdict' = [verdict EXCEPT ![order] = "rejected"],
         order \in Explained' \/ (/\ NoPosition(order)
                                  /\ \A r \in request' : r.op = "open" => r.order # order)
  PROVE  RejectInv'
<1>1. \A o \in Orders : o # order => verdict'[o] = verdict[o]
  BY DEF LoopType
<1>2. ASSUME NEW t \in Tickets, owner'[t] \in Orders, verdict'[owner'[t]] = "rejected"
      PROVE  owner'[t] \in Explained'
  BY <1>1, <1>2 DEF RejectInv, Explained, NoPosition
<1>3. ASSUME NEW r \in request', r.op = "open", verdict'[r.order] = "rejected"
      PROVE  r.order \in Explained'
  BY <1>1, <1>3 DEF RejectInv, Explained
<1> QED
  BY <1>2, <1>3 DEF RejectInv, Explained

LEMMA RejectStep ==
  ASSUME LinkType, TerminalType, LoopType, AtType, LinkInv, LoopInv, OwnInv, AnswerInv,
         RejectInv, [Next]_vars
  PROVE  RejectInv'
<1> DEFINE Known == \A r \in request : r.op = "open" => r.order \in Orders
<1>0. Known
  BY DEF LoopInv
<1>1. CASE Decides
  <2>1. PICK o \in Orders, q \in Quantities : Decide(o, q)
    BY <1>1 DEF Decides
  <2>2. \A p \in Orders : verdict'[p] = "rejected" => verdict[p] = "rejected"
    BY <2>1 DEF Decide, LoopType
  <2> QED
    BY <1>0, <2>1, <2>2, NothingRejected DEF Decide, Explained, link, terminal
<1>2. CASE Ping
  <2>1. at["loop"] \in {"decided", "retry"} /\ owner' = owner /\ Explained' = Explained
    BY <1>2 DEF Ping, terminal, Explained
  <2>2. CASE CanSend
    <3>1. \A r \in request' : r.op = "open" => r \in request
      BY <1>2, <2>2 DEF Ping, Send
    <3> QED
      BY <1>0, <1>2, <2>1, <2>2, <3>1, NothingRejected DEF Ping
  <2>3. CASE ~CanSend
    <3>1. Answer("rejected") /\ request' = request
      BY <1>2, <2>3 DEF Ping, Reject, link
    <3>2. order \in Orders /\ verdict' = [verdict EXCEPT ![order] = "rejected"]
      BY <2>1, <3>1 DEF LoopInv, Answer
    <3>3. \A r \in request : r.op = "open" => r.order # order
      BY <2>1 DEF LoopInv, Unsent
    <3>4. order \in Explained \/ NoPosition(order)
      BY <2>1 DEF OwnInv, Explained
    <3> QED
      BY <1>0, <2>1, <3>1, <3>2, <3>3, <3>4, OneRejected
  <2> QED
    BY <2>2, <2>3
<1>3. CASE Open
  <2>1. at["loop"] \in {"decided", "send", "resend"} /\ owner' = owner /\ Explained' = Explained
    BY <1>3 DEF Open, terminal, Explained
  <2>2. order \in Orders /\ verdict[order] = "sending"
    BY <2>1 DEF LoopInv
  <2>3. CASE CanSend
    <3>1. \A r \in request' : r \in request \/ r.order = order
      BY <1>3, <2>3 DEF Open, Send
    <3>2. verdict' = verdict
      BY <1>3, <2>3 DEF Open
    <3>3. \A r \in request' : r.op = "open" /\ verdict'[r.order] = "rejected" => r.order \in Explained'
      BY <2>1, <2>2, <3>1, <3>2 DEF RejectInv, Explained
    <3>4. \A t \in Tickets : owner'[t] \in Orders /\ verdict'[owner'[t]] = "rejected"
            => owner'[t] \in Explained'
      BY <2>1, <3>2 DEF RejectInv, Explained
    <3> QED
      BY <3>3, <3>4 DEF RejectInv, Explained
  <2>4. CASE ~CanSend
    <3>1. Answer("rejected") /\ request' = request
      BY <1>3, <2>4 DEF Open, Reject, link
    <3>2. verdict' = [verdict EXCEPT ![order] = "rejected"]
      BY <3>1 DEF Answer
    <3>3. \A r \in request : r.op = "open" => r.order # order
      BY <2>1 DEF LoopInv, Unsent
    <3>4. order \in Explained \/ NoPosition(order)
      BY <2>1 DEF OwnInv, Explained
    <3> QED
      BY <1>0, <2>1, <2>2, <3>1, <3>2, <3>3, <3>4, OneRejected
  <2> QED
    BY <2>3, <2>4
<1>4. CASE Missed
  <2>1. /\ at["loop"] \in Reading /\ at["loop"] # "idle"
        /\ request' = request /\ owner' = owner /\ garbled' = garbled /\ short' = short
        /\ Answer("rejected")
        /\ unread' = IF at["loop"] \in {"open", "reopen"} THEN unread \cup {order} ELSE unread
    BY <1>4 DEF Missed, NoAnswer, Reject, Reading, link, terminal
  <2>2. order \in Orders /\ at["loop"] # "close" /\ verdict' = [verdict EXCEPT ![order] = "rejected"]
    BY <2>1 DEF LoopInv, Answer
  <2>3. CASE at["loop"] \in {"open", "reopen"}
    BY <1>0, <2>1, <2>2, <2>3, OneRejected DEF Explained
  <2>4. CASE at["loop"] \in {"ping", "reping"}
    <3>1. \A r \in request : r.op # "open"
      BY <2>4 DEF LoopInv
    <3>2. order \in Explained \/ NoPosition(order)
      BY <2>4 DEF OwnInv, Explained
    <3>3. Explained' = Explained
      BY <2>1, <2>4 DEF Explained
    <3> QED
      BY <1>0, <2>1, <2>2, <3>1, <3>2, <3>3, OneRejected
  <2> QED
    BY <2>1, <2>2, <2>3, <2>4 DEF Reading
<1>5. CASE ReadPing
  <2>1. PICK r \in reply :
          /\ Receive(r)
          /\ IF r.readable
             THEN /\ Goto("loop", IF at["loop"] = "reping" THEN "resend" ELSE "send")
                  /\ UNCHANGED <<account, order, asked, verdict>>
             ELSE Reject
    BY <1>5 DEF ReadPing
  <2>2. at["loop"] \in {"ping", "reping"} /\ owner' = owner /\ Explained' = Explained
    BY <1>5 DEF ReadPing, terminal, Explained
  <2>3. request' = request
    BY <2>1 DEF Receive
  <2>4. CASE r.readable
    BY <1>0, <2>1, <2>2, <2>3, <2>4, NothingRejected
  <2>5. CASE ~r.readable
    <3>1. order \in Orders /\ verdict' = [verdict EXCEPT ![order] = "rejected"]
      BY <2>1, <2>2, <2>5 DEF LoopInv, Reject, Answer
    <3>2. \A s \in request : s.op # "open"
      BY <2>2 DEF LoopInv
    <3>3. order \in Explained \/ NoPosition(order)
      BY <2>2 DEF OwnInv, Explained
    <3> QED
      BY <1>0, <2>2, <2>3, <3>1, <3>2, <3>3, OneRejected
  <2> QED
    BY <2>4, <2>5
<1>6. CASE ReadOpen
  <2>1. PICK r \in reply :
          /\ Receive(r)
          /\ \/ /\ r.readable /\ r.result = "done"
                /\ Answer("filled") /\ Booked(r.ticket)
                /\ UNCHANGED <<garbled, short>>
             \/ /\ r.readable /\ r.result # "done"
                /\ Reject
                /\ short' = IF r.result = "partial" THEN short \cup {order} ELSE short
                /\ UNCHANGED garbled
             \/ /\ ~r.readable
                /\ garbled' = garbled \cup {order}
                /\ IF Again
                   THEN Goto("loop", "retry") /\ UNCHANGED <<account, order, asked, verdict>>
                   ELSE Reject
                /\ UNCHANGED short
    BY <1>6 DEF ReadOpen
  <2>2. at["loop"] \in {"open", "reopen"} /\ owner' = owner /\ unread' = unread
    BY <1>6 DEF ReadOpen, terminal
  <2>3. request' = {} /\ request = {} /\ order \in Orders
    BY <2>1, <2>2 DEF Receive, LinkInv, LoopInv
  <2>4. Explained \subseteq Explained'
    BY <2>1, <2>2 DEF Explained
  <2>5. CASE verdict' = verdict
    BY <2>2, <2>3, <2>4, <2>5, NothingRejected
  <2>6. CASE Answer("filled")
    <3>1. \A o \in Orders : verdict'[o] = "rejected" => verdict[o] = "rejected"
      BY <2>3, <2>6 DEF Answer, LoopType
    <3> QED
      BY <2>2, <2>3, <2>4, <3>1, NothingRejected
  <2>7. CASE Reject
    <3>1. verdict' = [verdict EXCEPT ![order] = "rejected"]
      BY <2>7 DEF Reject, Answer
    <3>2. CASE r.readable /\ r.result # "done"
      <4>1. r.result \in {"partial", "refused"}
        BY <2>1, <3>2 DEF LinkType, Answers, Results
      <4>2. order \in Explained' \/ NoPosition(order)
        BY <2>1, <2>2, <2>4, <3>2, <4>1 DEF Explained, AnswerInv, OwnInv
      <4> QED
        BY <2>2, <2>3, <2>4, <3>1, <4>2, OneRejected
    <3>3. CASE ~r.readable
      BY <2>1, <2>2, <2>3, <2>4, <3>1, <3>3, OneRejected DEF Explained
    <3>4. CASE Answer("filled")
      BY <2>6, <3>4
    <3> QED
      BY <2>1, <3>2, <3>3, <3>4
  <2> QED
    BY <2>1, <2>5, <2>6, <2>7
<1>7. CASE Close
  <2>1. \A r \in request' : r.op = "open" => r \in request
    BY <1>7 DEF Close, Send, link
  <2> QED
    BY <1>0, <1>7, <2>1, NothingRejected DEF Close, terminal, loop, Explained
<1>8. CASE Kill \/ MissedClose \/ ReadClose \/ StopOut \/ RestartAdvisor
  <2>1. /\ owner' = owner /\ verdict' = verdict /\ Explained' = Explained
        /\ request' \subseteq request
    BY <1>8 DEF Kill, MissedClose, NoAnswer, ReadClose, Receive, StopOut, RestartAdvisor,
       link, terminal, loop, Explained
  <2> QED
    BY <1>0, <2>1, NothingRejected
<1>9. CASE OnTimer
  <2>1. PICK r \in request : AnswerPing(r) \/ ExecuteOpen(r) \/ ExecuteClose(r)
    BY <1>9 DEF OnTimer
  <2>2. verdict' = verdict /\ Explained' = Explained
    BY <1>9 DEF OnTimer, loop, Explained
  <2>3. request' = {}
    BY <2>1 DEF AnswerPing, ExecuteOpen, ExecuteClose, Reply, LinkInv
  <2>4. CASE owner' = owner
    BY <2>2, <2>3, <2>4, NothingRejected
  <2>5. CASE ExecuteOpen(r) /\ owner' = [owner EXCEPT ![NewTicket] = r.order] /\ Fresh # {}
    <3>1. \A t \in Tickets : owner'[t] = owner[t] \/ owner'[t] = r.order
      BY <2>5 DEF TerminalType
    <3>2. r.op = "open"
      BY <2>5 DEF ExecuteOpen
    <3>3. verdict[r.order] = "rejected" => r.order \in Explained
      BY <3>2 DEF RejectInv, Explained
    <3>4. \A t \in Tickets : owner'[t] \in Orders /\ verdict[owner'[t]] = "rejected" => owner'[t] \in Explained
      BY <3>1, <3>3 DEF RejectInv, Explained
    <3> QED
      BY <2>2, <2>3, <3>4 DEF RejectInv, Explained
  <2> QED
    BY <2>1, <2>4, <2>5 DEF AnswerPing, ExecuteOpen, ExecuteClose, terminal
<1>10. CASE UNCHANGED vars
  BY <1>0, <1>10, NothingRejected DEF vars, link, terminal, loop, Explained
<1> QED
  BY <1>1, <1>2, <1>3, <1>4, <1>5, <1>6, <1>7, <1>8, <1>9, <1>10 DEF Next, Trade, CloseAll, Decides

\* The books follow the answers: only the order that waits is booked, and the
\* owners of booked tickets never change.
LEMMA BookedStep ==
  ASSUME LinkType, TerminalType, AccountType, LoopType, AtType, LinkInv, LoopInv, AnswerInv,
         BookedOnce, [Next]_vars
  PROVE  BookedOnce'
<1>1. ASSUME book' \subseteq book, owner' = owner,
             \A o \in Orders : verdict[o] = "filled" => verdict'[o] = "filled"
      PROVE  BookedOnce'
  BY <1>1 DEF BookedOnce, TerminalType
<1>2. CASE Decides
  <2>1. PICK o \in Orders, q \in Quantities : Decide(o, q)
    BY <1>2 DEF Decides
  <2>2. \A p \in Orders : verdict[p] = "filled" => verdict'[p] = "filled"
    BY <2>1 DEF Decide, LoopType
  <2> QED
    BY <1>1, <2>1, <2>2 DEF Decide, terminal, account
<1>3. ASSUME Reject, owner' = owner, at["loop"] # "idle"
      PROVE  BookedOnce'
  <2>1. order \in Orders /\ verdict[order] = "sending" /\ book' = book
    BY <1>3 DEF Reject, LoopInv, account
  <2>2. \A p \in Orders : verdict[p] = "filled" => verdict'[p] = "filled"
    BY <1>3, <2>1 DEF Reject, Answer, LoopType
  <2> QED
    BY <1>1, <1>3, <2>1, <2>2
<1>4. CASE Ping \/ Open
  <2>1. at["loop"] # "idle" /\ owner' = owner
    BY <1>4 DEF Ping, Open, terminal
  <2> QED
    BY <1>1, <1>3, <1>4, <2>1 DEF Ping, Open, account
<1>5. CASE Missed
  BY <1>3, <1>5 DEF Missed, Reading, terminal
<1>6. CASE ReadPing
  <2>1. at["loop"] # "idle" /\ owner' = owner
    BY <1>6 DEF ReadPing, terminal
  <2>2. Reject \/ UNCHANGED <<account, order, asked, verdict>>
    BY <1>6 DEF ReadPing
  <2> QED
    BY <1>1, <1>3, <2>1, <2>2 DEF account
<1>7. CASE ReadOpen
  <2>1. at["loop"] \in {"open", "reopen"} /\ owner' = owner
    BY <1>7 DEF ReadOpen, terminal
  <2>2. CASE Reject \/ UNCHANGED <<account, order, asked, verdict>>
    BY <1>1, <1>3, <2>1, <2>2 DEF account
  <2>3. CASE \E r \in reply : r.result = "done" /\ Answer("filled") /\ Booked(r.ticket)
    <3>1. PICK r \in reply : r.result = "done" /\ Answer("filled") /\ Booked(r.ticket)
      BY <2>3
    <3>2. r.ticket \in Tickets /\ owner[r.ticket] = order
      BY <2>1, <3>1 DEF AnswerInv
    <3>3. order \in Orders /\ verdict[order] = "sending"
      BY <2>1 DEF LoopInv
    <3>4. verdict' = [verdict EXCEPT ![order] = "filled"] /\ book' = book \cup {r.ticket}
      BY <3>1 DEF Answer, Booked
    <3>5. \A p \in Orders : verdict[p] = "filled" => verdict'[p] = "filled"
      BY <3>4 DEF LoopType
    <3>6. verdict'[order] = "filled"
      BY <3>3, <3>4 DEF LoopType
    <3>7. \A t \in Tickets : t \in book => owner[t] \in Orders /\ owner[t] # order
      BY <3>3 DEF BookedOnce, TerminalType
    <3>8. order # NoOrder
      BY <3>3, LinkAssumption
    <3> QED
      BY <2>1, <3>2, <3>4, <3>5, <3>6, <3>7, <3>8 DEF BookedOnce
  <2> QED
    BY <1>7, <2>2, <2>3 DEF ReadOpen
<1>8. CASE Kill \/ Close \/ MissedClose \/ ReadClose \/ StopOut \/ RestartAdvisor
  <2>1. owner' = owner /\ verdict' = verdict
    BY <1>8 DEF Kill, Close, MissedClose, ReadClose, StopOut, RestartAdvisor, terminal, loop
  <2>2. book' \subseteq book
    BY <1>8 DEF Kill, Close, MissedClose, ReadClose, StopOut, RestartAdvisor, account
  <2> QED
    BY <1>1, <2>1, <2>2
<1>9. CASE OnTimer
  <2>1. book' = book /\ verdict' = verdict
    BY <1>9 DEF OnTimer, account, loop
  <2>2. owner' = owner \/ (Fresh # {} /\ \E o : owner' = [owner EXCEPT ![NewTicket] = o])
    BY <1>9 DEF OnTimer, AnswerPing, ExecuteOpen, ExecuteClose, terminal
  <2>3. \A t \in book : owner'[t] = owner[t]
    BY <2>2 DEF Fresh, NewTicket, BookedOnce, TerminalType, AccountType
  <2> QED
    BY <2>1, <2>3 DEF BookedOnce
<1>10. CASE UNCHANGED vars
  BY <1>1, <1>10 DEF vars, terminal, account, loop
<1> QED
  BY <1>2, <1>4, <1>5, <1>6, <1>7, <1>8, <1>9, <1>10 DEF Next, Trade, CloseAll, Decides

\* Once an answer was given up nothing is sent any more.
LEMMA WedgedStep ==
  ASSUME LinkType, LoopType, AtType, LinkInv, LoopInv, WedgedForGood, [Next]_vars
  PROVE  WedgedForGood'
<1>1. ASSUME unread' = unread, Wedged => socket' = "waiting" /\ ~Awaits("loop")' /\ ~Awaits("kill")'
      PROVE  WedgedForGood'
  BY <1>1 DEF WedgedForGood, Wedged
<1>2. CASE Decides
  <2>1. at' = [at EXCEPT !["loop"] = "decided"] /\ socket' = socket /\ unread' = unread
    BY <1>2 DEF Decides, Decide, Goto, link
  <2> QED
    BY <1>1, <2>1 DEF WedgedForGood, Awaits, AtType, Threads, Reading
<1>3. CASE Ping \/ Open
  <2>1. unread' = unread
    BY <1>3 DEF Ping, Open
  <2>2. ASSUME Wedged
        PROVE  socket' = socket /\ at' = [at EXCEPT !["loop"] = "idle"]
    BY <1>3, <2>2 DEF WedgedForGood, CanSend, Ping, Open, Reject, Answer, Goto, link
  <2> QED
    BY <1>1, <2>1, <2>2 DEF WedgedForGood, Awaits, AtType, Threads, Reading
<1>4. CASE Missed
  <2>1. socket' = socket /\ at' = [at EXCEPT !["loop"] = "idle"] /\ Awaits("loop")
    BY <1>4 DEF Missed, NoAnswer, Reject, Answer, Goto, link, Awaits
  <2>2. unread = {} /\ unread' \subseteq {order}
    BY <1>4, <2>1 DEF WedgedForGood, Wedged, Missed
  <2>3. socket = "waiting" /\ ~Awaits("kill")
    BY <2>1 DEF LinkInv, Threads
  <2>4. ~Awaits("loop")' /\ ~Awaits("kill")'
    BY <2>1, <2>3 DEF Awaits, AtType, Threads, Reading
  <2> QED
    BY <2>1, <2>2, <2>3, <2>4 DEF WedgedForGood, Wedged
<1>5. CASE ReadPing \/ ReadOpen \/ ReadClose \/ MissedClose
  <2>1. unread' = unread
    BY <1>5 DEF ReadPing, ReadOpen, ReadClose, MissedClose, loop
  <2>2. Awaits("loop") \/ Awaits("kill")
    BY <1>5 DEF ReadPing, ReadOpen, ReadClose, MissedClose, Awaits, Reading
  <2> QED
    BY <1>1, <2>1, <2>2 DEF WedgedForGood
<1>6. CASE Close
  <2>1. unread' = unread
    BY <1>6 DEF Close, loop
  <2>2. Wedged => UNCHANGED <<link, at>>
    BY <1>6 DEF Close, WedgedForGood, CanSend
  <2> QED
    BY <1>1, <2>1, <2>2 DEF WedgedForGood, Awaits, link
<1>7. CASE Kill \/ OnTimer \/ StopOut \/ RestartAdvisor \/ UNCHANGED vars
  <2>1. unread' = unread /\ at' = at
    BY <1>7 DEF Kill, OnTimer, StopOut, RestartAdvisor, vars, loop
  <2>2. socket' = socket
    BY <1>7 DEF Kill, OnTimer, AnswerPing, ExecuteOpen, ExecuteClose, Reply, StopOut,
       RestartAdvisor, vars, link
  <2> QED
    BY <1>1, <2>1, <2>2 DEF WedgedForGood, Awaits
<1> QED
  BY <1>2, <1>3, <1>4, <1>5, <1>6, <1>7 DEF Next, Trade, CloseAll, Decides

-----------------------------------------------------------------------------
(* The invariant of the specification, and what it gives.                  *)

LEMMA InitInv == Init => IInv
<1> SUFFICES ASSUME Init PROVE IInv
  OBVIOUS
<1>1. TypeOK
  BY DEF Init, TypeOK, Reading
<1>2. LinkInv /\ LoopInv
  BY DEF Init, LinkInv, LoopInv, Awaits, Reading, Threads, Unsent
<1>3. OwnInv
  BY LinkAssumption DEF Init, OwnInv, OnePosition, NoPosition, TwoPositions
<1>4. AnswerInv /\ RejectInv
  BY DEF Init, AnswerInv, RejectInv
<1>5. BookedOnce /\ WedgedForGood
  BY DEF Init, BookedOnce, WedgedForGood, Wedged
<1> QED
  BY <1>1, <1>2, <1>3, <1>4, <1>5 DEF IInv

LEMMA IInvHolds == Spec => []IInv
<1>1. ASSUME IInv, [Next]_vars PROVE IInv'
  <2>1. LinkType /\ TerminalType /\ AccountType /\ LoopType /\ CallbackType /\ AtType
    BY <1>1, TypeParts DEF IInv
  <2>2. /\ TypeOK /\ LinkInv /\ LoopInv /\ OwnInv
        /\ AnswerInv /\ RejectInv /\ BookedOnce /\ WedgedForGood
    BY <1>1 DEF IInv
  <2>3. TypeOK'
    BY <1>1, <2>2, TypeStep
  <2>4. LinkInv' /\ LoopInv'
    BY <1>1, <2>1, <2>2, LinkStep, LoopStep
  <2>5. OwnInv' /\ AnswerInv' /\ RejectInv'
    BY <1>1, <2>1, <2>2, OwnStep, AnswersStep, RejectStep
  <2>6. BookedOnce' /\ WedgedForGood'
    BY <1>1, <2>1, <2>2, BookedStep, WedgedStep
  <2> QED
    BY <2>3, <2>4, <2>5, <2>6 DEF IInv
<1> QED
  BY <1>1, InitInv, PTL DEF Spec

\* Every variable has its type: lots never become negative, a ticket that is
\* closed or booked is one the broker gave out.
THEOREM TypeOKHolds == Spec => []TypeOK
<1>1. IInv => TypeOK
  BY DEF IInv
<1> QED
  BY <1>1, IInvHolds, PTL

\* An answer is read by the thread that asked, although two threads use the
\* socket without a lock.
THEOREM AnswersMatchHolds == Spec => []AnswersMatch
<1>1. IInv => AnswersMatch
  BY DEF IInv, LinkInv, AnswersMatch, Threads
<1> QED
  BY <1>1, IInvHolds, PTL

\* However late, lost or garbled the answers are, an order has a second
\* position only after an answer that could not be read, and never a third.
THEOREM TwiceOnlyIfGarbledHolds == Spec => []TwiceOnlyIfGarbled
<1>1. IInv => TwiceOnlyIfGarbled
  <2> SUFFICES ASSUME IInv, NEW o \in Orders, NEW t \in OpenedBy(o), NEW u \in OpenedBy(o), t # u
               PROVE  o \in garbled /\ OpenedBy(o) = {t, u}
    BY DEF TwiceOnlyIfGarbled
  <2>1. t \in Tickets /\ u \in Tickets /\ owner[t] = o /\ owner[u] = o
    BY DEF OpenedBy
  <2>2. TwoPositions(o) /\ (o \notin garbled => OnePosition(o))
    BY DEF IInv, OwnInv
  <2>3. o \in garbled
    BY <2>1, <2>2 DEF OnePosition
  <2>4. \A v \in OpenedBy(o) : v \in {t, u}
    BY <2>1, <2>2 DEF OpenedBy, TwoPositions
  <2> QED
    BY <2>3, <2>4
<1> QED
  BY <1>1, IInvHolds, PTL

\* A position whose order was reported as rejected had an answer that was
\* unreadable, or told of a part, or was given up too soon.
THEOREM RejectionsExplainedHolds == Spec => []RejectionsExplained
<1>1. IInv => RejectionsExplained
  <2> SUFFICES ASSUME IInv, NEW t \in Tickets, owner[t] # NoOrder, verdict[owner[t]] = "rejected"
               PROVE  owner[t] \in garbled \cup short \cup unread
    BY DEF RejectionsExplained
  <2>1. owner[t] \in Orders
    BY DEF IInv, TypeOK
  <2> QED
    BY <2>1 DEF IInv, RejectInv
<1> QED
  BY <1>1, IInvHolds, PTL

\* The account books no order twice, and none that was not answered as filled.
THEOREM BookedOnceHolds == Spec => []BookedOnce
<1>1. IInv => BookedOnce
  BY DEF IInv
<1> QED
  BY <1>1, IInvHolds, PTL

\* One answer given up too soon silences the link for ever.
THEOREM WedgedForGoodHolds == Spec => []WedgedForGood
<1>1. IInv => WedgedForGood
  BY DEF IInv
<1> QED
  BY <1>1, IInvHolds, PTL

=============================================================================
