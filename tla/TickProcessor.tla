---------------------------- MODULE TickProcessor ----------------------------
(***************************************************************************)
(* The way of the ticks of one symbol into the database: the broker, the   *)
(* discovery thread with the queue of the streamer it feeds, and the       *)
(* TickProcessor with its receiving thread, flush timer, write queue and   *)
(* writer thread.                                                          *)
(*                                                                         *)
(* Four threads hand the ticks on.  The buffer has a lock, which a flush   *)
(* keeps while it waits for the write queue; the writer takes no lock.     *)
(* Ticks are numbered in the order they are published.  Left out: prices,  *)
(* time zones, the callback into the environment, logging and the feed's   *)
(* health, and the overflow branch of the buffer, which is never as full   *)
(* as that (TypeOK).                                                       *)
(***************************************************************************)
EXTENDS Naturals, Sequences

CONSTANTS
  Ticks,      \* how many ticks are published at most
  Stamps,     \* the times a terminal writes into them
  StreamCap,  \* bound of the streamer's queue (1000)
  BatchSize,  \* ticks that fill a batch (50; the buffer's own bound is larger)
  QueueCap,   \* bound of the write queue (1000)
  Faults      \* "wire" loses ticks, "register" fails, "insert" fails,
              \* "reader" ends the receiving thread

ASSUME TickAssumption ==
  /\ Ticks \in Nat /\ Stamps \subseteq Nat \ {0}
  /\ StreamCap \in Nat \ {0} /\ BatchSize \in Nat \ {0} /\ QueueCap \in Nat \ {0}

VARIABLES
  sent,        \* ticks published so far
  stamp,       \* the time in each of them
  wire,        \* published and not yet taken by the discovery thread
  registered,  \* whether the symbol has a streamer
  stream,      \* ZeroMQTickStreamer._tick_queue
  hand,        \* the tick the receiving thread is busy with, if any
  last,        \* _last_tick_timestamp
  buffer,      \* _tick_buffer
  batch,       \* what a thread that flushes has taken out of it
  queue,       \* _db_write_queue
  writing,     \* what the writer has still to insert of its batch
  rows,        \* ticks_forex
  fate,        \* of each tick: how it was lost, if it was
  at,          \* where each thread is
  lock,        \* _buffer_lock
  shutdown,    \* _shutdown_flag
  direct       \* history: the receiving thread has written to the database

source == <<sent, stamp, wire, registered>>
intake == <<stream, hand, last>>
store == <<queue, writing, rows>>
vars == <<source, intake, buffer, batch, store, fate, at, lock, shutdown, direct>>

Flushers == {"receiver", "timer"}
Threads == Flushers \cup {"writer"}
Losses == {"wire", "unregistered", "full", "invalid", "late", "rejected", "overrun", "failed"}
Stages == [receiver |-> {"none", "read", "process", "add", "put", "drop", "reput",
                         "finish", "direct", "done"},
           timer |-> {"armed", "put", "drop", "reput", "off"},
           writer |-> {"top", "get", "insert", "exit"}]

TypeOK ==
  /\ sent \in 0..Ticks
  /\ stamp \in [1..Ticks -> Stamps \cup {0}]
  /\ wire \in Seq(1..Ticks)
  /\ registered \in BOOLEAN
  /\ stream \in Seq(1..Ticks) /\ Len(stream) <= StreamCap
  /\ hand \in Seq(1..Ticks)
  /\ last \in Stamps \cup {0}
  /\ buffer \in Seq(1..Ticks) /\ Len(buffer) < BatchSize
  /\ batch \in [Flushers -> Seq(1..Ticks)]
  /\ queue \in Seq(Seq(1..Ticks)) /\ Len(queue) <= QueueCap
  /\ writing \in Seq(1..Ticks)
  /\ rows \in Seq(1..Ticks)
  /\ fate \in [1..Ticks -> Losses \cup {"none"}]
  /\ \A thread \in Threads : at[thread] \in Stages[thread]
  /\ \A thread \in Flushers : at[thread] = "reput" => Len(queue) < QueueCap
  /\ lock \in Flushers \cup {"free"}
  /\ shutdown \in BOOLEAN
  /\ direct \in BOOLEAN

Init ==
  /\ sent = 0 /\ stamp = [t \in 1..Ticks |-> 0]
  /\ wire = <<>> /\ registered = FALSE
  /\ stream = <<>> /\ hand = <<>> /\ last = 0
  /\ buffer = <<>> /\ batch = [f \in Flushers |-> <<>>] /\ queue = <<>> /\ writing = <<>> /\ rows = <<>>
  /\ fate = [t \in 1..Ticks |-> "none"]
  /\ at = [receiver |-> "none", timer |-> "armed", writer |-> "top"]
  /\ lock = "free" /\ shutdown = FALSE /\ direct = FALSE

Goto(thread, stage) == at' = [at EXCEPT ![thread] = stage]
Lose(t, how) == fate' = [fate EXCEPT ![t] = how]
Members(s) == {s[i] : i \in DOMAIN s}

-----------------------------------------------------------------------------
(* From the terminal to the streamer.                                      *)

\* The advisor pushes a tick and the broker publishes it, unless the socket
\* has no room.
Publish(time) ==
  /\ sent < Ticks
  /\ sent' = sent + 1
  /\ stamp' = [stamp EXCEPT ![sent + 1] = time]
  /\ \/ wire' = Append(wire, sent + 1) /\ UNCHANGED fate
     \/ "wire" \in Faults /\ Lose(sent + 1, "wire") /\ UNCHANGED wire
  /\ UNCHANGED <<registered, intake, buffer, batch, store, at, lock, shutdown, direct>>

PutTickAlways(t) == stream' = Append(stream, t) /\ UNCHANGED fate  \* mutant: no bound

\* put_tick: a full queue refuses the tick that comes.
PutTick(t) ==
  IF Len(stream) < StreamCap
  THEN stream' = Append(stream, t) /\ UNCHANGED fate
  ELSE Lose(t, "full") /\ UNCHANGED stream

Forward ==
  /\ wire # <<>> /\ registered
  /\ PutTick(Head(wire))
  /\ wire' = Tail(wire)
  /\ UNCHANGED <<sent, stamp, registered, hand, last, buffer, batch, store, at, lock,
                 shutdown, direct>>

\* The first tick of a symbol builds its streamer and starts the thread.
Register ==
  /\ wire # <<>> /\ ~registered
  /\ wire' = Tail(wire)
  /\ \/ /\ registered' = TRUE
        /\ Goto("receiver", "read")
        /\ PutTick(Head(wire))
     \/ /\ "register" \in Faults
        /\ Lose(Head(wire), "unregistered")
        /\ UNCHANGED <<registered, at, stream>>
  /\ UNCHANGED <<sent, stamp, hand, last, buffer, batch, store, lock, shutdown, direct>>

-----------------------------------------------------------------------------
(* The receiving thread.                                                   *)

Read ==
  /\ at["receiver"] = "read" /\ stream # <<>>
  /\ hand' = <<Head(stream)>>
  /\ stream' = Tail(stream)
  /\ Goto("receiver", "process")
  /\ UNCHANGED <<source, last, buffer, batch, store, fate, lock, shutdown, direct>>

Discard(how) ==
  /\ Lose(hand[1], how)
  /\ hand' = <<>>
  /\ Goto("receiver", "read")

LateOrEqual(t) == stamp[t] <= last  \* mutant: an equal time is late

\* _validate_tick_order. A time that cannot be parsed would be accepted and not
\* remembered; the terminal writes one format, which always can.
Late(t) == stamp[t] < last

\* _process_tick_info up to the buffer: prices, order, quality gate and
\* normaliser.  The time is remembered before the gate is asked.
Process ==
  /\ at["receiver"] = "process"
  /\ LET t == hand[1]
     IN  \/ Discard("invalid") /\ UNCHANGED last
         \/ Late(t) /\ Discard("late") /\ UNCHANGED last
         \/ ~Late(t) /\ last' = stamp[t] /\ Discard("rejected")
         \/ /\ ~Late(t) /\ last' = stamp[t]
            /\ Goto("receiver", "add")
            /\ UNCHANGED <<hand, fate>>
  /\ UNCHANGED <<source, stream, buffer, batch, store, lock, shutdown, direct>>

TakeBatchUnlocked(thread, ticks) ==  \* mutant: the lock is not kept
  /\ batch' = [batch EXCEPT ![thread] = ticks]
  /\ buffer' = <<>>
  /\ Goto(thread, "put") /\ UNCHANGED lock

\* A flush begins: the lock is kept until the batch is in the write queue.
TakeBatch(thread, ticks) ==
  /\ lock' = thread
  /\ batch' = [batch EXCEPT ![thread] = ticks]
  /\ buffer' = <<>>
  /\ Goto(thread, "put")

\* _add_tick_to_buffer: whether these make a batch
Full(ticks) == Len(ticks) >= BatchSize

Add ==
  /\ at["receiver"] = "add" /\ lock = "free"
  /\ hand' = <<>>
  /\ LET ticks == buffer \o hand
     IN  IF Full(ticks)
         THEN TakeBatch("receiver", ticks)
         ELSE buffer' = ticks /\ Goto("receiver", "read") /\ UNCHANGED <<batch, lock>>
  /\ UNCHANGED <<source, stream, last, store, fate, shutdown, direct>>

-----------------------------------------------------------------------------
(* A flush, by the receiving thread or by the timer.                       *)

ReleaseOnce(thread) ==  \* mutant: the timer is not started again
  /\ lock' = "free"
  /\ batch' = [batch EXCEPT ![thread] = <<>>]
  /\ Goto(thread, IF thread = "receiver" THEN "read" ELSE "off")

\* Once through, the receiver reads on and the timer starts itself again.
Release(thread) ==
  /\ lock' = "free"
  /\ batch' = [batch EXCEPT ![thread] = <<>>]
  /\ Goto(thread, IF thread = "receiver" THEN "read" ELSE IF shutdown THEN "off" ELSE "armed")

TimerFires ==
  /\ at["timer"] = "armed" /\ lock = "free"
  /\ \/ buffer # <<>> /\ TakeBatch("timer", buffer)
     \/ buffer = <<>> /\ shutdown /\ Goto("timer", "off") /\ UNCHANGED <<buffer, batch, lock>>
  /\ UNCHANGED <<source, intake, store, fate, shutdown, direct>>

PutBatch(thread) ==
  /\ at[thread] = "put"
  /\ IF Len(queue) < QueueCap
     THEN queue' = Append(queue, batch[thread]) /\ Release(thread)
     ELSE Goto(thread, "drop") /\ UNCHANGED <<queue, batch, lock>>
  /\ UNCHANGED <<source, intake, buffer, writing, rows, fate, shutdown, direct>>

DropNewest(thread) ==  \* mutant: the wrong end of the queue
  /\ at[thread] = "drop"
  /\ IF queue = <<>>
     THEN UNCHANGED <<queue, fate>>
     ELSE /\ queue' = SubSeq(queue, 1, Len(queue) - 1)
          /\ fate' = [t \in 1..Ticks |->
                        IF t \in Members(queue[Len(queue)]) THEN "overrun" ELSE fate[t]]
  /\ Goto(thread, "reput")
  /\ UNCHANGED <<source, intake, buffer, batch, writing, rows, lock, shutdown, direct>>

\* get_nowait gives up the oldest batch, if the writer has not been faster.
DropOldest(thread) ==
  /\ at[thread] = "drop"
  /\ IF queue = <<>>
     THEN UNCHANGED <<queue, fate>>
     ELSE /\ queue' = Tail(queue)
          /\ fate' = [t \in 1..Ticks |->
                        IF t \in Members(Head(queue)) THEN "overrun" ELSE fate[t]]
  /\ Goto(thread, "reput")
  /\ UNCHANGED <<source, intake, buffer, batch, writing, rows, lock, shutdown, direct>>

\* The second put: its queue.Full handlers are never reached (TypeOK).
PutAgain(thread) ==
  /\ at[thread] = "reput"
  /\ queue' = Append(queue, batch[thread])
  /\ Release(thread)
  /\ UNCHANGED <<source, intake, buffer, writing, rows, fate, shutdown, direct>>

-----------------------------------------------------------------------------
(* The writer thread.                                                      *)

Look ==
  /\ at["writer"] = "top"
  /\ Goto("writer", IF shutdown THEN "exit" ELSE "get")
  /\ UNCHANGED <<source, intake, buffer, batch, store, fate, lock, shutdown, direct>>

GetAndLeave ==  \* mutant: the batch stays in the queue
  /\ at["writer"] = "get" /\ queue # <<>>
  /\ writing' = Head(queue)
  /\ Goto("writer", "insert")
  /\ UNCHANGED <<source, intake, buffer, batch, queue, rows, fate, lock, shutdown, direct>>

\* The next batch; without one for a second, the flag is looked at again.
Get ==
  /\ at["writer"] = "get"
  /\ IF queue = <<>>
     THEN shutdown /\ Goto("writer", "top") /\ UNCHANGED <<queue, writing>>
     ELSE /\ writing' = Head(queue)
          /\ queue' = Tail(queue)
          /\ Goto("writer", "insert")
  /\ UNCHANGED <<source, intake, buffer, batch, rows, fate, lock, shutdown, direct>>

\* insert_forex_tick: the row, or an error that is logged.
InsertTick(t) ==
  \/ rows' = Append(rows, t) /\ UNCHANGED fate
  \/ "insert" \in Faults /\ Lose(t, "failed") /\ UNCHANGED rows

\* One tick of the batch after the other, each error kept to its tick. The second
\* pass over a batch, after an exception from outside of the inserts, is left out:
\* only a call that logs or prints could raise there.
Insert ==
  /\ at["writer"] = "insert"
  /\ InsertTick(Head(writing))
  /\ writing' = Tail(writing)
  /\ Goto("writer", IF Tail(writing) = <<>> THEN "top" ELSE "insert")
  /\ UNCHANGED <<source, intake, buffer, batch, queue, lock, shutdown, direct>>

-----------------------------------------------------------------------------
(* The receiving thread ends, by an exception outside of _process_tick_info. *)

\* The flag comes first; a timer that has fired already is not cancelled.
EndReceiving ==
  /\ "reader" \in Faults
  /\ at["receiver"] = "read"
  /\ shutdown' = TRUE
  /\ \E timer \in {"off", "armed"} :
       at' = [at EXCEPT !["receiver"] = "finish",
                        !["timer"] = IF @ = "armed" THEN timer ELSE @]
  /\ UNCHANGED <<source, intake, buffer, batch, store, fate, lock, direct>>

\* What is left goes to the queue, or past a full one into the database.
Finish ==
  /\ at["receiver"] = "finish" /\ lock = "free"
  /\ \/ buffer = <<>> /\ Goto("receiver", "done") /\ UNCHANGED <<buffer, batch, queue, lock, direct>>
     \/ /\ buffer # <<>> /\ Len(queue) < QueueCap
        /\ queue' = Append(queue, buffer)
        /\ buffer' = <<>>
        /\ Goto("receiver", "done")
        /\ UNCHANGED <<batch, lock, direct>>
     \/ /\ buffer # <<>> /\ Len(queue) >= QueueCap
        /\ lock' = "receiver" /\ batch' = [batch EXCEPT !["receiver"] = buffer] /\ buffer' = <<>>
        /\ direct' = TRUE
        /\ Goto("receiver", "direct")
        /\ UNCHANGED queue
  /\ UNCHANGED <<source, intake, writing, rows, fate, shutdown>>

InsertDirectly ==
  /\ at["receiver"] = "direct"
  /\ InsertTick(Head(batch["receiver"]))
  /\ batch' = [batch EXCEPT !["receiver"] = Tail(@)]
  /\ Goto("receiver", IF batch'["receiver"] = <<>> THEN "done" ELSE "direct")
  /\ lock' = IF batch'["receiver"] = <<>> THEN "free" ELSE lock
  /\ UNCHANGED <<source, intake, buffer, queue, writing, shutdown, direct>>

-----------------------------------------------------------------------------
Flush(thread) == PutBatch(thread) \/ DropOldest(thread) \/ PutAgain(thread)

Discovery == Forward \/ Register
Receiver == Read \/ Process \/ Add \/ Flush("receiver") \/ Finish \/ InsertDirectly
Timer == TimerFires \/ Flush("timer")
Writer == Look \/ Get \/ Insert

Next ==
  \/ \E time \in Stamps : Publish(time)
  \/ Discovery
  \/ Receiver
  \/ Timer
  \/ Writer
  \/ EndReceiving

Spec == Init /\ [][Next]_vars

\* The threads run, and the lock is given to a thread that keeps asking.
Fairness ==
  /\ WF_vars(Discovery) /\ WF_vars(Writer)
  /\ SF_vars(Receiver) /\ SF_vars(Timer)

FairSpec == Spec /\ Fairness

-----------------------------------------------------------------------------
\* Where the ticks are, the furthest first.
Line == <<rows, writing>> \o queue \o <<batch["receiver"], batch["timer"], buffer, hand, stream, wire>>

\* No thread overtakes another: as long as the receiving thread has not
\* written by itself, all that is under way or stored is in the order it was
\* published, and the rows in the order of their times as well.
\* (_buffer_lock is held over the whole flush.)
InOrder ==
  ~direct =>
    /\ \A i, j \in DOMAIN Line :
         /\ i < j => \A t \in Members(Line[i]), u \in Members(Line[j]) : t < u
         /\ \A k, l \in DOMAIN Line[i] : k < l => Line[i][k] < Line[i][l]
    /\ \A i, j \in DOMAIN rows : i < j => stamp[rows[i]] <= stamp[rows[j]]

\* A batch is given up only when everything before it is settled: what was
\* lost at a full write queue is older than all that still waits there.
OldestGivenUp ==
  \A t \in 1..Ticks : fate[t] = "overrun" =>
    \A u \in UNION {Members(queue[i]) : i \in DOMAIN queue} : t < u

\* A tick is refused as late only when an earlier one with a later time was
\* looked at, be it one that the quality gate refused afterwards.
LateExplained ==
  \A t \in 1..Ticks : fate[t] = "late" =>
    \E u \in 1..(t - 1) : stamp[u] > stamp[t] /\ fate[u] \notin {"wire", "unregistered", "full", "invalid", "late"}

\* At most once, and lost for good.
Feed == INSTANCE TickFeed WITH
          stored <- rows, lost <- {t \in 1..Ticks : fate[t] # "none"}
FeedSpec == Feed!Spec

\* A tick that was published is given up for a known reason, or it is somewhere
\* between the wire and the table: no thread forgets what it has in hand, and
\* what was given up comes from nowhere back.
NothingVanishes ==
  \A t \in 1..sent :
    fate[t] = "none" <=> \E i \in DOMAIN Line : t \in Members(Line[i])

\* What reached the streamer is stored or given up, also the last ticks before
\* a pause, which fill no batch, as long as the receiving thread lives.
EveryTickSettles ==
  \A t \in 1..Ticks :
    t \in Members(stream) ~> t \in Members(rows) \/ fate[t] # "none" \/ shutdown

=============================================================================
