----------------------- MODULE TickProcessor_proofs -----------------------
(***************************************************************************)
(* What holds of the tick pipeline for any number of ticks, batches and    *)
(* places in the queues, whatever faults occur: no thread overtakes        *)
(* another, and the pipeline implements TickFeed.                          *)
(*                                                                         *)
(* The argument is about sets.  Each place a tick can be in is the set of  *)
(* the ticks there (Writing, Waiting, ...); a step moves ticks from one    *)
(* set to the next, and the sets are ordered as the places are.            *)
(***************************************************************************)
EXTENDS TickProcessor, Integers, SequenceTheorems, TLAPS

-----------------------------------------------------------------------------
(* Sequences of ticks and their members.                                   *)

Below(S, T) == \A x \in S, y \in T : x < y
Ascending(s) == \A k, l \in DOMAIN s : k < l => s[k] < s[l]
Contents(q) == UNION {Members(q[i]) : i \in DOMAIN q}

LEMMA MembersIn ==
  ASSUME NEW S, NEW s \in Seq(S)
  PROVE  /\ Members(s) \subseteq S
         /\ Members(s) = {s[i] : i \in 1..Len(s)}
         /\ s = <<>> <=> Members(s) = {}
BY LenProperties, ElementOfSeq, EmptySeq DEF Members

LEMMA MembersNone == Members(<<>>) = {} /\ Ascending(<<>>)
BY DEF Members, Ascending

LEMMA MembersOne ==
  ASSUME NEW t
  PROVE  Members(<<t>>) = {t} /\ (t \in Nat => Ascending(<<t>>))
BY DEF Members, Ascending

LEMMA MembersAppend ==
  ASSUME NEW S, NEW s \in Seq(S), NEW t \in S
  PROVE  Members(Append(s, t)) = Members(s) \cup {t}
<1>1. /\ Len(s) \in Nat /\ DOMAIN s = 1..Len(s)
      /\ Append(s, t) \in Seq(S) /\ Len(Append(s, t)) = Len(s) + 1
      /\ DOMAIN Append(s, t) = 1..(Len(s) + 1)
      /\ \A i \in 1..Len(s) : Append(s, t)[i] = s[i]
      /\ Append(s, t)[Len(s) + 1] = t
  BY AppendProperties, LenProperties
<1>2. 1..(Len(s) + 1) = 1..Len(s) \cup {Len(s) + 1}
  BY <1>1
<1> QED BY <1>1, <1>2 DEF Members

LEMMA AscendingAppend ==
  ASSUME NEW S \in SUBSET Nat, NEW s \in Seq(S), NEW t \in S,
         Ascending(s), Below(Members(s), {t})
  PROVE  Ascending(Append(s, t))
<1>1. /\ Len(s) \in Nat /\ DOMAIN s = 1..Len(s)
      /\ Append(s, t) \in Seq(S) /\ Len(Append(s, t)) = Len(s) + 1
      /\ DOMAIN Append(s, t) = 1..(Len(s) + 1)
      /\ \A i \in 1..Len(s) : Append(s, t)[i] = s[i]
      /\ Append(s, t)[Len(s) + 1] = t
  BY AppendProperties, LenProperties
<1>2. \A k \in 1..Len(s) : s[k] < t
  BY <1>1 DEF Members, Below
<1> SUFFICES ASSUME NEW k \in 1..(Len(s) + 1), NEW l \in 1..(Len(s) + 1), k < l
             PROVE  Append(s, t)[k] < Append(s, t)[l]
  BY <1>1 DEF Ascending
<1>3. k \in 1..Len(s) /\ (l \in 1..Len(s) \/ l = Len(s) + 1)
  BY <1>1
<1> QED BY <1>1, <1>2, <1>3 DEF Ascending

LEMMA HeadTail ==
  ASSUME NEW S, NEW s \in Seq(S), s # <<>>
  PROVE  /\ Head(s) \in S /\ Tail(s) \in Seq(S)
         /\ Members(s) = {Head(s)} \cup Members(Tail(s))
<1>1. /\ Len(s) \in Nat \ {0} /\ DOMAIN s = 1..Len(s)
      /\ Head(s) = s[1] /\ Head(s) \in S
      /\ Tail(s) \in Seq(S) /\ Len(Tail(s)) = Len(s) - 1
      /\ DOMAIN Tail(s) = 1..(Len(s) - 1)
      /\ \A i \in 1..(Len(s) - 1) : Tail(s)[i] = s[i + 1]
  BY HeadTailProperties, LenProperties, EmptySeq
<1>2. Members(s) \subseteq {Head(s)} \cup Members(Tail(s))
  <2> SUFFICES ASSUME NEW i \in 1..Len(s), i # 1
               PROVE  s[i] \in Members(Tail(s))
    BY <1>1 DEF Members
  <2>1. i - 1 \in 1..(Len(s) - 1) /\ s[i] = Tail(s)[i - 1]
    BY <1>1
  <2> QED BY <1>1, <2>1 DEF Members
<1>3. {Head(s)} \cup Members(Tail(s)) \subseteq Members(s)
  <2>1. \A i \in 1..(Len(s) - 1) : i + 1 \in 1..Len(s)
    BY <1>1
  <2>2. 1 \in 1..Len(s)
    BY <1>1
  <2> QED BY <1>1, <2>1, <2>2 DEF Members
<1> QED BY <1>1, <1>2, <1>3

LEMMA AscendingTail ==
  ASSUME NEW S \in SUBSET Nat, NEW s \in Seq(S), s # <<>>, Ascending(s)
  PROVE  /\ Ascending(Tail(s))
         /\ Below({Head(s)}, Members(Tail(s)))
         /\ Head(s) \notin Members(Tail(s))
<1>1. /\ Len(s) \in Nat \ {0} /\ DOMAIN s = 1..Len(s)
      /\ Head(s) = s[1] /\ Head(s) \in S
      /\ DOMAIN Tail(s) = 1..(Len(s) - 1)
      /\ \A i \in 1..(Len(s) - 1) : Tail(s)[i] = s[i + 1]
  BY HeadTailProperties, LenProperties, EmptySeq
<1>2. \A i \in 1..(Len(s) - 1) : i + 1 \in 1..Len(s) /\ 1 < i + 1
  BY <1>1
<1>3. Below({Head(s)}, Members(Tail(s)))
  BY <1>1, <1>2 DEF Below, Members, Ascending
<1>4. Ascending(Tail(s))
  <2> SUFFICES ASSUME NEW k \in 1..(Len(s) - 1), NEW l \in 1..(Len(s) - 1), k < l
               PROVE  s[k + 1] < s[l + 1]
    BY <1>1 DEF Ascending
  <2> QED BY <1>1, <1>2 DEF Ascending
<1>5. ASSUME Head(s) \in Members(Tail(s))
      PROVE  FALSE
  <2>1. Head(s) < Head(s)
    BY <1>3, <1>5 DEF Below
  <2>2. Head(s) \in Nat
    BY <1>1
  <2> QED BY <2>1, <2>2
<1> QED BY <1>3, <1>4, <1>5

LEMMA ContentsAppend ==
  ASSUME NEW S, NEW q \in Seq(Seq(S)), NEW b \in Seq(S)
  PROVE  Contents(Append(q, b)) = Contents(q) \cup Members(b)
<1>1. /\ Len(q) \in Nat /\ DOMAIN q = 1..Len(q)
      /\ Append(q, b) \in Seq(Seq(S)) /\ Len(Append(q, b)) = Len(q) + 1
      /\ DOMAIN Append(q, b) = 1..(Len(q) + 1)
      /\ \A i \in 1..Len(q) : Append(q, b)[i] = q[i]
      /\ Append(q, b)[Len(q) + 1] = b
  BY AppendProperties, LenProperties
<1>2. 1..(Len(q) + 1) = 1..Len(q) \cup {Len(q) + 1}
  BY <1>1
<1> QED BY <1>1, <1>2 DEF Contents

LEMMA ContentsTail ==
  ASSUME NEW S, NEW q \in Seq(Seq(S)), q # <<>>
  PROVE  Contents(q) = Members(Head(q)) \cup Contents(Tail(q))
<1>1. /\ Len(q) \in Nat \ {0} /\ DOMAIN q = 1..Len(q)
      /\ Head(q) = q[1]
      /\ DOMAIN Tail(q) = 1..(Len(q) - 1)
      /\ \A i \in 1..(Len(q) - 1) : Tail(q)[i] = q[i + 1]
  BY HeadTailProperties, LenProperties, EmptySeq
<1>2. Contents(q) \subseteq Members(Head(q)) \cup Contents(Tail(q))
  <2> SUFFICES ASSUME NEW i \in 1..Len(q), i # 1
               PROVE  Members(q[i]) \subseteq Contents(Tail(q))
    BY <1>1 DEF Contents
  <2>1. i - 1 \in 1..(Len(q) - 1) /\ q[i] = Tail(q)[i - 1]
    BY <1>1
  <2> QED BY <1>1, <2>1 DEF Contents
<1>3. Members(Head(q)) \cup Contents(Tail(q)) \subseteq Contents(q)
  <2>1. \A i \in 1..(Len(q) - 1) : i + 1 \in 1..Len(q)
    BY <1>1
  <2>2. 1 \in 1..Len(q)
    BY <1>1
  <2> QED BY <1>1, <2>1, <2>2 DEF Contents
<1> QED BY <1>2, <1>3

LEMMA ContentsNone == Contents(<<>>) = {}
BY DEF Contents

\* A queue of batches in the order of their ticks, none of them empty.
InLine(q) ==
  /\ \A i \in DOMAIN q : q[i] # <<>> /\ Ascending(q[i])
  /\ \A i, j \in DOMAIN q : i < j => Below(Members(q[i]), Members(q[j]))

LEMMA InLineAppend ==
  ASSUME NEW S, NEW q \in Seq(Seq(S)), NEW b \in Seq(S), b # <<>>,
         InLine(q), Ascending(b), Below(Contents(q), Members(b))
  PROVE  InLine(Append(q, b))
<1>1. /\ Len(q) \in Nat /\ DOMAIN q = 1..Len(q)
      /\ Append(q, b) \in Seq(Seq(S)) /\ Len(Append(q, b)) = Len(q) + 1
      /\ DOMAIN Append(q, b) = 1..(Len(q) + 1)
      /\ \A i \in 1..Len(q) : Append(q, b)[i] = q[i]
      /\ Append(q, b)[Len(q) + 1] = b
  BY AppendProperties, LenProperties
<1>2. \A i \in 1..Len(q) : Below(Members(q[i]), Members(b))
  BY <1>1 DEF Contents, Below
<1>3. \A i \in 1..(Len(q) + 1) : i \in 1..Len(q) \/ i = Len(q) + 1
  BY <1>1
<1>4. \A i \in 1..(Len(q) + 1) : Append(q, b)[i] # <<>> /\ Ascending(Append(q, b)[i])
  BY <1>1, <1>3 DEF InLine
<1>5. ASSUME NEW i \in 1..(Len(q) + 1), NEW j \in 1..(Len(q) + 1), i < j
      PROVE  Below(Members(Append(q, b)[i]), Members(Append(q, b)[j]))
  <2>1. i \in 1..Len(q)
    BY <1>1, <1>5
  <2> QED BY <1>1, <1>2, <1>3, <1>5, <2>1 DEF InLine
<1> QED BY <1>1, <1>4, <1>5 DEF InLine

LEMMA InLineTail ==
  ASSUME NEW S, NEW q \in Seq(Seq(S)), q # <<>>, InLine(q)
  PROVE  /\ InLine(Tail(q))
         /\ Head(q) # <<>> /\ Ascending(Head(q))
         /\ Below(Members(Head(q)), Contents(Tail(q)))
<1>1. /\ Len(q) \in Nat \ {0} /\ DOMAIN q = 1..Len(q)
      /\ Head(q) = q[1]
      /\ DOMAIN Tail(q) = 1..(Len(q) - 1)
      /\ \A i \in 1..(Len(q) - 1) : Tail(q)[i] = q[i + 1]
  BY HeadTailProperties, LenProperties, EmptySeq
<1>2. 1 \in 1..Len(q) /\ \A i \in 1..(Len(q) - 1) : i + 1 \in 1..Len(q) /\ 1 < i + 1
  BY <1>1
<1>3. \A i, j \in 1..(Len(q) - 1) : i < j => i + 1 < j + 1
  BY <1>1
<1>4. \A i \in 1..(Len(q) - 1) : Below(Members(Head(q)), Members(Tail(q)[i]))
  BY <1>1, <1>2 DEF InLine
<1>5. Below(Members(Head(q)), Contents(Tail(q)))
  BY <1>1, <1>4 DEF Below, Contents
<1> QED BY <1>1, <1>2, <1>3, <1>5 DEF InLine

-----------------------------------------------------------------------------
(* Types, the lock, and what each thread has in its hands.                 *)

Holding == {"put", "drop", "reput", "direct"}

Shape ==
  /\ TypeOK
  /\ DOMAIN at = Threads
  /\ \A f \in Flushers : lock = f <=> at[f] \in Holding
  /\ \A f \in Flushers : batch[f] # <<>> <=> lock = f
  /\ Len(hand) \in {0, 1}
  /\ hand # <<>> <=> at["receiver"] \in {"process", "add"}
  /\ ~registered <=> at["receiver"] = "none"
  /\ writing # <<>> <=> at["writer"] = "insert"

LEMMA ShapeInit == Init => Shape
<1> SUFFICES ASSUME Init PROVE Shape
  OBVIOUS
<1>1. \A S : <<>> \in Seq(S) /\ Len(<<>>) = 0
  BY EmptySeq
<1>2. /\ at["receiver"] = "none" /\ at["timer"] = "armed" /\ at["writer"] = "top"
  BY DEF Init
<1>7. DOMAIN at = Threads
  BY DEF Init, Threads, Flushers
<1>3. batch \in [Flushers -> Seq(1..Ticks)] /\ \A f \in Flushers : batch[f] = <<>>
  BY <1>1 DEF Init, Flushers
<1>4. \A f \in Flushers : at[f] \notin Holding /\ at[f] # "reput"
  BY <1>2 DEF Flushers, Holding
<1>5. \A thread \in Threads : at[thread] \in Stages[thread]
  BY <1>2 DEF Threads, Flushers, Stages
<1>6. TypeOK
  <2>1. /\ wire \in Seq(1..Ticks) /\ stream \in Seq(1..Ticks) /\ hand \in Seq(1..Ticks)
        /\ buffer \in Seq(1..Ticks) /\ writing \in Seq(1..Ticks) /\ rows \in Seq(1..Ticks)
        /\ queue \in Seq(Seq(1..Ticks))
    BY <1>1 DEF Init
  <2>2. Len(stream) <= StreamCap /\ Len(buffer) < BatchSize /\ Len(queue) <= QueueCap
    BY <1>1, TickAssumption DEF Init
  <2>3. stamp \in [1..Ticks -> Stamps \cup {0}] /\ fate \in [1..Ticks -> Losses \cup {"none"}]
    BY DEF Init
  <2>4. sent \in 0..Ticks
    BY TickAssumption DEF Init
  <2> QED BY <1>3, <1>4, <1>5, <2>1, <2>2, <2>3, <2>4 DEF Init, TypeOK
<1> QED BY <1>1, <1>2, <1>3, <1>4, <1>6, <1>7 DEF Init, Shape, Flushers

LEMMA GotoAt ==
  ASSUME DOMAIN at = Threads, NEW thread \in Threads, NEW stage, Goto(thread, stage)
  PROVE  /\ DOMAIN at' = Threads /\ at'[thread] = stage
         /\ \A other \in Threads \ {thread} : at'[other] = at[other]
BY DEF Goto

\* A step that moves one thread, and leaves the types of the data right, keeps
\* the types of the places.
LEMMA LoseTyped ==
  ASSUME TypeOK, NEW t \in 1..Ticks, NEW how \in Losses, Lose(t, how)
  PROVE  /\ fate' \in [1..Ticks -> Losses \cup {"none"}]
         /\ fate'[t] = how /\ \A u \in 1..Ticks \ {t} : fate'[u] = fate[u]
BY DEF TypeOK, Lose

\* Shape in two halves: the data, and the threads with what they hold.
Data ==
  /\ sent \in 0..Ticks
  /\ stamp \in [1..Ticks -> Stamps \cup {0}]
  /\ wire \in Seq(1..Ticks) /\ registered \in BOOLEAN
  /\ stream \in Seq(1..Ticks) /\ Len(stream) <= StreamCap
  /\ hand \in Seq(1..Ticks) /\ last \in Stamps \cup {0}
  /\ buffer \in Seq(1..Ticks) /\ Len(buffer) < BatchSize
  /\ batch \in [Flushers -> Seq(1..Ticks)]
  /\ queue \in Seq(Seq(1..Ticks)) /\ Len(queue) <= QueueCap
  /\ writing \in Seq(1..Ticks) /\ rows \in Seq(1..Ticks)
  /\ fate \in [1..Ticks -> Losses \cup {"none"}]
  /\ lock \in Flushers \cup {"free"}
  /\ shutdown \in BOOLEAN /\ direct \in BOOLEAN

Places ==
  /\ DOMAIN at = Threads
  /\ \A thread \in Threads : at[thread] \in Stages[thread]
  /\ \A f \in Flushers : at[f] = "reput" => Len(queue) < QueueCap
  /\ \A f \in Flushers : lock = f <=> at[f] \in Holding
  /\ \A f \in Flushers : batch[f] # <<>> <=> lock = f
  /\ Len(hand) \in {0, 1}
  /\ hand # <<>> <=> at["receiver"] \in {"process", "add"}
  /\ ~registered <=> at["receiver"] = "none"
  /\ writing # <<>> <=> at["writer"] = "insert"

LEMMA ShapeHalves == Shape <=> Data /\ Places
BY DEF Shape, TypeOK, Data, Places

LEMMA PublishShape ==
  ASSUME Shape, NEW time \in Stamps, Publish(time)
  PROVE  Shape'
<1>1. Data /\ Places
  BY ShapeHalves
<1>2. sent + 1 \in 1..Ticks
  BY <1>1, TickAssumption DEF Publish, Data
<1>3. wire' \in Seq(1..Ticks)
  <2>1. wire \in Seq(1..Ticks) /\ wire' \in {wire, Append(wire, sent + 1)}
    BY <1>1 DEF Publish, Data
  <2>2. Append(wire, sent + 1) \in Seq(1..Ticks)
    BY <1>2, <2>1, AppendProperties
  <2> QED BY <2>1, <2>2
<1>4. fate' \in [1..Ticks -> Losses \cup {"none"}]
  BY <1>1, <1>2 DEF Publish, Data, Lose, Losses
<1>5. Data'
  BY <1>1, <1>2, <1>3, <1>4 DEF Publish, Data, intake, store
<1>6. Places'
  BY <1>1 DEF Publish, Places, intake, store
<1> QED BY <1>5, <1>6, ShapeHalves, PTL

LEMMA PutTickTyped ==
  ASSUME Data, NEW t \in 1..Ticks, PutTick(t)
  PROVE  /\ stream' \in Seq(1..Ticks) /\ Len(stream') <= StreamCap
         /\ fate' \in [1..Ticks -> Losses \cup {"none"}]
<1>1. CASE Len(stream) < StreamCap
  <2>1. stream \in Seq(1..Ticks) /\ stream' = Append(stream, t) /\ UNCHANGED fate
    BY <1>1 DEF PutTick, Data
  <2>2. /\ stream' \in Seq(1..Ticks) /\ Len(stream') = Len(stream) + 1
        /\ Len(stream) \in Nat
    BY <2>1, AppendProperties, LenProperties
  <2> QED BY <1>1, <2>1, <2>2, TickAssumption DEF Data
<1>2. CASE ~(Len(stream) < StreamCap)
  BY <1>2 DEF PutTick, Data, Lose, Losses
<1> QED BY <1>1, <1>2

LEMMA ForwardShape ==
  ASSUME Shape, Forward
  PROVE  Shape'
<1>1. Data /\ Places
  BY ShapeHalves
<1>2. Head(wire) \in 1..Ticks /\ Tail(wire) \in Seq(1..Ticks)
  BY <1>1, HeadTail DEF Forward, Data
<1>3. Data'
  BY <1>1, <1>2, PutTickTyped DEF Forward, Data, store
<1>4. Places'
  BY <1>1 DEF Forward, Places, store
<1> QED BY <1>3, <1>4, ShapeHalves, PTL

LEMMA RegisterShape ==
  ASSUME Shape, Register
  PROVE  Shape'
<1>1. Data /\ Places
  BY ShapeHalves
<1>2. Head(wire) \in 1..Ticks /\ Tail(wire) \in Seq(1..Ticks)
  BY <1>1, HeadTail DEF Register, Data
<1>3. CASE Goto("receiver", "read") /\ registered' = TRUE /\ PutTick(Head(wire))
  <2>1. Data'
    BY <1>1, <1>2, <1>3, PutTickTyped DEF Register, Data, store
  <2>2. /\ DOMAIN at' = Threads /\ at'["receiver"] = "read"
        /\ \A other \in Threads \ {"receiver"} : at'[other] = at[other]
        /\ at["receiver"] = "none"
    BY <1>1, <1>3, GotoAt DEF Places, Register, Threads, Flushers
  <2>3. Places'
    BY <1>1, <1>3, <2>2 DEF Register, Places, store, Threads, Flushers, Stages, Holding
  <2> QED BY <2>1, <2>3, ShapeHalves, PTL
<1>4. CASE Lose(Head(wire), "unregistered") /\ UNCHANGED <<registered, at, stream>>
  <2>1. Data'
    BY <1>1, <1>2, <1>4 DEF Register, Data, store, Lose, Losses
  <2>2. Places'
    BY <1>1, <1>4 DEF Register, Places, store
  <2> QED BY <2>1, <2>2, ShapeHalves, PTL
<1> QED BY <1>3, <1>4 DEF Register

LEMMA ReadShape ==
  ASSUME Shape, Read
  PROVE  Shape'
<1>1. Data /\ Places
  BY ShapeHalves
<1>2. /\ Head(stream) \in 1..Ticks /\ Tail(stream) \in Seq(1..Ticks)
      /\ Len(Tail(stream)) <= StreamCap
      /\ <<Head(stream)>> \in Seq(1..Ticks)
  <2>1. /\ stream \in Seq(1..Ticks) /\ stream # <<>>
        /\ Len(stream) <= StreamCap /\ StreamCap \in Nat
    BY <1>1, TickAssumption DEF Read, Data
  <2>2. /\ Head(stream) \in 1..Ticks /\ Tail(stream) \in Seq(1..Ticks)
        /\ Len(Tail(stream)) = Len(stream) - 1
    BY <2>1, HeadTailProperties
  <2>3. <<Head(stream)>> \in Seq(1..Ticks)
    BY <2>2
  <2> QED BY <2>1, <2>2, <2>3, LenProperties
<1>3. Data'
  BY <1>1, <1>2 DEF Read, Data, source, store
<1>4. /\ DOMAIN at' = Threads /\ at'["receiver"] = "process"
      /\ \A other \in Threads \ {"receiver"} : at'[other] = at[other]
  BY <1>1, GotoAt DEF Places, Read, Threads, Flushers
<1>5. hand' # <<>> /\ Len(hand') = 1
  BY <1>2 DEF Read
<1>6. Places'
  BY <1>1, <1>4, <1>5 DEF Read, Places, source, store, Threads, Flushers, Stages, Holding
<1> QED BY <1>3, <1>6, ShapeHalves, PTL

\* The tick the receiving thread is busy with.
LEMMA InHand ==
  ASSUME Data, Places, hand # <<>>
  PROVE  hand[1] \in 1..Ticks /\ hand = <<hand[1]>>
<1>1. hand \in Seq(1..Ticks) /\ Len(hand) = 1
  BY EmptySeq DEF Data, Places
<1>2. hand[1] \in 1..Ticks
  <2>1. 1 \in 1..Len(hand)
    BY <1>1
  <2> QED BY <1>1, <2>1, ElementOfSeq
<1>3. <<hand[1]>> \in Seq(1..Ticks) /\ Len(<<hand[1]>>) = 1 /\ <<hand[1]>>[1] = hand[1]
  BY <1>2
<1> QED BY <1>1, <1>2, <1>3, SeqEqual

LEMMA ProcessShape ==
  ASSUME Shape, Process
  PROVE  Shape'
<1>1. Data /\ Places
  BY ShapeHalves
<1>2. hand[1] \in 1..Ticks
  BY <1>1, InHand DEF Process, Places
<1>3. ASSUME NEW how \in Losses, Discard(how), last' \in Stamps \cup {0}
      PROVE  Shape'
  <2>1. Data'
    BY <1>1, <1>2, <1>3, EmptySeq DEF Process, Discard, Data, Lose, source, store
  <2>2. /\ DOMAIN at' = Threads /\ at'["receiver"] = "read"
        /\ \A other \in Threads \ {"receiver"} : at'[other] = at[other]
    BY <1>1, <1>3, GotoAt DEF Places, Discard, Threads, Flushers
  <2>3. Places'
    BY <1>1, <1>3, <2>2, EmptySeq
    DEF Process, Discard, Places, source, store, Threads, Flushers, Stages, Holding
  <2> QED BY <2>1, <2>3, ShapeHalves, PTL
<1>4. ASSUME last' = stamp[hand[1]], Goto("receiver", "add"), UNCHANGED <<hand, fate>>
      PROVE  Shape'
  <2>1. Data'
    BY <1>1, <1>2, <1>4 DEF Process, Data, source, store
  <2>2. /\ DOMAIN at' = Threads /\ at'["receiver"] = "add"
        /\ \A other \in Threads \ {"receiver"} : at'[other] = at[other]
    BY <1>1, <1>4, GotoAt DEF Places, Threads, Flushers
  <2>3. Places'
    BY <1>1, <1>4, <2>2
    DEF Process, Places, source, store, Threads, Flushers, Stages, Holding
  <2> QED BY <2>1, <2>3, ShapeHalves, PTL
<1>5. last \in Stamps \cup {0} /\ stamp[hand[1]] \in Stamps \cup {0}
      /\ {"invalid", "late", "rejected"} \subseteq Losses
  BY <1>1, <1>2 DEF Data, Losses
<1> QED BY <1>3, <1>4, <1>5 DEF Process

LEMMA AddShape ==
  ASSUME Shape, Add
  PROVE  Shape'
<1> DEFINE ticks == buffer \o hand
<1>1. Data /\ Places
  BY ShapeHalves
<1>2. ticks \in Seq(1..Ticks) /\ Len(ticks) = Len(buffer) + Len(hand)
  BY <1>1, ConcatProperties DEF Data
<1>3. hand' = <<>> /\ hand' \in Seq(1..Ticks) /\ Len(hand') = 0
  BY EmptySeq DEF Add
<1>4. CASE Full(ticks) /\ TakeBatch("receiver", ticks)
  <2>1. Len(ticks) \in Nat \ {0} /\ ticks # <<>>
    BY <1>2, <1>4, LenProperties, EmptySeq, TickAssumption DEF Full
  <2>2. /\ batch' = [batch EXCEPT !["receiver"] = ticks]
        /\ buffer' = <<>> /\ lock' = "receiver" /\ lock = "free"
    BY <1>4 DEF TakeBatch, Add
  <2>3. Data'
    BY <1>1, <1>2, <1>3, <2>2, EmptySeq, TickAssumption
    DEF Add, Data, source, store, Flushers
  <2>4. /\ DOMAIN at' = Threads /\ at'["receiver"] = "put"
        /\ \A other \in Threads \ {"receiver"} : at'[other] = at[other]
    BY <1>1, <1>4, GotoAt DEF Places, TakeBatch, Threads, Flushers
  <2>5. batch'["receiver"] = ticks /\ batch'["timer"] = batch["timer"]
    BY <1>1, <2>2 DEF Data, Flushers
  <2>6. Places'
    BY <1>1, <1>3, <2>1, <2>2, <2>4, <2>5
    DEF Add, Places, source, store, Threads, Flushers, Stages, Holding
  <2> QED BY <2>3, <2>6, ShapeHalves, PTL
<1>5. CASE ~Full(ticks) /\ buffer' = ticks /\ Goto("receiver", "read") /\ UNCHANGED <<batch, lock>>
  <2>1. Len(ticks) < BatchSize
    BY <1>2, <1>5, LenProperties, TickAssumption DEF Full
  <2>2. Data'
    BY <1>1, <1>2, <1>3, <1>5, <2>1 DEF Add, Data, source, store
  <2>3. /\ DOMAIN at' = Threads /\ at'["receiver"] = "read"
        /\ \A other \in Threads \ {"receiver"} : at'[other] = at[other]
    BY <1>1, <1>5, GotoAt DEF Places, Threads, Flushers
  <2>4. Places'
    BY <1>1, <1>3, <1>5, <2>3
    DEF Add, Places, source, store, Threads, Flushers, Stages, Holding
  <2> QED BY <2>2, <2>4, ShapeHalves, PTL
<1> QED BY <1>4, <1>5 DEF Add

LEMMA TimerFiresShape ==
  ASSUME Shape, TimerFires
  PROVE  Shape'
<1>1. Data /\ Places
  BY ShapeHalves
<1>2. CASE buffer # <<>> /\ TakeBatch("timer", buffer)
  <2>1. /\ batch' = [batch EXCEPT !["timer"] = buffer]
        /\ buffer' = <<>> /\ lock' = "timer" /\ lock = "free"
    BY <1>2 DEF TakeBatch, TimerFires
  <2>2. Data'
    BY <1>1, <2>1, EmptySeq, TickAssumption
    DEF TimerFires, Data, source, intake, store, Flushers
  <2>3. /\ DOMAIN at' = Threads /\ at'["timer"] = "put"
        /\ \A other \in Threads \ {"timer"} : at'[other] = at[other]
    BY <1>1, <1>2, GotoAt DEF Places, TakeBatch, Threads, Flushers
  <2>4. batch'["timer"] = buffer /\ batch'["receiver"] = batch["receiver"]
    BY <1>1, <2>1 DEF Data, Flushers
  <2>5. Places'
    BY <1>1, <1>2, <2>1, <2>3, <2>4
    DEF TimerFires, Places, source, intake, store, Threads, Flushers, Stages, Holding
  <2> QED BY <2>2, <2>5, ShapeHalves, PTL
<1>3. CASE Goto("timer", "off") /\ UNCHANGED <<buffer, batch, lock>>
  <2>1. Data'
    BY <1>1, <1>3 DEF TimerFires, Data, source, intake, store
  <2>2. /\ DOMAIN at' = Threads /\ at'["timer"] = "off"
        /\ \A other \in Threads \ {"timer"} : at'[other] = at[other]
    BY <1>1, <1>3, GotoAt DEF Places, Threads, Flushers
  <2>3. Places'
    BY <1>1, <1>3, <2>2
    DEF TimerFires, Places, source, intake, store, Threads, Flushers, Stages, Holding
  <2> QED BY <2>1, <2>3, ShapeHalves, PTL
<1> QED BY <1>2, <1>3 DEF TimerFires

\* A thread that flushes holds the lock, and the other one has nothing in hand.
LEMMA FlusherHolds ==
  ASSUME Shape, NEW f \in Flushers, at[f] \in Holding
  PROVE  /\ lock = f /\ batch[f] # <<>> /\ batch[f] \in Seq(1..Ticks)
         /\ \A g \in Flushers \ {f} : batch[g] = <<>> /\ at[g] \notin Holding
BY ShapeHalves DEF Places, Data, Flushers

LEMMA ReleaseShape ==
  ASSUME Shape, NEW f \in Flushers, at[f] \in {"put", "reput"}, Release(f),
         Len(queue) < QueueCap, queue' = Append(queue, batch[f]),
         UNCHANGED <<source, intake, buffer, writing, rows, fate, shutdown, direct>>
  PROVE  Shape'
<1>1. Data /\ Places
  BY ShapeHalves
<1>2. /\ lock = f /\ batch[f] # <<>> /\ batch[f] \in Seq(1..Ticks)
      /\ \A g \in Flushers \ {f} : batch[g] = <<>> /\ at[g] \notin Holding
  BY FlusherHolds DEF Holding
<1>3. queue' \in Seq(Seq(1..Ticks)) /\ Len(queue') <= QueueCap
  <2>1. queue \in Seq(Seq(1..Ticks))
    BY <1>1 DEF Data
  <2>2. queue' \in Seq(Seq(1..Ticks)) /\ Len(queue') = Len(queue) + 1 /\ Len(queue) \in Nat
    BY <1>2, <2>1, AppendProperties, LenProperties
  <2> QED BY <2>2, TickAssumption
<1>4. lock' = "free" /\ batch' = [batch EXCEPT ![f] = <<>>]
  BY DEF Release
<1>5. Data'
  BY <1>1, <1>3, <1>4, EmptySeq DEF Data, source, intake, store
<1>6. /\ DOMAIN at' = Threads /\ at'[f] \in {"read", "off", "armed"}
      /\ f = "receiver" => at'[f] = "read"
      /\ f = "timer" => at'[f] \in {"off", "armed"}
      /\ \A other \in Threads \ {f} : at'[other] = at[other]
  BY <1>1, GotoAt DEF Places, Release, Threads, Flushers
<1>7. \A g \in Flushers : batch'[g] = <<>>
  BY <1>1, <1>2, <1>4 DEF Data
<1>8. f \in {"receiver", "timer"} /\ f \notin {"free", "writer"}
  BY DEF Flushers
<1>9. hand = <<>> \/ f = "timer"
  BY <1>1, <1>8 DEF Places
<1>10. Places'
  <2>1. \A thread \in Threads : at'[thread] \in Stages[thread]
    BY <1>1, <1>6, <1>8 DEF Places, Threads, Flushers, Stages
  <2>2. \A g \in Flushers : at'[g] \notin Holding /\ at'[g] # "reput"
    BY <1>2, <1>6 DEF Threads, Holding
  <2>3. /\ hand' # <<>> <=> at'["receiver"] \in {"process", "add"}
        /\ ~registered' <=> at'["receiver"] = "none"
        /\ writing' # <<>> <=> at'["writer"] = "insert"
    BY <1>1, <1>6, <1>8, <1>9 DEF Places, intake, source, Threads, Flushers
  <2> QED BY <1>1, <1>4, <1>6, <1>7, <2>1, <2>2, <2>3 DEF Places, intake, Flushers
<1> QED BY <1>5, <1>10, ShapeHalves, PTL

LEMMA PutBatchShape ==
  ASSUME Shape, NEW f \in Flushers, PutBatch(f)
  PROVE  Shape'
<1>1. Data /\ Places
  BY ShapeHalves
<1>2. CASE Len(queue) < QueueCap /\ queue' = Append(queue, batch[f]) /\ Release(f)
  BY <1>2, ReleaseShape DEF PutBatch
<1>3. CASE Goto(f, "drop") /\ UNCHANGED <<queue, batch, lock>>
  <2>1. Data'
    BY <1>1, <1>3 DEF PutBatch, Data, source, intake
  <2>2. /\ DOMAIN at' = Threads /\ at'[f] = "drop"
        /\ \A other \in Threads \ {f} : at'[other] = at[other]
    BY <1>1, <1>3, GotoAt DEF Places, Threads
  <2>3. Places'
    BY <1>1, <1>3, <2>2
    DEF PutBatch, Places, source, intake, Threads, Flushers, Stages, Holding
  <2> QED BY <2>1, <2>3, ShapeHalves, PTL
<1> QED BY <1>2, <1>3 DEF PutBatch

LEMMA DropOldestShape ==
  ASSUME Shape, NEW f \in Flushers, DropOldest(f)
  PROVE  Shape'
<1>1. Data /\ Places
  BY ShapeHalves
<1>2. /\ queue' \in Seq(Seq(1..Ticks)) /\ Len(queue') < QueueCap
      /\ fate' \in [1..Ticks -> Losses \cup {"none"}]
  <2>1. CASE queue = <<>>
    BY <1>1, <2>1, EmptySeq, TickAssumption DEF DropOldest, Data
  <2>2. CASE queue # <<>>
    <3>1. queue \in Seq(Seq(1..Ticks)) /\ queue' = Tail(queue) /\ Len(queue) <= QueueCap
      BY <1>1, <2>2 DEF DropOldest, Data
    <3>2. queue' \in Seq(Seq(1..Ticks)) /\ Len(queue') = Len(queue) - 1 /\ Len(queue) \in Nat
      BY <2>2, <3>1, HeadTailProperties, LenProperties
    <3>3. fate' = [t \in 1..Ticks |->
                     IF t \in Members(Head(queue)) THEN "overrun" ELSE fate[t]]
      BY <2>2 DEF DropOldest
    <3>4. fate' \in [1..Ticks -> Losses \cup {"none"}]
      BY <1>1, <3>3 DEF Data, Losses
    <3> QED BY <3>1, <3>2, <3>4, TickAssumption
  <2> QED BY <2>1, <2>2
<1>3. Len(queue') <= QueueCap
  BY <1>2, LenProperties, TickAssumption
<1>4. Data'
  BY <1>1, <1>2, <1>3 DEF DropOldest, Data, source, intake
<1>5. /\ DOMAIN at' = Threads /\ at'[f] = "reput" /\ at[f] = "drop"
      /\ \A other \in Threads \ {f} : at'[other] = at[other]
  BY <1>1, GotoAt DEF Places, DropOldest, Threads
<1>6. Places'
  BY <1>1, <1>2, <1>5
  DEF DropOldest, Places, source, intake, Threads, Flushers, Stages, Holding
<1> QED BY <1>4, <1>6, ShapeHalves, PTL

LEMMA PutAgainShape ==
  ASSUME Shape, NEW f \in Flushers, PutAgain(f)
  PROVE  Shape'
<1>1. Len(queue) < QueueCap
  BY ShapeHalves DEF PutAgain, Places
<1> QED BY <1>1, ReleaseShape DEF PutAgain

LEMMA LookShape ==
  ASSUME Shape, Look
  PROVE  Shape'
<1>1. Data /\ Places
  BY ShapeHalves
<1>2. Data'
  BY <1>1 DEF Look, Data, source, intake, store
<1>3. /\ DOMAIN at' = Threads /\ at'["writer"] \in {"exit", "get"}
      /\ \A other \in Threads \ {"writer"} : at'[other] = at[other]
  BY <1>1, GotoAt DEF Places, Look, Threads
<1>4. Places'
  BY <1>1, <1>3 DEF Look, Places, source, intake, store, Threads, Flushers, Stages
<1> QED BY <1>2, <1>4, ShapeHalves, PTL

LEMMA GetShape ==
  ASSUME Shape, InLine(queue), Get
  PROVE  Shape'
<1>1. Data /\ Places
  BY ShapeHalves
<1>2. CASE queue = <<>>
  <2>1. Data'
    BY <1>1, <1>2 DEF Get, Data, source, intake
  <2>2. /\ DOMAIN at' = Threads /\ at'["writer"] = "top"
        /\ \A other \in Threads \ {"writer"} : at'[other] = at[other]
    BY <1>1, <1>2, GotoAt DEF Places, Get, Threads
  <2>3. Places'
    BY <1>1, <1>2, <2>2 DEF Get, Places, source, intake, Threads, Flushers, Stages
  <2> QED BY <2>1, <2>3, ShapeHalves, PTL
<1>3. CASE queue # <<>> /\ Head(queue) # <<>>
  <2>1. /\ writing' = Head(queue) /\ writing' \in Seq(1..Ticks)
        /\ queue' \in Seq(Seq(1..Ticks)) /\ Len(queue') = Len(queue) - 1
        /\ Len(queue) \in Nat
    <3>1. queue \in Seq(Seq(1..Ticks)) /\ queue' = Tail(queue) /\ writing' = Head(queue)
      BY <1>1, <1>3 DEF Get, Data
    <3> QED BY <1>3, <3>1, HeadTailProperties, LenProperties
  <2>2. Len(queue') <= QueueCap /\ (Len(queue) < QueueCap => Len(queue') < QueueCap)
    BY <1>1, <2>1, TickAssumption DEF Data
  <2>3. Data'
    BY <1>1, <2>1, <2>2 DEF Get, Data, source, intake
  <2>4. /\ DOMAIN at' = Threads /\ at'["writer"] = "insert"
        /\ \A other \in Threads \ {"writer"} : at'[other] = at[other]
    BY <1>1, <1>3, GotoAt DEF Places, Get, Threads
  <2>5. Places'
    BY <1>1, <1>3, <2>1, <2>2, <2>4
    DEF Get, Places, source, intake, Threads, Flushers, Stages
  <2> QED BY <2>3, <2>5, ShapeHalves, PTL
<1>4. ASSUME queue # <<>> PROVE Head(queue) # <<>>
  BY <1>1, <1>4, InLineTail DEF Data
<1> QED BY <1>2, <1>3, <1>4

\* What an insert leaves behind: a row, or the mark of an error.
LEMMA InsertTyped ==
  ASSUME Data, NEW t \in 1..Ticks, InsertTick(t)
  PROVE  /\ rows' \in Seq(1..Ticks)
         /\ fate' \in [1..Ticks -> Losses \cup {"none"}]
<1>1. CASE rows' = Append(rows, t) /\ UNCHANGED fate
  <2>1. rows \in Seq(1..Ticks)
    BY DEF Data
  <2>2. Append(rows, t) \in Seq(1..Ticks)
    BY <2>1, AppendProperties
  <2> QED BY <1>1, <2>2 DEF Data
<1>2. CASE Lose(t, "failed") /\ UNCHANGED rows
  BY <1>2 DEF Data, Lose, Losses
<1> QED BY <1>1, <1>2 DEF InsertTick

LEMMA InsertShape ==
  ASSUME Shape, Insert
  PROVE  Shape'
<1>1. Data /\ Places
  BY ShapeHalves
<1>2. Head(writing) \in 1..Ticks /\ Tail(writing) \in Seq(1..Ticks)
  <2>1. writing # <<>> /\ writing \in Seq(1..Ticks)
    BY <1>1 DEF Insert, Places, Data
  <2> QED BY <2>1, HeadTail
<1>3. Data'
  BY <1>1, <1>2, InsertTyped DEF Insert, Data, source, intake
<1>4. /\ DOMAIN at' = Threads
      /\ at'["writer"] = IF writing' = <<>> THEN "top" ELSE "insert"
      /\ \A other \in Threads \ {"writer"} : at'[other] = at[other]
  BY <1>1, GotoAt DEF Places, Insert, Threads
<1>5. Places'
  BY <1>1, <1>4 DEF Insert, Places, source, intake, Threads, Flushers, Stages
<1> QED BY <1>3, <1>5, ShapeHalves, PTL

LEMMA EndReceivingShape ==
  ASSUME Shape, EndReceiving
  PROVE  Shape'
<1>1. Data /\ Places
  BY ShapeHalves
<1>2. Data'
  BY <1>1 DEF EndReceiving, Data, source, intake, store
<1>3. /\ DOMAIN at' = Threads /\ at'["receiver"] = "finish" /\ at["receiver"] = "read"
      /\ at'["writer"] = at["writer"]
      /\ at["timer"] # "armed" => at'["timer"] = at["timer"]
      /\ at["timer"] = "armed" => at'["timer"] \in {"off", "armed"}
  BY <1>1 DEF Places, EndReceiving, Threads, Flushers
<1>4. Places'
  BY <1>1, <1>3
  DEF EndReceiving, Places, source, intake, store, Threads, Flushers, Stages, Holding
<1> QED BY <1>2, <1>4, ShapeHalves, PTL

LEMMA FinishShape ==
  ASSUME Shape, Finish
  PROVE  Shape'
<1>1. Data /\ Places
  BY ShapeHalves
<1>2. \A f \in Flushers : batch[f] = <<>> /\ at[f] \notin Holding
  BY <1>1 DEF Finish, Places, Flushers
<1>3. ASSUME Goto("receiver", "done"), UNCHANGED <<batch, lock, direct>>, buffer' \in {buffer, <<>>},
             queue' \in Seq(Seq(1..Ticks)), Len(queue') <= QueueCap
      PROVE  Shape'
  <2>0. buffer' \in Seq(1..Ticks) /\ Len(buffer') < BatchSize
    <3>1. CASE buffer' = buffer
      BY <1>1, <3>1 DEF Data
    <3>2. CASE buffer' = <<>>
      BY <3>2, EmptySeq, TickAssumption
    <3> QED BY <1>3, <3>1, <3>2
  <2>5. UNCHANGED <<source, intake, writing, rows, fate, shutdown>>
    BY DEF Finish
  <2>1. Data'
    BY <1>1, <1>3, <2>0, <2>5 DEF Data, source, intake
  <2>2. /\ DOMAIN at' = Threads /\ at'["receiver"] = "done"
        /\ \A other \in Threads \ {"receiver"} : at'[other] = at[other]
    BY <1>1, <1>3, GotoAt DEF Places, Threads, Flushers
  <2>3. \A f \in Flushers : at'[f] \notin Holding /\ at'[f] # "reput"
    BY <1>2, <2>2 DEF Flushers, Threads, Holding
  <2>4. Places'
    BY <1>1, <1>2, <1>3, <2>2, <2>3
    DEF Finish, Places, source, intake, Threads, Flushers, Stages
  <2> QED BY <2>1, <2>4, ShapeHalves, PTL
<1>4. CASE buffer = <<>> /\ Goto("receiver", "done") /\ UNCHANGED <<buffer, batch, queue, lock, direct>>
  BY <1>1, <1>3, <1>4 DEF Finish, Data
<1>5. CASE /\ Len(queue) < QueueCap
           /\ queue' = Append(queue, buffer) /\ buffer' = <<>>
           /\ Goto("receiver", "done") /\ UNCHANGED <<batch, lock, direct>>
  <2>1. queue \in Seq(Seq(1..Ticks)) /\ buffer \in Seq(1..Ticks)
    BY <1>1 DEF Data
  <2>2. queue' \in Seq(Seq(1..Ticks)) /\ Len(queue') = Len(queue) + 1 /\ Len(queue) \in Nat
    BY <1>5, <2>1, AppendProperties, LenProperties
  <2> QED BY <1>3, <1>5, <2>2, TickAssumption
<1>6. CASE /\ buffer # <<>> /\ lock' = "receiver"
           /\ batch' = [batch EXCEPT !["receiver"] = buffer] /\ buffer' = <<>>
           /\ direct' = TRUE /\ Goto("receiver", "direct") /\ UNCHANGED queue
  <2>1. Data'
    BY <1>1, <1>6, EmptySeq, TickAssumption DEF Finish, Data, source, intake, Flushers
  <2>2. /\ DOMAIN at' = Threads /\ at'["receiver"] = "direct"
        /\ \A other \in Threads \ {"receiver"} : at'[other] = at[other]
    BY <1>1, <1>6, GotoAt DEF Places, Threads, Flushers
  <2>3. batch'["receiver"] = buffer /\ batch'["timer"] = <<>>
    BY <1>1, <1>2, <1>6 DEF Data, Flushers
  <2>4. Places'
    BY <1>1, <1>2, <1>6, <2>2, <2>3
    DEF Finish, Places, source, intake, Threads, Flushers, Stages, Holding
  <2> QED BY <2>1, <2>4, ShapeHalves, PTL
<1> QED BY <1>4, <1>5, <1>6 DEF Finish

LEMMA InsertDirectlyShape ==
  ASSUME Shape, InsertDirectly
  PROVE  Shape'
<1> DEFINE rest == Tail(batch["receiver"])
<1>1. Data /\ Places
  BY ShapeHalves
<1>2. /\ lock = "receiver" /\ batch["receiver"] # <<>> /\ batch["receiver"] \in Seq(1..Ticks)
      /\ batch["timer"] = <<>> /\ at["timer"] \notin Holding
  BY FlusherHolds DEF InsertDirectly, Flushers, Holding
<1>3. Head(batch["receiver"]) \in 1..Ticks /\ rest \in Seq(1..Ticks)
  BY <1>2, HeadTail
<1>4. batch' = [batch EXCEPT !["receiver"] = rest]
  BY DEF InsertDirectly
<1>5. batch'["receiver"] = rest /\ batch'["timer"] = <<>>
  BY <1>1, <1>2, <1>4 DEF Data, Flushers
<1>6. Data'
  BY <1>1, <1>2, <1>3, <1>4, InsertTyped DEF InsertDirectly, Data, source, intake, Flushers
<1>7. /\ DOMAIN at' = Threads
      /\ at'["receiver"] = IF rest = <<>> THEN "done" ELSE "direct"
      /\ \A other \in Threads \ {"receiver"} : at'[other] = at[other]
  BY <1>1, <1>5, GotoAt DEF Places, InsertDirectly, Threads, Flushers
<1>8. lock' = IF rest = <<>> THEN "free" ELSE "receiver"
  BY <1>2, <1>5 DEF InsertDirectly
<1>9. Places'
  BY <1>1, <1>2, <1>5, <1>7, <1>8
  DEF InsertDirectly, Places, source, intake, Threads, Flushers, Stages, Holding
<1> QED BY <1>6, <1>9, ShapeHalves, PTL

LEMMA ShapeNext ==
  ASSUME Shape, InLine(queue), [Next]_vars
  PROVE  Shape'
<1>1. CASE UNCHANGED vars
  BY <1>1 DEF vars, source, intake, store, Shape, TypeOK
<1>2. CASE Get
  BY <1>2, GetShape
<1> QED
  BY <1>1, <1>2, PublishShape, ForwardShape, RegisterShape, ReadShape, ProcessShape, AddShape,
     TimerFiresShape, PutBatchShape, DropOldestShape, PutAgainShape, LookShape,
     InsertShape, EndReceivingShape, FinishShape, InsertDirectlyShape
  DEF Next, Discovery, Receiver, Timer, Writer, Flush, Flushers

-----------------------------------------------------------------------------
(* The places a tick can be in, the furthest first.                        *)

Stored == Members(rows)
Writing == Members(writing)
Waiting == Contents(queue)
Flushed == Members(batch["receiver"]) \cup Members(batch["timer"])
Buffered == Members(buffer)
Held == Members(hand)
Streamed == Members(stream)
Wired == Members(wire)
InFlight == Writing \cup Waiting \cup Flushed \cup Buffered \cup Held \cup Streamed \cup Wired

Chain(a, b, c, d, e, f, g) ==
  /\ Below(a, b) /\ Below(a, c) /\ Below(a, d) /\ Below(a, e) /\ Below(a, f) /\ Below(a, g)
  /\ Below(b, c) /\ Below(b, d) /\ Below(b, e) /\ Below(b, f) /\ Below(b, g)
  /\ Below(c, d) /\ Below(c, e) /\ Below(c, f) /\ Below(c, g)
  /\ Below(d, e) /\ Below(d, f) /\ Below(d, g)
  /\ Below(e, f) /\ Below(e, g)
  /\ Below(f, g)

\* Every place is in order, and so are the places among each other.
Order ==
  /\ Ascending(writing) /\ InLine(queue)
  /\ \A f \in Flushers : Ascending(batch[f])
  /\ Ascending(buffer) /\ Ascending(stream) /\ Ascending(wire)
  /\ Chain(Writing, Waiting, Flushed, Buffered, Held, Streamed, Wired)

\* The three kinds of steps: a tick is published, ticks are given up (or moved
\* from place to place, when L is empty), a tick becomes a row.
Enters ==
  /\ sent' = sent + 1 /\ sent + 1 \in 1..Ticks
  /\ rows' = rows
  /\ \A t \in 1..Ticks : t # sent + 1 => fate'[t] = fate[t]
  /\ \/ InFlight' = InFlight \cup {sent + 1} /\ fate'[sent + 1] = fate[sent + 1]
     \/ InFlight' = InFlight /\ fate'[sent + 1] = "wire"

Leave(L) ==
  /\ L \subseteq InFlight /\ InFlight' = InFlight \ L
  /\ \A t \in 1..Ticks : t \notin L => fate'[t] = fate[t]
  /\ UNCHANGED sent

GivenUp(L, how) == Leave(L) /\ rows' = rows /\ \A t \in L : fate'[t] = how

Stores(t) == Leave({t}) /\ rows' = Append(rows, t) /\ fate'[t] = fate[t]

LEMMA ContentsIn ==
  ASSUME NEW S, NEW q \in Seq(Seq(S))
  PROVE  Contents(q) \subseteq S
<1> SUFFICES ASSUME NEW i \in DOMAIN q
             PROVE  Members(q[i]) \subseteq S
  BY DEF Contents
<1>1. q[i] \in Seq(S)
  BY ElementOfSeq, LenProperties
<1> QED BY <1>1, MembersIn

\* The names of the ticks, kept folded so that the lemmas above apply to it.
Ids == 1..Ticks

LEMMA SeqsTyped ==
  ASSUME Shape
  PROVE  /\ wire \in Seq(Ids) /\ stream \in Seq(Ids) /\ hand \in Seq(Ids)
         /\ buffer \in Seq(Ids) /\ writing \in Seq(Ids) /\ rows \in Seq(Ids)
         /\ batch["receiver"] \in Seq(Ids) /\ batch["timer"] \in Seq(Ids)
         /\ queue \in Seq(Seq(Ids))
         /\ Ids \in SUBSET Nat
BY ShapeHalves DEF Data, Flushers, Ids

LEMMA PlacesTyped ==
  ASSUME Shape
  PROVE  Stored \subseteq Ids /\ InFlight \subseteq Ids /\ Ids \in SUBSET Nat
<1>1. /\ Stored \subseteq Ids /\ Writing \subseteq Ids /\ Buffered \subseteq Ids
      /\ Held \subseteq Ids /\ Streamed \subseteq Ids /\ Wired \subseteq Ids
      /\ Flushed \subseteq Ids
  BY SeqsTyped, MembersIn DEF Stored, Writing, Buffered, Held, Streamed, Wired, Flushed
<1>2. Waiting \subseteq Ids
  BY SeqsTyped, ContentsIn DEF Waiting
<1> QED BY <1>1, <1>2, SeqsTyped DEF InFlight

\* Places that are in order have no tick in common.
LEMMA Apart ==
  ASSUME NEW S \in SUBSET Nat, NEW T, Below(S, T)
  PROVE  S \cap T = {}
<1> SUFFICES ASSUME NEW t \in S, t \in T PROVE FALSE
  OBVIOUS
<1>1. t < t /\ t \in Nat
  BY DEF Below
<1> QED BY <1>1

\* A tick taken out of its place is nowhere else.
LEMMA OneDifferent ==
  ASSUME Shape, Order
  PROVE  /\ Writing \cap (Waiting \cup Flushed \cup Buffered \cup Held \cup Streamed \cup Wired) = {}
         /\ Waiting \cap (Flushed \cup Buffered \cup Held \cup Streamed \cup Wired) = {}
         /\ Flushed \cap (Buffered \cup Held \cup Streamed \cup Wired) = {}
         /\ Buffered \cap (Held \cup Streamed \cup Wired) = {}
         /\ Held \cap (Streamed \cup Wired) = {}
         /\ Streamed \cap Wired = {}
<1>1. /\ {Writing, Waiting, Flushed, Buffered, Held, Streamed, Wired} \subseteq SUBSET Nat
  BY PlacesTyped DEF InFlight
<1>2. Chain(Writing, Waiting, Flushed, Buffered, Held, Streamed, Wired)
  BY DEF Order
<1> HIDE DEF Writing, Waiting, Flushed, Buffered, Held, Streamed, Wired
<1> QED BY <1>1, <1>2, Apart DEF Chain

LEMMA PublishMoves ==
  ASSUME Shape, Order, InFlight \subseteq 1..sent, NEW time \in Stamps, Publish(time)
  PROVE  Order' /\ Enters
<1>1. Data /\ sent + 1 \in 1..Ticks /\ sent \in Nat /\ sent' = sent + 1
  BY ShapeHalves, TickAssumption DEF Publish, Data
<1>2. UNCHANGED <<Writing, Waiting, Flushed, Buffered, Held, Streamed, rows>>
  BY DEF Publish, intake, store, Writing, Waiting, Flushed, Buffered, Held, Streamed
<1>3. Below(Wired, {sent + 1}) /\ Below(InFlight, {sent + 1})
  BY <1>1 DEF InFlight, Below
<1>4. CASE wire' = Append(wire, sent + 1) /\ UNCHANGED fate
  <2>1. Wired' = Wired \cup {sent + 1} /\ Ascending(wire')
    <3> DEFINE t == sent + 1
    <3>1. t \in Ids /\ Below(Members(wire), {t}) /\ Ascending(wire)
      BY <1>1, <1>3 DEF Order, Wired, Ids
    <3> HIDE DEF t
    <3>2. wire \in Seq(Ids) /\ Ids \in SUBSET Nat
      BY SeqsTyped
    <3>3. Members(Append(wire, t)) = Members(wire) \cup {t}
      BY <3>1, <3>2, MembersAppend
    <3>4. Ascending(Append(wire, t))
      BY <3>1, <3>2, AscendingAppend
    <3> QED BY <1>4, <3>3, <3>4 DEF Wired, t
  <2>3. Chain(Writing', Waiting', Flushed', Buffered', Held', Streamed', Wired')
    <3>1. Chain(Writing, Waiting, Flushed, Buffered, Held, Streamed, Wired \cup {sent + 1})
      BY <1>3 DEF Order, InFlight, Chain, Below
    <3> QED BY <1>2, <2>1, <3>1
  <2>4. Order'
    BY <1>2, <2>1, <2>3 DEF Order, Publish, intake, store
  <2> QED BY <1>1, <1>2, <1>4, <2>1, <2>4 DEF Enters, InFlight
<1>5. CASE Lose(sent + 1, "wire") /\ UNCHANGED wire
  <2>1. Wired' = Wired
    BY <1>5 DEF Wired
  <2>2. fate'[sent + 1] = "wire" /\ \A t \in 1..Ticks : t # sent + 1 => fate'[t] = fate[t]
    BY <1>1, <1>5, LoseTyped DEF Losses, Shape
  <2>3. Order'
    BY <1>2, <1>5, <2>1 DEF Order, Publish, intake, store
  <2> QED BY <1>1, <1>2, <2>1, <2>2, <2>3 DEF Enters, InFlight
<1> QED BY <1>4, <1>5 DEF Publish

LEMMA Joined ==
  ASSUME NEW S \in SUBSET Nat, NEW s \in Seq(S), NEW t \in S,
         Ascending(s), Below(Members(s), {t})
  PROVE  Members(Append(s, t)) = Members(s) \cup {t} /\ Ascending(Append(s, t))
BY MembersAppend, AscendingAppend

LEMMA Parted ==
  ASSUME NEW S \in SUBSET Nat, NEW s \in Seq(S), s # <<>>, Ascending(s)
  PROVE  /\ Head(s) \in S
         /\ Members(s) = {Head(s)} \cup Members(Tail(s))
         /\ Head(s) \notin Members(Tail(s)) /\ Below({Head(s)}, Members(Tail(s)))
         /\ Ascending(Tail(s))
BY HeadTail, AscendingTail

\* The discovery thread hands the first tick on the wire to the streamer, which
\* may refuse it, or loses it when the symbol cannot be registered.
LEMMA HandOver ==
  ASSUME Shape, Order, wire # <<>>, wire' = Tail(wire),
         UNCHANGED <<sent, hand, buffer, batch, store>>,
         NEW how \in Losses,
         \/ stream' = Append(stream, Head(wire)) /\ UNCHANGED fate
         \/ Lose(Head(wire), how) /\ UNCHANGED stream
  PROVE  Order' /\ (GivenUp({}, how) \/ GivenUp({Head(wire)}, how))
<1> DEFINE h == Head(wire)
<1>1. /\ wire \in Seq(Ids) /\ stream \in Seq(Ids) /\ Ids \in SUBSET Nat
      /\ Ascending(wire) /\ Ascending(stream)
  BY SeqsTyped DEF Order
<1>2. /\ h \in Ids /\ Wired = {h} \cup Wired' /\ h \notin Wired' /\ Below({h}, Wired')
      /\ Ascending(wire')
  BY <1>1, Parted DEF Wired
<1>3. UNCHANGED <<Writing, Waiting, Flushed, Buffered, Held, rows>>
  BY DEF store, Writing, Waiting, Flushed, Buffered, Held
<1>4. /\ h \notin Writing \cup Waiting \cup Flushed \cup Buffered \cup Held \cup Streamed
      /\ h \in InFlight
  BY <1>2, OneDifferent DEF InFlight
<1>5. Chain(Writing, Waiting, Flushed, Buffered, Held, Streamed, Wired)
  BY DEF Order
<1>6. CASE stream' = Append(stream, h) /\ UNCHANGED fate
  <2>1. Below(Members(stream), {h})
    BY <1>2, <1>5 DEF Chain, Below, Streamed
  <2>2. Streamed' = Streamed \cup {h} /\ Ascending(stream')
    BY <1>1, <1>2, <1>6, <2>1, Joined DEF Streamed
  <2>3. Chain(Writing', Waiting', Flushed', Buffered', Held', Streamed', Wired')
    <3> HIDE DEF h
    <3> QED BY <1>2, <1>3, <1>5, <2>2 DEF Chain, Below
  <2>4. Order'
    BY <1>2, <1>3, <2>2, <2>3 DEF Order, store
  <2>5. InFlight' = InFlight
    BY <1>2, <1>3, <2>2 DEF InFlight
  <2> QED BY <1>6, <2>4, <2>5, <1>3 DEF GivenUp, Leave
<1>7. CASE Lose(h, how) /\ UNCHANGED stream
  <2>1. Streamed' = Streamed
    BY <1>7 DEF Streamed
  <2>2. Chain(Writing', Waiting', Flushed', Buffered', Held', Streamed', Wired')
    <3> HIDE DEF h
    <3> QED BY <1>2, <1>3, <1>5, <2>1 DEF Chain, Below
  <2>3. Order'
    BY <1>2, <1>3, <1>7, <2>2 DEF Order, store
  <2>4. InFlight' = InFlight \ {h}
    BY <1>2, <1>3, <1>4, <2>1 DEF InFlight
  <2>5. fate'[h] = how /\ \A t \in 1..Ticks : t # h => fate'[t] = fate[t]
    BY <1>2, <1>7, LoseTyped DEF Shape, Ids
  <2> QED BY <1>3, <1>4, <2>3, <2>4, <2>5 DEF GivenUp, Leave
<1> QED BY <1>6, <1>7

LEMMA ForwardMoves ==
  ASSUME Shape, Order, Forward
  PROVE  Order' /\ (GivenUp({}, "full") \/ GivenUp({Head(wire)}, "full"))
BY HandOver DEF Forward, PutTick, Losses

LEMMA RegisterMoves ==
  ASSUME Shape, Order, Register
  PROVE  /\ Order'
         /\ \E how \in {"full", "unregistered"} :
              GivenUp({}, how) \/ GivenUp({Head(wire)}, how)
BY HandOver DEF Register, PutTick, Losses

LEMMA ReadMoves ==
  ASSUME Shape, Order, Read
  PROVE  Order' /\ GivenUp({}, "full")
<1> DEFINE h == Head(stream)
<1>1. stream \in Seq(Ids) /\ Ids \in SUBSET Nat /\ Ascending(stream) /\ stream' = Tail(stream)
  BY SeqsTyped DEF Order, Read
<1>2. /\ h \in Ids /\ Streamed = {h} \cup Streamed' /\ Below({h}, Streamed')
      /\ Ascending(stream')
  BY <1>1, Parted DEF Streamed, Read
<1>3. Held = {} /\ Held' = {h}
  BY ShapeHalves, MembersNone, MembersOne DEF Places, Read, Held
<1>4. UNCHANGED <<Writing, Waiting, Flushed, Buffered, Wired, rows>>
  BY DEF Read, source, store, Writing, Waiting, Flushed, Buffered, Wired
<1>5. Chain(Writing', Waiting', Flushed', Buffered', Held', Streamed', Wired')
  <2>1. Chain(Writing, Waiting, Flushed, Buffered, Held, Streamed, Wired)
    BY DEF Order
  <2> HIDE DEF h
  <2> QED BY <1>2, <1>3, <1>4, <2>1 DEF Chain, Below
<1>6. Order'
  BY <1>2, <1>5 DEF Order, Read, source, store
<1>7. InFlight' = InFlight
  BY <1>2, <1>3, <1>4 DEF InFlight
<1> QED BY <1>6, <1>7 DEF Read, source, store, GivenUp, Leave

LEMMA ProcessMoves ==
  ASSUME Shape, Order, Process
  PROVE  /\ Order'
         /\ \/ Goto("receiver", "add") /\ hand' = hand /\ GivenUp({}, "invalid")
            \/ \E how \in {"invalid", "late", "rejected"} :
                 Discard(how) /\ hand' = <<>> /\ GivenUp({hand[1]}, how)
<1>1. hand # <<>> /\ hand[1] \in Ids /\ Held = {hand[1]}
  <2>1. Data /\ Places /\ hand # <<>>
    BY ShapeHalves DEF Process, Places
  <2> QED BY <2>1, InHand, MembersOne DEF Held, Ids
<1>2. UNCHANGED <<Writing, Waiting, Flushed, Buffered, Streamed, Wired, rows, sent>>
  BY DEF Process, source, store, Writing, Waiting, Flushed, Buffered, Streamed, Wired
<1>3. Chain(Writing, Waiting, Flushed, Buffered, Held, Streamed, Wired)
  BY DEF Order
<1>4. UNCHANGED <<writing, queue, batch, buffer, stream, wire>>
  BY DEF Process, source, store
<1>5. CASE Goto("receiver", "add") /\ UNCHANGED <<hand, fate>>
  <2>1. Held' = Held
    BY <1>5 DEF Held
  <2>2. Order'
    BY <1>2, <1>3, <1>4, <2>1 DEF Order
  <2> QED BY <1>2, <1>5, <2>1, <2>2 DEF InFlight, GivenUp, Leave
<1>6. ASSUME NEW how \in {"invalid", "late", "rejected"}, Discard(how)
      PROVE  Order' /\ hand' = <<>> /\ GivenUp({hand[1]}, how)
  <2>1. hand' = <<>> /\ Held' = {}
    BY <1>6, MembersNone DEF Discard, Held
  <2>2. Chain(Writing', Waiting', Flushed', Buffered', Held', Streamed', Wired')
    BY <1>2, <1>3, <2>1 DEF Chain, Below
  <2>3. Order'
    BY <1>4, <2>2 DEF Order
  <2>4. InFlight' = InFlight \ {hand[1]} /\ hand[1] \in InFlight
    BY <1>1, <1>2, <2>1, OneDifferent DEF InFlight
  <2>5. /\ fate'[hand[1]] = how
        /\ \A t \in 1..Ticks : t # hand[1] => fate'[t] = fate[t]
    BY <1>1, <1>6, LoseTyped DEF Discard, Shape, Ids, Losses
  <2> QED BY <1>2, <2>1, <2>3, <2>4, <2>5 DEF GivenUp, Leave
<1> QED BY <1>5, <1>6 DEF Process

\* A thread that finds the lock free is the only one with a batch.
LEMMA NoBatches ==
  ASSUME Shape, lock = "free"
  PROVE  \A f \in Flushers : batch[f] = <<>>
BY ShapeHalves DEF Places, Flushers

\* A flush takes the buffer, with the tick in hand or without it.
LEMMA TakeMoves ==
  ASSUME Shape, lock = "free", NEW f \in Flushers, NEW ticks, TakeBatch(f, ticks)
  PROVE  /\ Flushed = {} /\ Flushed' = Members(ticks)
         /\ buffer' = <<>> /\ Buffered' = {}
         /\ Ascending(ticks) => \A g \in Flushers : Ascending(batch'[g])
<1>1. /\ batch[f] = <<>> /\ \A g \in Flushers \ {f} : batch[g] = <<>>
      /\ batch' = [batch EXCEPT ![f] = ticks] /\ buffer' = <<>>
      /\ DOMAIN batch = Flushers
  BY NoBatches, ShapeHalves DEF TakeBatch, Data
<1>2. batch'[f] = ticks /\ \A g \in Flushers \ {f} : batch'[g] = <<>>
  BY <1>1
<1>3. f \in {"receiver", "timer"}
  BY DEF Flushers
<1> QED BY <1>1, <1>2, <1>3, MembersNone DEF Flushed, Buffered, Flushers

LEMMA AddMoves ==
  ASSUME Shape, Order, Add
  PROVE  Order' /\ GivenUp({}, "full")
<1> DEFINE t == hand[1]
           ticks == buffer \o hand
<1>1. t \in Ids /\ hand = <<t>> /\ Held = {t}
  <2>1. Data /\ Places /\ hand # <<>>
    BY ShapeHalves DEF Add, Places
  <2> QED BY <2>1, InHand, MembersOne DEF Held, Ids
<1>2. buffer \in Seq(Ids) /\ Ids \in SUBSET Nat /\ Ascending(buffer)
  BY SeqsTyped DEF Order
<1>3. Chain(Writing, Waiting, Flushed, Buffered, Held, Streamed, Wired)
  BY DEF Order
<1>4. Members(ticks) = Buffered \cup {t} /\ Ascending(ticks)
  <2>1. ticks = Append(buffer, t)
    BY <1>1, <1>2, AppendIsConcat
  <2>2. Below(Members(buffer), {t})
    BY <1>1, <1>3 DEF Chain, Buffered
  <2> QED BY <1>1, <1>2, <2>1, <2>2, Joined DEF Buffered
<1>5. UNCHANGED <<Writing, Waiting, Streamed, Wired, rows, fate, sent>>
  BY DEF Add, source, store, Writing, Waiting, Streamed, Wired
<1>6. Held' = {}
  BY MembersNone DEF Add, Held
<1>7. CASE TakeBatch("receiver", ticks)
  <2>1. /\ Flushed = {} /\ Flushed' = Members(ticks) /\ buffer' = <<>> /\ Buffered' = {}
        /\ \A g \in Flushers : Ascending(batch'[g])
    BY <1>4, <1>7, TakeMoves DEF Add, Flushers
  <2>2. Chain(Writing', Waiting', Flushed', Buffered', Held', Streamed', Wired')
    <3> HIDE DEF t, ticks
    <3> QED BY <1>1, <1>3, <1>4, <1>5, <1>6, <2>1 DEF Chain, Below
  <2>3. Order'
    BY <2>1, <2>2, MembersNone DEF Order, Add, source, store
  <2>4. InFlight' = InFlight
    BY <1>1, <1>4, <1>5, <1>6, <2>1 DEF InFlight
  <2> QED BY <1>5, <2>3, <2>4 DEF GivenUp, Leave
<1>8. CASE buffer' = ticks /\ Goto("receiver", "read") /\ UNCHANGED <<batch, lock>>
  <2>1. Buffered' = Members(ticks) /\ Flushed' = Flushed
    BY <1>8 DEF Buffered, Flushed
  <2>2. Chain(Writing', Waiting', Flushed', Buffered', Held', Streamed', Wired')
    <3> HIDE DEF t, ticks
    <3> QED BY <1>1, <1>3, <1>4, <1>5, <1>6, <2>1 DEF Chain, Below
  <2>3. Order'
    BY <1>4, <1>8, <2>2 DEF Order, Add, source, store
  <2>4. InFlight' = InFlight
    BY <1>1, <1>4, <1>5, <1>6, <2>1 DEF InFlight
  <2> QED BY <1>5, <2>3, <2>4 DEF GivenUp, Leave
<1> QED BY <1>7, <1>8 DEF Add

LEMMA TimerFiresMoves ==
  ASSUME Shape, Order, TimerFires
  PROVE  Order' /\ GivenUp({}, "full")
<1>1. Chain(Writing, Waiting, Flushed, Buffered, Held, Streamed, Wired)
  BY DEF Order
<1>2. UNCHANGED <<Writing, Waiting, Held, Streamed, Wired, rows, fate, sent>>
  BY DEF TimerFires, source, intake, store, Writing, Waiting, Held, Streamed, Wired
<1>3. CASE TakeBatch("timer", buffer)
  <2>1. /\ Flushed = {} /\ Flushed' = Buffered /\ buffer' = <<>> /\ Buffered' = {}
        /\ \A g \in Flushers : Ascending(batch'[g])
    BY <1>3, TakeMoves DEF TimerFires, Flushers, Order, Buffered
  <2>2. Chain(Writing', Waiting', Flushed', Buffered', Held', Streamed', Wired')
    BY <1>1, <1>2, <2>1 DEF Chain, Below
  <2>3. Order'
    BY <2>1, <2>2, MembersNone DEF Order, TimerFires, source, intake, store
  <2>4. InFlight' = InFlight
    BY <1>2, <2>1 DEF InFlight
  <2> QED BY <1>2, <2>3, <2>4 DEF GivenUp, Leave
<1>4. CASE UNCHANGED <<buffer, batch, lock>>
  <2>1. UNCHANGED <<Buffered, Flushed>>
    BY <1>4 DEF Buffered, Flushed
  <2>2. Order'
    BY <1>1, <1>2, <1>4, <2>1 DEF Order, TimerFires, source, intake, store
  <2> QED BY <1>2, <2>1, <2>2 DEF InFlight, GivenUp, Leave
<1> QED BY <1>3, <1>4 DEF TimerFires

\* A batch goes to the end of the write queue, with the lock or at the end.
LEMMA QueueMoves ==
  ASSUME Shape, Order, NEW b, b \in Seq(Ids), b # <<>>, Ascending(b),
         Below(Waiting, Members(b)), queue' = Append(queue, b)
  PROVE  Waiting' = Waiting \cup Members(b) /\ InLine(queue')
<1>1. queue \in Seq(Seq(Ids)) /\ InLine(queue) /\ Below(Contents(queue), Members(b))
  BY SeqsTyped DEF Order, Waiting
<1> QED BY <1>1, ContentsAppend, InLineAppend DEF Waiting

LEMMA ReleaseMoves ==
  ASSUME Shape, Order, NEW f \in Flushers, at[f] \in Holding, Release(f),
         queue' = Append(queue, batch[f]),
         UNCHANGED <<source, intake, buffer, writing, rows, fate>>
  PROVE  Order' /\ GivenUp({}, "full")
<1>1. /\ batch[f] # <<>> /\ batch[f] \in Seq(Ids)
      /\ \A g \in Flushers \ {f} : batch[g] = <<>>
      /\ batch' = [batch EXCEPT ![f] = <<>>] /\ DOMAIN batch = Flushers
  BY FlusherHolds, ShapeHalves DEF Release, Data, Ids
<1>2. Flushed = Members(batch[f])
  BY <1>1, MembersNone DEF Flushed, Flushers
<1>3. (\A g \in Flushers : batch'[g] = <<>>) /\ Flushed' = {}
  BY <1>1, MembersNone DEF Flushed, Flushers
<1>4. Chain(Writing, Waiting, Flushed, Buffered, Held, Streamed, Wired)
  BY DEF Order
<1>5. Waiting' = Waiting \cup Flushed /\ InLine(queue')
  <2>1. Ascending(batch[f]) /\ Below(Waiting, Members(batch[f]))
    BY <1>2, <1>4 DEF Order, Chain
  <2> QED BY <1>1, <1>2, <2>1, QueueMoves
<1>6. UNCHANGED <<Writing, Buffered, Held, Streamed, Wired, sent>>
  BY DEF source, intake, Writing, Buffered, Held, Streamed, Wired
<1>7. Chain(Writing', Waiting', Flushed', Buffered', Held', Streamed', Wired')
  BY <1>3, <1>4, <1>5, <1>6 DEF Chain, Below
<1>8. Order'
  BY <1>3, <1>5, <1>7, MembersNone DEF Order, source, intake
<1>9. InFlight' = InFlight
  BY <1>3, <1>5, <1>6 DEF InFlight
<1> QED BY <1>6, <1>8, <1>9 DEF GivenUp, Leave

\* A step that only moves threads, or changes flags.
LEMMA NothingMoves ==
  ASSUME Order, UNCHANGED <<sent, wire, stream, hand, buffer, batch, store, fate>>
  PROVE  Order' /\ GivenUp({}, "full")
<1>1. UNCHANGED <<Writing, Waiting, Flushed, Buffered, Held, Streamed, Wired>>
  BY DEF store, Writing, Waiting, Flushed, Buffered, Held, Streamed, Wired
<1> QED BY <1>1 DEF Order, store, InFlight, GivenUp, Leave

LEMMA PutBatchMoves ==
  ASSUME Shape, Order, NEW f \in Flushers, PutBatch(f)
  PROVE  Order' /\ GivenUp({}, "full")
<1>1. at[f] \in Holding
  BY DEF PutBatch, Holding
<1>2. CASE queue' = Append(queue, batch[f]) /\ Release(f)
  BY <1>1, <1>2, ReleaseMoves DEF PutBatch
<1>3. CASE UNCHANGED <<queue, batch, lock>>
  BY <1>3, NothingMoves DEF PutBatch, source, intake, store
<1> QED BY <1>2, <1>3 DEF PutBatch

LEMMA PutAgainMoves ==
  ASSUME Shape, Order, NEW f \in Flushers, PutAgain(f)
  PROVE  Order' /\ GivenUp({}, "full")
BY ReleaseMoves DEF PutAgain, Holding

\* The oldest batch leaves the write queue.
LEMMA FirstOut ==
  ASSUME Shape, Order, queue # <<>>, queue' = Tail(queue)
  PROVE  /\ Head(queue) \in Seq(Ids) /\ Head(queue) # <<>> /\ Ascending(Head(queue))
         /\ Waiting = Members(Head(queue)) \cup Waiting'
         /\ Below(Members(Head(queue)), Waiting')
         /\ Members(Head(queue)) \cap Waiting' = {}
         /\ InLine(queue')
<1>1. queue \in Seq(Seq(Ids)) /\ InLine(queue) /\ Ids \in SUBSET Nat
  BY SeqsTyped DEF Order
<1>2. /\ Head(queue) \in Seq(Ids) /\ Head(queue) # <<>> /\ Ascending(Head(queue))
      /\ Waiting = Members(Head(queue)) \cup Waiting'
      /\ Below(Members(Head(queue)), Waiting') /\ InLine(queue')
  BY <1>1, HeadTailProperties, ContentsTail, InLineTail DEF Waiting
<1>3. Members(Head(queue)) \in SUBSET Nat
  BY <1>1, <1>2, MembersIn
<1> QED BY <1>2, <1>3, Apart

LEMMA DropOldestMoves ==
  ASSUME Shape, Order, NEW f \in Flushers, DropOldest(f)
  PROVE  /\ Order'
         /\ \/ GivenUp({}, "full")
            \/ queue # <<>> /\ queue' = Tail(queue) /\ GivenUp(Members(Head(queue)), "overrun")
<1>1. CASE queue = <<>>
  BY <1>1, NothingMoves DEF DropOldest, source, intake, store
<1>2. CASE queue # <<>>
  <2> DEFINE L == Members(Head(queue))
  <2>1. /\ queue' = Tail(queue)
        /\ fate' = [t \in 1..Ticks |-> IF t \in L THEN "overrun" ELSE fate[t]]
    BY <1>2 DEF DropOldest
  <2>2. /\ Waiting = L \cup Waiting' /\ Below(L, Waiting') /\ L \cap Waiting' = {}
        /\ InLine(queue') /\ L \subseteq Ids
    BY <1>2, <2>1, FirstOut, SeqsTyped, MembersIn
  <2>3. UNCHANGED <<Writing, Flushed, Buffered, Held, Streamed, Wired, rows, sent>>
    BY DEF DropOldest, source, intake, Writing, Flushed, Buffered, Held, Streamed, Wired
  <2>4. Chain(Writing, Waiting, Flushed, Buffered, Held, Streamed, Wired)
    BY DEF Order
  <2>5. Chain(Writing', Waiting', Flushed', Buffered', Held', Streamed', Wired')
    <3> HIDE DEF L
    <3> QED BY <2>2, <2>3, <2>4 DEF Chain, Below
  <2>6. Order'
    BY <2>2, <2>5 DEF Order, DropOldest, source, intake
  <2>7. /\ L \cap (Writing \cup Flushed \cup Buffered \cup Held \cup Streamed \cup Wired) = {}
        /\ L \subseteq InFlight
    <3> HIDE DEF L
    <3> QED BY <2>2, OneDifferent DEF InFlight
  <2>8. InFlight' = InFlight \ L
    <3> HIDE DEF L
    <3> QED BY <2>2, <2>3, <2>7 DEF InFlight
  <2>9. (\A t \in L : fate'[t] = "overrun") /\ \A t \in 1..Ticks : t \notin L => fate'[t] = fate[t]
    BY <2>1, <2>2 DEF Ids
  <2> QED BY <1>2, <2>1, <2>3, <2>6, <2>7, <2>8, <2>9 DEF GivenUp, Leave
<1> QED BY <1>1, <1>2

LEMMA LookMoves ==
  ASSUME Shape, Order, Look
  PROVE  Order' /\ GivenUp({}, "full")
BY NothingMoves DEF Look, source, intake, store

LEMMA EndReceivingMoves ==
  ASSUME Shape, Order, EndReceiving
  PROVE  Order' /\ GivenUp({}, "full")
BY NothingMoves DEF EndReceiving, source, intake, store

LEMMA GetMoves ==
  ASSUME Shape, Order, Get
  PROVE  Order' /\ GivenUp({}, "full")
<1>1. CASE queue = <<>>
  BY <1>1, NothingMoves DEF Get, source, intake, store
<1>2. CASE queue # <<>>
  <2> DEFINE L == Members(Head(queue))
  <2>1. queue' = Tail(queue) /\ writing' = Head(queue)
    BY <1>2 DEF Get
  <2>2. /\ Waiting = L \cup Waiting' /\ Below(L, Waiting')
        /\ InLine(queue') /\ Ascending(writing') /\ Writing' = L
    BY <1>2, <2>1, FirstOut DEF Writing
  <2>3. Writing = {}
    <3>1. writing = <<>>
      BY ShapeHalves DEF Get, Places
    <3> QED BY <3>1, MembersNone DEF Writing
  <2>4. UNCHANGED <<Flushed, Buffered, Held, Streamed, Wired, rows, sent, fate>>
    BY DEF Get, source, intake, Flushed, Buffered, Held, Streamed, Wired
  <2>5. Chain(Writing', Waiting', Flushed', Buffered', Held', Streamed', Wired')
    <3>1. Chain(Writing, Waiting, Flushed, Buffered, Held, Streamed, Wired)
      BY DEF Order
    <3> HIDE DEF L
    <3> QED BY <2>2, <2>4, <3>1 DEF Chain, Below
  <2>6. Order'
    BY <2>2, <2>5 DEF Order, Get, source, intake
  <2>7. InFlight' = InFlight
    <3> HIDE DEF L
    <3> QED BY <2>2, <2>3, <2>4 DEF InFlight
  <2> QED BY <2>4, <2>6, <2>7 DEF GivenUp, Leave
<1> QED BY <1>1, <1>2

\* An insert settles the tick it is given.
LEMMA InsertSettles ==
  ASSUME Shape, NEW t \in Ids, InsertTick(t), UNCHANGED sent,
         t \in InFlight, InFlight' = InFlight \ {t}
  PROVE  Stores(t) \/ GivenUp({t}, "failed")
<1>1. CASE rows' = Append(rows, t) /\ UNCHANGED fate
  BY <1>1 DEF Stores, Leave
<1>2. CASE Lose(t, "failed") /\ UNCHANGED rows
  <2>1. fate'[t] = "failed" /\ \A u \in 1..Ticks : u # t => fate'[u] = fate[u]
    BY <1>2, LoseTyped DEF Shape, Ids, Losses
  <2> QED BY <1>2, <2>1 DEF GivenUp, Leave
<1> QED BY <1>1, <1>2 DEF InsertTick

LEMMA InsertMoves ==
  ASSUME Shape, Order, Insert
  PROVE  /\ Order'
         /\ writing # <<>> /\ Writing = {Head(writing)} \cup Writing'
         /\ Below({Head(writing)}, InFlight')
         /\ Stores(Head(writing)) \/ GivenUp({Head(writing)}, "failed")
<1> DEFINE h == Head(writing)
<1>1. writing \in Seq(Ids) /\ writing # <<>> /\ Ascending(writing) /\ Ids \in SUBSET Nat
  BY ShapeHalves, SeqsTyped DEF Order, Insert, Places
<1>2. /\ h \in Ids /\ Writing = {h} \cup Writing' /\ h \notin Writing'
      /\ Below({h}, Writing') /\ Ascending(writing')
  BY <1>1, Parted DEF Writing, Insert
<1>3. UNCHANGED <<Waiting, Flushed, Buffered, Held, Streamed, Wired, sent>>
  BY DEF Insert, source, intake, Waiting, Flushed, Buffered, Held, Streamed, Wired
<1>4. Chain(Writing, Waiting, Flushed, Buffered, Held, Streamed, Wired)
  BY DEF Order
<1>5. /\ Chain(Writing', Waiting', Flushed', Buffered', Held', Streamed', Wired')
      /\ Below({h}, InFlight')
  <2> HIDE DEF h
  <2> QED BY <1>2, <1>3, <1>4 DEF Chain, Below, InFlight
<1>6. Order'
  BY <1>2, <1>5 DEF Order, Insert, source, intake
<1>7. InFlight' = InFlight \ {h} /\ h \in InFlight
  <2> HIDE DEF h
  <2> QED BY <1>2, <1>3, OneDifferent DEF InFlight
<1>8. InsertTick(h)
  BY DEF Insert
<1> QED BY <1>1, <1>2, <1>3, <1>5, <1>6, <1>7, <1>8, InsertSettles

LEMMA InsertDirectlyMoves ==
  ASSUME Shape, Order, InsertDirectly
  PROVE  /\ Order'
         /\ Stores(Head(batch["receiver"])) \/ GivenUp({Head(batch["receiver"])}, "failed")
<1> DEFINE b == batch["receiver"]
           h == Head(b)
<1>1. b # <<>> /\ batch["timer"] = <<>> /\ DOMAIN batch = Flushers
  BY FlusherHolds, ShapeHalves DEF InsertDirectly, Flushers, Holding, Data
<1>2. b \in Seq(Ids) /\ Ascending(b) /\ Ids \in SUBSET Nat
  BY SeqsTyped DEF Order, Flushers
<1>3. /\ h \in Ids /\ Members(b) = {h} \cup Members(Tail(b)) /\ h \notin Members(Tail(b))
      /\ Below({h}, Members(Tail(b))) /\ Ascending(Tail(b))
  BY <1>1, <1>2, Parted
<1>4. batch'["receiver"] = Tail(b) /\ batch'["timer"] = <<>>
  BY <1>1 DEF InsertDirectly, Flushers
<1>5. Flushed = {h} \cup Flushed' /\ h \notin Flushed'
  BY <1>1, <1>3, <1>4, MembersNone DEF Flushed
<1>6. \A f \in Flushers : Ascending(batch'[f])
  BY <1>3, <1>4, MembersNone DEF Flushers
<1>7. UNCHANGED <<Writing, Waiting, Buffered, Held, Streamed, Wired, sent>>
  BY DEF InsertDirectly, source, intake, Writing, Waiting, Buffered, Held, Streamed, Wired
<1>8. Chain(Writing', Waiting', Flushed', Buffered', Held', Streamed', Wired')
  <2>1. Chain(Writing, Waiting, Flushed, Buffered, Held, Streamed, Wired)
    BY DEF Order
  <2> HIDE DEF h, b
  <2> QED BY <1>5, <1>7, <2>1 DEF Chain, Below
<1>9. Order'
  BY <1>6, <1>8 DEF Order, InsertDirectly, source, intake
<1>10. InFlight' = InFlight \ {h} /\ h \in InFlight
  <2> HIDE DEF h, b
  <2> QED BY <1>5, <1>7, OneDifferent DEF InFlight
<1>11. InsertTick(h)
  BY DEF InsertDirectly
<1> QED BY <1>3, <1>7, <1>9, <1>10, <1>11, InsertSettles

LEMMA FinishMoves ==
  ASSUME Shape, Order, Finish
  PROVE  Order' /\ GivenUp({}, "full")
<1>1. /\ \A f \in Flushers : batch[f] = <<>>
      /\ buffer \in Seq(Ids) /\ Ascending(buffer) /\ DOMAIN batch = Flushers
  BY NoBatches, SeqsTyped, ShapeHalves DEF Finish, Order, Data
<1>2. Flushed = {}
  BY <1>1, MembersNone DEF Flushed, Flushers
<1>3. UNCHANGED <<Writing, Held, Streamed, Wired, rows, sent, fate>>
  BY DEF Finish, source, intake, Writing, Held, Streamed, Wired
<1>4. Chain(Writing, Waiting, Flushed, Buffered, Held, Streamed, Wired)
  BY DEF Order
<1>5. CASE UNCHANGED <<buffer, batch, queue>>
  BY <1>5, NothingMoves DEF Finish, source, intake, store
<1>6. CASE buffer # <<>> /\ queue' = Append(queue, buffer) /\ buffer' = <<>> /\ UNCHANGED batch
  <2>1. Waiting' = Waiting \cup Buffered /\ InLine(queue')
    BY <1>1, <1>4, <1>6, QueueMoves DEF Chain, Buffered
  <2>2. Buffered' = {} /\ Flushed' = Flushed
    BY <1>6, MembersNone DEF Buffered, Flushed
  <2>3. Chain(Writing', Waiting', Flushed', Buffered', Held', Streamed', Wired')
    BY <1>2, <1>3, <1>4, <2>1, <2>2 DEF Chain, Below
  <2>4. Order'
    BY <1>6, <2>1, <2>3, MembersNone DEF Order, Finish, source, intake
  <2>5. InFlight' = InFlight
    BY <1>3, <2>1, <2>2 DEF InFlight
  <2> QED BY <1>3, <2>4, <2>5 DEF GivenUp, Leave
<1>7. CASE batch' = [batch EXCEPT !["receiver"] = buffer] /\ buffer' = <<>> /\ UNCHANGED queue
  <2>1. batch'["receiver"] = buffer /\ batch'["timer"] = <<>>
    BY <1>1, <1>7 DEF Flushers
  <2>2. /\ Flushed' = Buffered /\ Buffered' = {} /\ Waiting' = Waiting
        /\ \A f \in Flushers : Ascending(batch'[f])
    BY <1>1, <1>7, <2>1, MembersNone DEF Flushed, Buffered, Waiting, Flushers
  <2>3. Chain(Writing', Waiting', Flushed', Buffered', Held', Streamed', Wired')
    BY <1>2, <1>3, <1>4, <2>2 DEF Chain, Below
  <2>4. Order'
    BY <1>7, <2>2, <2>3, MembersNone DEF Order, Finish, source, intake
  <2>5. InFlight' = InFlight
    BY <1>2, <1>3, <2>2 DEF InFlight
  <2> QED BY <1>3, <2>4, <2>5 DEF GivenUp, Leave
<1> QED BY <1>5, <1>6, <1>7 DEF Finish

-----------------------------------------------------------------------------
(* Every tick once: what is under way is published, and not stored, lost or *)
(* yet to come.                                                            *)

Traffic ==
  /\ InFlight \cup Stored \subseteq 1..sent
  /\ InFlight \cap Stored = {}
  /\ \A t \in InFlight \cup Stored : fate[t] = "none"
  /\ \A t \in Ids : t > sent => fate[t] = "none"

LEMMA EntersTraffic ==
  ASSUME Shape, Traffic, Enters
  PROVE  Traffic'
<1>1. sent \in Nat /\ sent' = sent + 1 /\ sent + 1 \in Ids /\ Stored' = Stored
  BY ShapeHalves, TickAssumption DEF Data, Enters, Stored, Ids
<1>2. InFlight' \subseteq InFlight \cup {sent + 1}
  BY DEF Enters
<1>3. InFlight' \cup Stored' \subseteq 1..sent'
  BY <1>1, <1>2 DEF Traffic
<1>4. sent + 1 \notin InFlight \cup Stored
  BY <1>1 DEF Traffic
<1>5. InFlight' \cap Stored' = {}
  BY <1>1, <1>2, <1>4 DEF Traffic
<1>6. ASSUME NEW t \in InFlight' \cup Stored' PROVE fate'[t] = "none"
  <2>1. CASE t = sent + 1
    <3>1. fate'[sent + 1] = fate[sent + 1]
      BY <1>1, <1>4, <1>6, <2>1 DEF Enters
    <3>2. fate[sent + 1] = "none"
      BY <1>1 DEF Traffic
    <3> QED BY <2>1, <3>1, <3>2
  <2>2. CASE t # sent + 1
    <3>1. t \in InFlight \cup Stored
      BY <1>1, <1>2, <1>6, <2>2
    <3>2. t \in 1..Ticks
      BY <3>1, PlacesTyped DEF Ids
    <3> QED BY <2>2, <3>1, <3>2 DEF Enters, Traffic
  <2> QED BY <2>1, <2>2
<1>7. ASSUME NEW t \in Ids, t > sent' PROVE fate'[t] = "none"
  <2>1. t # sent + 1 /\ t > sent /\ t \in 1..Ticks
    BY <1>1, <1>7 DEF Ids
  <2> QED BY <1>7, <2>1 DEF Enters, Traffic
<1> QED BY <1>3, <1>5, <1>6, <1>7 DEF Traffic

LEMMA GivenUpTraffic ==
  ASSUME Shape, Traffic, NEW L, NEW how, GivenUp(L, how)
  PROVE  Traffic'
<1>1. /\ L \subseteq InFlight /\ InFlight' = InFlight \ L /\ sent' = sent
      /\ \A t \in 1..Ticks : t \notin L => fate'[t] = fate[t]
      /\ Stored' = Stored
  BY DEF GivenUp, Leave, Stored
<1>2. /\ InFlight' \cup Stored' \subseteq 1..sent' /\ InFlight' \cap Stored' = {}
  BY <1>1 DEF Traffic
<1>3. \A t \in InFlight' \cup Stored' : t \in 1..Ticks /\ t \notin L
  BY <1>1, PlacesTyped DEF Ids, Traffic
<1>4. sent \in Nat /\ \A t \in Ids : t > sent => t \notin L
  BY <1>1, ShapeHalves, TickAssumption DEF Traffic, Data, Ids
<1> QED BY <1>1, <1>2, <1>3, <1>4 DEF Traffic, Ids

LEMMA StoresTraffic ==
  ASSUME Shape, Traffic, NEW t \in Ids, Stores(t)
  PROVE  Traffic'
<1>1. /\ t \in InFlight /\ InFlight' = InFlight \ {t} /\ sent' = sent
      /\ \A u \in 1..Ticks : fate'[u] = fate[u]
  BY DEF Stores, Leave
<1>2. Stored' = Stored \cup {t}
  BY SeqsTyped, MembersAppend DEF Stores, Stored
<1>3. /\ InFlight' \cup Stored' = InFlight \cup Stored /\ InFlight' \cap Stored' = {}
  BY <1>1, <1>2 DEF Traffic
<1>4. \A u \in InFlight \cup Stored : u \in 1..Ticks
  BY PlacesTyped DEF Ids
<1> QED BY <1>1, <1>3, <1>4 DEF Traffic, Ids

Main == Shape /\ Order /\ Traffic

\* Which steps give ticks up.
Loses(L, how) ==
  \/ L = {}
  \/ how \in {"full", "unregistered"} /\ (Forward \/ Register)
  \/ how \in {"invalid", "late", "rejected"} /\ Process
  \/ how = "overrun" /\ \E f \in Flushers : DropOldest(f)
  \/ how = "failed" /\ (Insert \/ InsertDirectly)

\* What any step does with the ticks.
LEMMA Steps ==
  ASSUME Main, [Next]_vars
  PROVE  /\ Main'
         /\ \/ Enters /\ \E time \in Stamps : Publish(time)
            \/ \E L \in SUBSET Ids, how \in Losses : GivenUp(L, how) /\ Loses(L, how)
            \/ \E t \in Ids : Stores(t) /\ (Insert \/ InsertDirectly)
<1>1. Shape /\ Order /\ Traffic /\ InFlight \subseteq 1..sent
  BY DEF Main, Traffic
<1>2. Shape'
  BY <1>1, ShapeNext DEF Order
<1>3. InFlight \subseteq Ids
  BY <1>1, PlacesTyped
<1>4. {"full", "overrun", "failed", "invalid", "late", "rejected", "unregistered"} \subseteq Losses
  BY DEF Losses
<1> DEFINE Lost == \E M \in SUBSET Ids, h \in Losses : GivenUp(M, h) /\ Loses(M, h)
           Added == \E u \in Ids : Stores(u) /\ (Insert \/ InsertDirectly)
<1>5. ASSUME Order', NEW L, NEW how \in Losses, GivenUp(L, how), Loses(L, how)
      PROVE  Main' /\ Lost
  <2>1. L \in SUBSET Ids
    BY <1>3, <1>5 DEF GivenUp, Leave
  <2> QED BY <1>1, <1>2, <1>5, <2>1, GivenUpTraffic DEF Main
<1>6. ASSUME Order', NEW t, Stores(t), Insert \/ InsertDirectly
      PROVE  Main' /\ Added
  <2>1. t \in Ids
    BY <1>3, <1>6 DEF Stores, Leave
  <2> QED BY <1>1, <1>2, <1>6, <2>1, StoresTraffic DEF Main
<1>7. ASSUME NEW time \in Stamps, Publish(time)
      PROVE  Main' /\ Enters
  BY <1>1, <1>2, <1>7, PublishMoves, EntersTraffic DEF Main
<1> HIDE DEF Lost, Added
<1>8. ASSUME Forward
      PROVE  Main' /\ Lost
  <2>1. Order' /\ \E L, how : how \in {"full"} /\ GivenUp(L, how)
    BY <1>1, <1>8, ForwardMoves
  <2>2. PICK L, how : how \in {"full"} /\ GivenUp(L, how)
    BY <2>1
  <2>3. Loses(L, how) /\ how \in Losses
    BY <1>8, <2>2 DEF Loses, Losses
  <2> QED BY <1>5, <2>1, <2>2, <2>3
<1>9. ASSUME Register
      PROVE  Main' /\ Lost
  <2>1. Order' /\ \E L, how : how \in {"full", "unregistered"} /\ GivenUp(L, how)
    BY <1>1, <1>9, RegisterMoves
  <2>2. PICK L, how : how \in {"full", "unregistered"} /\ GivenUp(L, how)
    BY <2>1
  <2>3. Loses(L, how) /\ how \in Losses
    BY <1>9, <2>2 DEF Loses, Losses
  <2> QED BY <1>5, <2>1, <2>2, <2>3
<1>10. ASSUME Process
       PROVE  Main' /\ Lost
  <2>1. Order' /\ \E L, how : how \in {"invalid", "late", "rejected"} /\ GivenUp(L, how)
    BY <1>1, <1>10, ProcessMoves
  <2>2. PICK L, how : how \in {"invalid", "late", "rejected"} /\ GivenUp(L, how)
    BY <2>1
  <2>3. Loses(L, how) /\ how \in Losses
    BY <1>10, <2>2 DEF Loses, Losses
  <2> QED BY <1>5, <2>1, <2>2, <2>3
<1>11. CASE Read \/ Add \/ TimerFires \/ Look \/ Get \/ EndReceiving \/ Finish
  <2>1. Order' /\ GivenUp({}, "full")
    BY <1>1, <1>11, ReadMoves, AddMoves, TimerFiresMoves, LookMoves, GetMoves,
       EndReceivingMoves, FinishMoves
  <2> QED BY <1>4, <1>5, <2>1 DEF Loses
<1>12. ASSUME NEW f \in Flushers, Flush(f)
       PROVE  Main' /\ Lost
  <2>1. CASE PutBatch(f) \/ PutAgain(f)
    <3>1. Order' /\ GivenUp({}, "full")
      BY <1>1, <2>1, PutBatchMoves, PutAgainMoves
    <3> QED BY <1>4, <1>5, <3>1 DEF Loses
  <2>2. CASE DropOldest(f)
    <3>1. /\ Loses({}, "full")
          /\ \A L : Loses(L, "overrun")
      BY <1>12, <2>2 DEF Loses
    <3> QED BY <1>1, <1>4, <1>5, <2>2, <3>1, DropOldestMoves
  <2> QED BY <1>12, <2>1, <2>2 DEF Flush
<1>13. ASSUME Insert \/ InsertDirectly
       PROVE  Main' /\ (Lost \/ Added)
  <2>1. \A L : Loses(L, "failed")
    BY <1>13 DEF Loses
  <2> QED BY <1>1, <1>4, <1>5, <1>6, <1>13, <2>1, InsertMoves, InsertDirectlyMoves
<1>14. CASE UNCHANGED vars
  <2>1. Order' /\ GivenUp({}, "full")
    BY <1>1, <1>14, NothingMoves DEF vars, source, intake, store
  <2> QED BY <1>4, <1>5, <2>1 DEF Loses
<1> QED
  BY <1>7, <1>8, <1>9, <1>10, <1>11, <1>12, <1>13, <1>14
  DEF Next, Discovery, Receiver, Timer, Writer, Flushers, Lost, Added

LEMMA MainInit == Init => Main
<1> SUFFICES ASSUME Init PROVE Main
  OBVIOUS
<1>1. /\ rows = <<>> /\ writing = <<>> /\ queue = <<>> /\ buffer = <<>> /\ hand = <<>>
      /\ stream = <<>> /\ wire = <<>> /\ \A f \in Flushers : batch[f] = <<>>
  BY DEF Init, Flushers
<1>2. /\ Stored = {} /\ Writing = {} /\ Waiting = {} /\ Flushed = {} /\ Buffered = {}
      /\ Held = {} /\ Streamed = {} /\ Wired = {}
  BY <1>1, MembersNone, ContentsNone
  DEF Stored, Writing, Waiting, Flushed, Buffered, Held, Streamed, Wired, Flushers
<1>3. Order
  <2>1. InLine(queue)
    BY <1>1 DEF InLine
  <2> QED BY <1>1, <1>2, <2>1, MembersNone DEF Order, Chain, Below
<1>4. Traffic
  BY <1>2 DEF Traffic, InFlight, Init, Ids
<1> QED BY <1>3, <1>4, ShapeInit DEF Main

LEMMA MainHolds == Spec => []Main
BY MainInit, Steps, PTL DEF Spec

-----------------------------------------------------------------------------
(* The rows, as long as the receiving thread has not written by itself.    *)

Rowed ==
  /\ at["receiver"] = "direct" => direct
  /\ ~direct => Ascending(rows) /\ Below(Stored, InFlight)

LEMMA DirectOnce ==
  ASSUME Shape, [Next]_vars
  PROVE  /\ direct => direct'
         /\ at'["receiver"] = "direct" => at["receiver"] = "direct" \/ direct'
<1>1. DOMAIN at = Threads /\ direct \in BOOLEAN
  BY ShapeHalves DEF Places, Data
<1>2. CASE Finish
  BY <1>1, <1>2 DEF Finish, Goto, Threads, Flushers
<1>3. CASE InsertDirectly
  BY <1>1, <1>3 DEF InsertDirectly
<1>4. CASE UNCHANGED <<at, direct>>
  BY <1>4
<1>5. ASSUME NEW thread, NEW stage, stage # "direct", Goto(thread, stage), UNCHANGED direct
      PROVE  (direct => direct') /\ (at'["receiver"] = "direct" => at["receiver"] = "direct")
  BY <1>1, <1>5 DEF Goto, Threads, Flushers
<1>6. CASE Forward \/ Register \/ \E time \in Stamps : Publish(time)
  BY <1>4, <1>5, <1>6 DEF Forward, Register, Publish
<1>7. CASE Read \/ Process \/ Add \/ TimerFires
  BY <1>4, <1>5, <1>7 DEF Read, Process, Discard, Add, TakeBatch, TimerFires
<1>8. ASSUME NEW f \in Flushers, Flush(f)
      PROVE  (direct => direct') /\ (at'["receiver"] = "direct" => at["receiver"] = "direct")
  BY <1>4, <1>5, <1>8 DEF Flush, PutBatch, DropOldest, PutAgain, Release
<1>9. CASE Look \/ Get \/ Insert
  BY <1>4, <1>5, <1>9 DEF Look, Get, Insert
<1>10. CASE EndReceiving
  BY <1>1, <1>10 DEF EndReceiving, Threads, Flushers
<1>11. CASE UNCHANGED vars
  BY <1>4, <1>11 DEF vars
<1> QED
  BY <1>2, <1>3, <1>6, <1>7, <1>8, <1>9, <1>10, <1>11
  DEF Next, Discovery, Receiver, Timer, Writer, Flushers

LEMMA RowedNext ==
  ASSUME Main, Rowed, [Next]_vars
  PROVE  Rowed'
<1>1. Shape /\ Order /\ Traffic /\ Main'
  BY Steps DEF Main
<1>2. at'["receiver"] = "direct" => direct'
  BY <1>1, DirectOnce DEF Rowed
<1> SUFFICES ASSUME ~direct' PROVE (Ascending(rows) /\ Below(Stored, InFlight))'
  BY <1>2 DEF Rowed
<1>3. /\ ~direct /\ at["receiver"] # "direct"
      /\ Ascending(rows) /\ Below(Stored, InFlight)
  BY <1>1, DirectOnce DEF Rowed
<1>4. Stored \subseteq 1..sent /\ sent \in Nat
  BY <1>1, ShapeHalves, TickAssumption DEF Traffic, Data
<1>5. CASE Enters
  <2>1. InFlight' \subseteq InFlight \cup {sent + 1} /\ rows' = rows /\ Stored' = Stored
    BY <1>5 DEF Enters, Stored
  <2>2. Below(Stored, {sent + 1})
    BY <1>4 DEF Below
  <2> QED BY <1>3, <2>1, <2>2 DEF Below
<1>6. ASSUME NEW L, NEW how, GivenUp(L, how)
      PROVE  (Ascending(rows) /\ Below(Stored, InFlight))'
  BY <1>3, <1>6 DEF GivenUp, Leave, Below, Stored
<1>7. CASE Insert
  <2> DEFINE h == Head(writing)
  <2>1. /\ writing # <<>> /\ Writing = {h} \cup Writing' /\ Below({h}, InFlight')
        /\ Stores(h) \/ GivenUp({h}, "failed")
    BY <1>1, <1>7, InsertMoves
  <2>2. h \in InFlight /\ h \in Ids
    BY <1>1, <2>1, PlacesTyped DEF InFlight
  <2> HIDE DEF h
  <2>3. CASE Stores(h)
    <3>1. /\ rows \in Seq(Ids) /\ Ids \in SUBSET Nat /\ rows' = Append(rows, h)
          /\ InFlight' = InFlight \ {h}
      BY <1>1, <2>3, SeqsTyped DEF Stores, Leave
    <3>2. Below(Members(rows), {h})
      BY <1>3, <2>2 DEF Below, Stored
    <3>3. Stored' = Stored \cup {h} /\ Ascending(rows')
      BY <1>3, <2>2, <3>1, <3>2, Joined DEF Stored
    <3> QED BY <1>3, <2>1, <3>1, <3>3 DEF Below
  <2> QED BY <1>6, <2>1, <2>3
<1>8. ~InsertDirectly
  BY <1>3 DEF InsertDirectly
<1> QED BY <1>5, <1>6, <1>7, <1>8, Steps

LEMMA RowedInit == Init => Rowed
<1> SUFFICES ASSUME Init PROVE Rowed
  OBVIOUS
<1>1. rows = <<>> /\ at["receiver"] = "none"
  BY DEF Init
<1> QED BY <1>1, MembersNone DEF Rowed, Stored, Below

-----------------------------------------------------------------------------
(* What was lost at a full write queue is older than what is behind it.    *)

Behind == Waiting \cup Flushed \cup Buffered \cup Held \cup Streamed \cup Wired

Overran == \A t \in Ids : fate[t] = "overrun" => Below({t}, Behind)

LEMMA WritingGrows ==
  ASSUME Shape, [Next]_vars, ~Insert
  PROVE  Writing \subseteq Writing'
<1>1. CASE UNCHANGED writing
  BY <1>1 DEF Writing
<1>2. CASE Get
  <2>1. writing = <<>>
    BY <1>2, ShapeHalves DEF Get, Places
  <2> QED BY <2>1, MembersNone DEF Writing
<1>3. Get \/ UNCHANGED writing
  BY DEF Next, Discovery, Receiver, Timer, Writer, Flush, vars, store, Publish, Forward, Register,
     Read, Process, Add, TimerFires, PutBatch, DropOldest, PutAgain, Look, EndReceiving, Finish,
     InsertDirectly
<1> QED BY <1>1, <1>2, <1>3

LEMMA BehindRest == Shape /\ Order => Behind = InFlight \ Writing
BY OneDifferent DEF Behind, InFlight

LEMMA OverranNext ==
  ASSUME Main, Overran, [Next]_vars
  PROVE  Overran'
<1>1. Shape /\ Order /\ Traffic /\ (Shape /\ Order)'
  BY Steps DEF Main
<1>2. Behind = InFlight \ Writing /\ (Behind = InFlight \ Writing)'
  BY <1>1, BehindRest, PTL
<1>3. ASSUME Behind' \subseteq Behind,
             \A t \in Ids : fate'[t] = "overrun" => fate[t] = "overrun"
      PROVE  Overran'
  BY <1>3 DEF Overran, Below
<1>4. CASE Insert
  <2>1. Behind' = Behind
    BY <1>4 DEF Insert, source, intake, Behind, Waiting, Flushed, Buffered, Held, Streamed, Wired
  <2>2. \A t \in Ids : fate'[t] = "overrun" => fate[t] = "overrun"
    BY <1>1, <1>4, ShapeHalves DEF Insert, InsertTick, Lose, Data, Ids
  <2> QED BY <1>3, <2>1, <2>2
<1>5. CASE ~Insert /\ Enters
  <2>1. /\ InFlight' \subseteq InFlight \cup {sent + 1} /\ Writing \subseteq Writing'
        /\ sent \in Nat /\ Ids \in SUBSET Nat
    BY <1>1, <1>5, WritingGrows, ShapeHalves, SeqsTyped, TickAssumption DEF Enters, Data
  <2>2. Behind' \subseteq Behind \cup {sent + 1}
    BY <1>2, <2>1
  <2>3. ASSUME NEW t \in Ids, fate'[t] = "overrun"
        PROVE  fate[t] = "overrun" /\ t < sent + 1
    <3>1. fate[t] = "overrun"
      <4>1. CASE t # sent + 1
        BY <1>5, <2>3, <4>1 DEF Enters, Ids
      <4>2. CASE t = sent + 1
        BY <1>5, <2>3, <4>2 DEF Enters
      <4> QED BY <4>1, <4>2
    <3>2. t <= sent
      BY <1>1, <2>1, <2>3, <3>1 DEF Traffic
    <3> QED BY <2>1, <2>3, <3>1, <3>2
  <2> QED BY <2>2, <2>3 DEF Overran, Below
<1>6. ASSUME ~Insert, NEW t \in Ids, Stores(t)
      PROVE  Overran'
  <2>1. Behind' \subseteq Behind
    BY <1>1, <1>2, <1>6, WritingGrows DEF Stores, Leave
  <2>2. \A u \in Ids : fate'[u] = fate[u]
    BY <1>6 DEF Stores, Leave, Ids
  <2> QED BY <1>3, <2>1, <2>2
<1>7. ASSUME ~Insert, NEW L, NEW how, GivenUp(L, how), L = {} \/ how # "overrun"
      PROVE  Overran'
  <2>1. Behind' \subseteq Behind
    BY <1>1, <1>2, <1>7, WritingGrows DEF GivenUp, Leave
  <2>2. \A u \in Ids : fate'[u] = "overrun" => fate[u] = "overrun"
    BY <1>7 DEF GivenUp, Leave, Ids
  <2> QED BY <1>3, <2>1, <2>2
<1>8. ASSUME NEW f \in Flushers, DropOldest(f), ~Insert
      PROVE  Overran'
  <2> DEFINE L == Members(Head(queue))
  <2>1. CASE GivenUp({}, "full")
    BY <1>7, <1>8, <2>1
  <2>2. CASE queue # <<>> /\ queue' = Tail(queue) /\ GivenUp(L, "overrun")
    <3>1. Waiting = L \cup Waiting' /\ Below(L, Waiting')
      BY <1>1, <2>2, FirstOut
    <3>2. UNCHANGED <<Flushed, Buffered, Held, Streamed, Wired>>
      BY <1>8 DEF DropOldest, source, intake, Flushed, Buffered, Held, Streamed, Wired
    <3>3. Chain(Writing, Waiting, Flushed, Buffered, Held, Streamed, Wired)
      BY <1>1 DEF Order
    <3>4. \A t \in Ids : fate'[t] = "overrun" => t \in L \/ fate[t] = "overrun"
      BY <2>2 DEF GivenUp, Leave, Ids
    <3> HIDE DEF L
    <3>5. Below(L, Behind') /\ Behind' \subseteq Behind
      BY <3>1, <3>2, <3>3 DEF Chain, Below, Behind
    <3> QED BY <3>4, <3>5 DEF Overran, Below
  <2> QED BY <1>1, <1>8, <2>1, <2>2, DropOldestMoves
<1> QED BY <1>4, <1>5, <1>6, <1>7, <1>8, Steps DEF Loses

LEMMA OverranInit == Init => Overran
BY DEF Init, Overran, Ids

-----------------------------------------------------------------------------
(* The times of the ticks: last is the latest of those looked at, which    *)
(* were all published before those that still wait to be looked at.        *)

Seen == Writing \cup Waiting \cup Flushed \cup Buffered
          \cup IF at["receiver"] = "process" THEN {} ELSE Held
Unseen == Streamed \cup Wired \cup IF at["receiver"] = "process" THEN Held ELSE {}
Passed == Stored \cup Seen
Looked == Passed \cup {t \in Ids : fate[t] \in {"rejected", "overrun", "failed"}}

Times ==
  /\ \A u \in Looked : stamp[u] <= last
  /\ last # 0 => \E u \in Looked : stamp[u] = last
  /\ Below(Looked, Unseen)
  /\ \A t, u \in Passed : t < u => stamp[t] <= stamp[u]
  /\ \A t \in Ids : fate[t] = "late" => \E u \in Looked : u < t /\ stamp[u] > stamp[t]

LEMMA SeenRest ==
  Main => /\ Seen = InFlight \ Unseen /\ Unseen = InFlight \ Seen /\ Unseen \subseteq InFlight
          /\ Passed = (InFlight \cup Stored) \ Unseen
<1> SUFFICES ASSUME Main
             PROVE  /\ Seen = InFlight \ Unseen /\ Unseen = InFlight \ Seen
                    /\ Unseen \subseteq InFlight
                    /\ Passed = (InFlight \cup Stored) \ Unseen
  OBVIOUS
<1>1. Shape /\ Order /\ InFlight \cap Stored = {}
  BY DEF Main, Traffic
<1>2. Seen = InFlight \ Unseen /\ Unseen = InFlight \ Seen /\ Unseen \subseteq InFlight
  BY <1>1, OneDifferent DEF Seen, Unseen, InFlight
<1> QED BY <1>1, <1>2 DEF Passed

LEMMA LookedPublished ==
  ASSUME Main
  PROVE  /\ Looked \subseteq 1..sent /\ Looked \subseteq Ids /\ Passed \subseteq Looked
         /\ sent \in Nat /\ Ids \in SUBSET Nat
         /\ \A t \in Ids : fate[t] # "none" => t \in 1..sent
         /\ \A t \in Ids : stamp[t] \in Nat
         /\ last \in Nat
<1>1. Shape /\ Traffic
  BY DEF Main
<1>2. sent \in Nat /\ last \in Nat /\ \A t \in Ids : stamp[t] \in Nat
  <2>1. sent \in 0..Ticks /\ last \in Stamps \cup {0} /\ stamp \in [Ids -> Stamps \cup {0}]
    BY <1>1, ShapeHalves DEF Data, Ids
  <2>2. Stamps \cup {0} \subseteq Nat
    BY TickAssumption
  <2> QED BY <2>1, <2>2
<1>3. \A t \in Ids : fate[t] # "none" => t \in 1..sent
  BY <1>1, <1>2 DEF Traffic, Ids
<1>4. Passed \subseteq 1..sent /\ Passed \subseteq Ids
  BY <1>1, PlacesTyped DEF Traffic, Passed, Seen, InFlight
<1> QED BY <1>1, <1>2, <1>3, <1>4, SeqsTyped DEF Looked

\* Nothing is looked at in the step.
LEMMA SameTimes ==
  ASSUME Main, Times, UNCHANGED last, \A t \in 1..sent : stamp'[t] = stamp[t],
         Looked' = Looked, Passed' = Passed \/ Passed' \subseteq Passed,
         Below(Looked, Unseen'),
         \A t \in Ids : fate'[t] = "late" => fate[t] = "late"
  PROVE  Times'
<1>1. /\ Looked \subseteq 1..sent /\ Passed \subseteq Looked
      /\ \A t \in Ids : fate[t] = "late" => t \in 1..sent
  BY LookedPublished
<1>2. (\A u \in Looked' : stamp'[u] <= last') /\ Below(Looked', Unseen')
  BY <1>1 DEF Times
<1>3. last' # 0 => \E u \in Looked' : stamp'[u] = last'
  BY <1>1 DEF Times
<1>4. \A t, u \in Passed' : t < u => stamp'[t] <= stamp'[u]
  BY <1>1 DEF Times
<1>5. ASSUME NEW t \in Ids, fate'[t] = "late"
      PROVE  \E u \in Looked' : u < t /\ stamp'[u] > stamp'[t]
  <2>1. PICK u \in Looked : u < t /\ stamp[u] > stamp[t]
    BY <1>5 DEF Times
  <2> QED BY <1>1, <1>5, <2>1
<1> QED BY <1>2, <1>3, <1>4, <1>5 DEF Times

LEMMA PublishTimes ==
  ASSUME Main, Times, NEW time \in Stamps, Publish(time)
  PROVE  Times'
<1>1. Shape /\ Order /\ Traffic /\ InFlight \subseteq 1..sent
  BY DEF Main, Traffic
<1>2. Enters
  BY <1>1, PublishMoves
<1>3. Main'
  BY Steps DEF Next
<1>4. /\ Unseen = InFlight \ Seen /\ Looked \subseteq 1..sent
      /\ sent \in Nat /\ Ids \in SUBSET Nat
  BY SeenRest, LookedPublished
<1>5. (Unseen = InFlight \ Seen)'
  BY <1>3, SeenRest, PTL
<1>6. Passed' = Passed /\ Seen' = Seen
  BY DEF Publish, intake, store, Passed, Seen, Stored, Writing, Waiting, Flushed, Buffered, Held
<1>7. sent + 1 \in Ids /\ fate[sent + 1] = "none"
  BY <1>1, <1>2, <1>4 DEF Enters, Traffic, Ids
<1>8. fate'[sent + 1] \in {"none", "wire"} /\ \A t \in Ids : t # sent + 1 => fate'[t] = fate[t]
  BY <1>2, <1>7 DEF Enters, Ids
<1>9. Looked' = Looked
  BY <1>6, <1>7, <1>8 DEF Looked
<1>10. Below(Looked, Unseen')
  <2>1. Unseen' \subseteq Unseen \cup {sent + 1}
    BY <1>2, <1>4, <1>5, <1>6 DEF Enters
  <2>2. Below(Looked, {sent + 1})
    BY <1>4 DEF Below
  <2> QED BY <2>1, <2>2 DEF Below, Times
<1>11. \A t \in 1..sent : stamp'[t] = stamp[t]
  BY <1>1, <1>4, ShapeHalves DEF Publish, Data
<1>12. \A t \in Ids : fate'[t] = "late" => fate[t] = "late"
  BY <1>7, <1>8
<1>13. UNCHANGED last
  BY DEF Publish, intake
<1> QED BY <1>6, <1>9, <1>10, <1>11, <1>12, <1>13, SameTimes

\* Before a tick is looked at.
LEMMA EarlierTimes ==
  ASSUME Main, Times, Main', NEW L, NEW how \in {"full", "unregistered"}, GivenUp(L, how),
         UNCHANGED <<last, stamp>>, Seen' = Seen
  PROVE  Times'
<1>1. /\ L \subseteq InFlight /\ InFlight' = InFlight \ L /\ Stored' = Stored
      /\ \A t \in Ids : t \notin L => fate'[t] = fate[t]
      /\ \A t \in L : fate'[t] = how
  BY DEF GivenUp, Leave, Stored, Ids
<1>2. \A t \in L : fate[t] = "none"
  BY <1>1 DEF Main, Traffic
<1>3. Passed' = Passed
  BY <1>1 DEF Passed
<1>4. Looked' = Looked
  BY <1>1, <1>2, <1>3 DEF Looked
<1>5. Unseen = InFlight \ Seen
  BY SeenRest
<1>6. (Unseen = InFlight \ Seen)'
  BY SeenRest, PTL
<1>7. Below(Looked, Unseen')
  BY <1>1, <1>5, <1>6 DEF Below, Times
<1>8. \A t \in Ids : fate'[t] = "late" => fate[t] = "late"
  BY <1>1, <1>2
<1> QED BY <1>3, <1>4, <1>7, <1>8, SameTimes

\* After it was looked at.
LEMMA LaterTimes ==
  ASSUME Main, Times, Main', UNCHANGED <<last, stamp>>, Unseen' = Unseen,
         \/ \E L, how : GivenUp(L, how) /\ (L = {} \/ how \in {"overrun", "failed"})
         \/ \E t \in Ids : Stores(t)
  PROVE  Times'
<1>1. /\ Passed = (InFlight \cup Stored) \ Unseen /\ Unseen \subseteq InFlight
  BY SeenRest
<1>2. (Passed = (InFlight \cup Stored) \ Unseen)' /\ (Unseen \subseteq InFlight)'
  BY SeenRest, PTL
<1>3. Below(Looked, Unseen')
  BY DEF Times
<1>4. ASSUME NEW L, NEW how, GivenUp(L, how), L = {} \/ how \in {"overrun", "failed"}
      PROVE  Times'
  <2>1. /\ L \subseteq InFlight /\ InFlight' = InFlight \ L /\ Stored' = Stored
        /\ \A t \in Ids : t \notin L => fate'[t] = fate[t]
        /\ \A t \in L : fate'[t] = how
    BY <1>4 DEF GivenUp, Leave, Stored, Ids
  <2>2. L \subseteq Ids
    BY <2>1, PlacesTyped DEF Main
  <2>3. Passed' \subseteq Passed /\ Passed \subseteq Passed' \cup L /\ L \subseteq Passed
    BY <1>1, <1>2, <2>1
  <2>4. Looked' = Looked
    BY <1>4, <2>1, <2>2, <2>3 DEF Looked, Main, Traffic
  <2>5. \A t \in Ids : fate'[t] = "late" => fate[t] = "late"
    BY <1>4, <2>1
  <2> QED BY <1>3, <2>3, <2>4, <2>5, SameTimes
<1>5. ASSUME NEW t \in Ids, Stores(t)
      PROVE  Times'
  <2>1. /\ t \in InFlight /\ InFlight' = InFlight \ {t}
        /\ \A u \in Ids : fate'[u] = fate[u]
    BY <1>5 DEF Stores, Leave, Ids
  <2>2. Stored' = Stored \cup {t}
    BY <1>5, SeqsTyped, MembersAppend DEF Stores, Stored, Main
  <2>3. Passed' = Passed
    BY <1>1, <1>2, <2>1, <2>2
  <2>4. Looked' = Looked
    BY <2>1, <2>3 DEF Looked
  <2> QED BY <1>3, <2>1, <2>3, <2>4, SameTimes
<1> QED BY <1>4, <1>5

LEMMA ProcessTimes ==
  ASSUME Main, Times, Process
  PROVE  Times'
<1> DEFINE t == hand[1]
<1>1. Shape /\ Order /\ Traffic
  BY DEF Main
<1>2. Main'
  BY Steps DEF Next, Receiver
<1>3. t \in Ids /\ Held = {t} /\ at["receiver"] = "process" /\ hand # <<>>
  <2>1. Data /\ Places /\ hand # <<>>
    BY <1>1, ShapeHalves DEF Process, Places
  <2> QED BY <2>1, InHand, MembersOne DEF Held, Ids, Process
<1>4. UNCHANGED <<Stored, Writing, Waiting, Flushed, Buffered, Streamed, Wired, stamp, sent>>
  BY DEF Process, source, store, Stored, Writing, Waiting, Flushed, Buffered, Streamed, Wired
<1>5. t \in Unseen /\ t \notin Passed
  <2>1. t \in Unseen
    BY <1>3 DEF Unseen
  <2> QED BY <2>1, SeenRest
<1>6. /\ Looked \subseteq 1..sent /\ Looked \subseteq Ids /\ Passed \subseteq Looked
      /\ Ids \in SUBSET Nat /\ \A u \in Ids : stamp[u] \in Nat
      /\ last \in Nat
  BY LookedPublished
<1>7. stamp[t] \in Nat /\ \A u \in Looked : stamp[u] \in Nat
  BY <1>3, <1>6
<1>8. Below(Looked, {t}) /\ fate[t] = "none" /\ t \notin Looked
  <2>1. fate[t] = "none"
    BY <1>1, <1>3 DEF Traffic, InFlight
  <2> QED BY <1>5, <2>1 DEF Below, Times, Looked
<1>9. DOMAIN at = Threads
  BY <1>1, ShapeHalves DEF Places
<1>10. ASSUME NEW how \in {"invalid", "late", "rejected"}, Discard(how)
      PROVE  /\ Unseen' = Unseen \ {t} /\ Passed' = Passed
             /\ fate'[t] = how /\ \A u \in Ids : u # t => fate'[u] = fate[u]
  <2>1. at'["receiver"] = "read" /\ Held' = {}
    BY <1>9, <1>10, MembersNone DEF Discard, Goto, Held, Threads, Flushers
  <2>2. Unseen' = Streamed \cup Wired /\ Passed' = Passed
    BY <1>3, <1>4, <2>1 DEF Unseen, Passed, Seen
  <2>3. t \notin Streamed \cup Wired
    BY <1>1, <1>3, OneDifferent
  <2>4. fate'[t] = how /\ \A u \in 1..Ticks : u # t => fate'[u] = fate[u]
    <3>1. how \in Losses /\ Lose(t, how)
      BY <1>10 DEF Discard, Losses
    <3> QED BY <1>1, <1>3, <3>1, LoseTyped DEF Shape, Ids
  <2> QED BY <1>3, <2>2, <2>3, <2>4 DEF Unseen, Ids
<1>11. CASE Discard("invalid") /\ UNCHANGED last
  <2>1. /\ Unseen' = Unseen \ {t} /\ Passed' = Passed
        /\ fate'[t] = "invalid" /\ \A u \in Ids : u # t => fate'[u] = fate[u]
    BY <1>10, <1>11
  <2>2. Looked' = Looked
    BY <1>8, <2>1 DEF Looked
  <2>3. Below(Looked, Unseen')
    BY <2>1 DEF Times, Below
  <2>4. \A u \in Ids : fate'[u] = "late" => fate[u] = "late"
    BY <2>1
  <2> QED BY <1>4, <1>11, <2>1, <2>2, <2>3, <2>4, SameTimes
<1>12. CASE Late(t) /\ Discard("late") /\ UNCHANGED last
  <2>1. /\ Unseen' = Unseen \ {t} /\ Passed' = Passed
        /\ fate'[t] = "late" /\ \A u \in Ids : u # t => fate'[u] = fate[u]
    BY <1>10, <1>12
  <2>2. Looked' = Looked
    BY <1>8, <2>1 DEF Looked
  <2>3. last # 0
    BY <1>6, <1>7, <1>12 DEF Late
  <2>4. PICK u \in Looked : stamp[u] = last
    BY <2>3 DEF Times
  <2>5. u < t /\ stamp[u] > stamp[t]
    BY <1>3, <1>6, <1>8, <1>12, <2>4 DEF Below, Late
  <2>6. \A v \in Ids : fate'[v] = "late" => \E w \in Looked' : w < v /\ stamp'[w] > stamp'[v]
    BY <1>4, <2>1, <2>2, <2>5 DEF Times
  <2>7. Below(Looked', Unseen')
    BY <2>1, <2>2 DEF Times, Below
  <2> QED BY <1>4, <1>12, <2>1, <2>2, <2>6, <2>7 DEF Times
\* What is not late is looked at, and from now on the latest.
<1>13. ASSUME ~Late(t), last' = stamp[t], Looked' = Looked \cup {t}, Unseen' = Unseen \ {t},
              Passed' \subseteq Passed \cup {t},
              \A u \in Ids : fate'[u] = "late" => fate[u] = "late"
       PROVE  Times'
  <2>1. \A u \in Looked : u < t /\ stamp[u] <= last /\ last <= last'
    <3>1. last <= last'
      BY <1>6, <1>13, <1>7 DEF Late
    <3> QED BY <1>8, <3>1 DEF Below, Times
  <2>2. \A u \in Looked' : stamp'[u] <= last'
    <3>1. stamp'[t] <= last' /\ last' \in Nat /\ stamp' = stamp
      BY <1>4, <1>13, <1>7
    <3>2. ASSUME NEW u \in Looked PROVE stamp[u] <= last'
      BY <1>6, <1>7, <2>1, <3>1
    <3> QED BY <1>13, <3>1, <3>2
  <2>3. last' # 0 => \E u \in Looked' : stamp'[u] = last'
    BY <1>4, <1>13
  <2>4. Below({t}, Unseen')
    <3>1. Unseen' = Streamed \cup Wired
      <4>1. t \notin Streamed \cup Wired
        BY <1>1, <1>3, OneDifferent
      <4> QED BY <1>3, <1>13, <4>1 DEF Unseen
    <3>2. Below(Held, Streamed) /\ Below(Held, Wired)
      BY <1>1 DEF Order, Chain
    <3> QED BY <1>3, <3>1, <3>2 DEF Below
  <2>5. Below(Looked', Unseen')
    BY <1>13, <2>4 DEF Below, Times
  <2>6. ASSUME NEW u \in Passed', NEW v \in Passed', u < v
        PROVE  stamp'[u] <= stamp'[v]
    <3>1. CASE u \in Passed /\ v \in Passed
      BY <1>4, <2>6, <3>1 DEF Times
    <3>2. CASE v = t
      <4>1. stamp'[u] <= last' /\ stamp'[v] = last'
        <5>1. u \in Looked'
          BY <1>6, <1>13, <2>6
        <5> QED BY <1>4, <1>13, <2>2, <3>2, <5>1
      <4> QED BY <4>1
    <3>3. CASE u = t /\ v \in Passed
      <4>1. v < t /\ v \in Nat /\ t \in Nat
        BY <1>3, <1>6, <2>1, <3>3
      <4> QED BY <2>6, <3>3, <4>1
    <3> QED BY <1>13, <3>1, <3>2, <3>3
  <2>7. ASSUME NEW v \in Ids, fate'[v] = "late"
        PROVE  \E w \in Looked' : w < v /\ stamp'[w] > stamp'[v]
    BY <1>4, <1>13, <2>7 DEF Times
  <2> QED BY <2>2, <2>3, <2>5, <2>6, <2>7 DEF Times
<1>14. CASE ~Late(t) /\ last' = stamp[t] /\ Discard("rejected")
  <2>1. /\ Unseen' = Unseen \ {t} /\ Passed' = Passed
        /\ fate'[t] = "rejected" /\ \A u \in Ids : u # t => fate'[u] = fate[u]
    BY <1>10, <1>14
  <2>2. Looked' = Looked \cup {t}
    BY <1>3, <2>1 DEF Looked
  <2> QED BY <1>13, <1>14, <2>1, <2>2
<1>15. CASE ~Late(t) /\ last' = stamp[t] /\ Goto("receiver", "add") /\ UNCHANGED <<hand, fate>>
  <2>1. at'["receiver"] = "add" /\ Held' = {t}
    BY <1>3, <1>9, <1>15 DEF Goto, Held, Threads, Flushers
  <2>2. Unseen' = Streamed \cup Wired /\ Passed' = Passed \cup {t}
    BY <1>3, <1>4, <2>1 DEF Unseen, Passed, Seen
  <2>3. t \notin Streamed \cup Wired
    BY <1>1, <1>3, OneDifferent
  <2>4. Unseen' = Unseen \ {t}
    BY <1>3, <2>2, <2>3 DEF Unseen
  <2>5. Looked' = Looked \cup {t}
    BY <1>15, <2>2 DEF Looked
  <2> QED BY <1>13, <1>15, <2>2, <2>4, <2>5
<1> QED BY <1>11, <1>12, <1>14, <1>15 DEF Process

\* The steps that leave alone what is still to be looked at.
LEMMA RestUnseen ==
  ASSUME Shape,
         \/ Add \/ TimerFires \/ Look \/ Get \/ Insert \/ EndReceiving \/ Finish \/ InsertDirectly
         \/ \E f \in Flushers : Flush(f)
         \/ UNCHANGED vars
  PROVE  Unseen' = Unseen /\ UNCHANGED <<last, stamp>>
<1>1. DOMAIN at = Threads
  BY ShapeHalves DEF Places
<1>2. UNCHANGED <<stream, wire, last, stamp>>
  BY DEF Add, TimerFires, Look, Get, Insert, EndReceiving, Finish, InsertDirectly, Flush, PutBatch,
     DropOldest, PutAgain, vars, source, intake
<1>3. CASE hand' = hand /\ (at'["receiver"] = "process" <=> at["receiver"] = "process")
  BY <1>2, <1>3 DEF Unseen, Held, Streamed, Wired
<1>4. CASE at["receiver"] # "process" /\ at'["receiver"] # "process"
  BY <1>2, <1>4 DEF Unseen, Streamed, Wired
<1>5. ASSUME NEW thread \in Threads, NEW stage, Goto(thread, stage)
      PROVE  /\ at'[thread] = stage
             /\ thread # "receiver" => at'["receiver"] = at["receiver"]
  BY <1>1, <1>5, GotoAt DEF Threads, Flushers
<1>6. "receiver" \in Threads /\ "timer" \in Threads /\ "writer" \in Threads
  BY DEF Threads, Flushers
<1>7. CASE Add
  BY <1>4, <1>5, <1>6, <1>7 DEF Add, TakeBatch
<1>8. CASE TimerFires
  BY <1>3, <1>5, <1>6, <1>8 DEF TimerFires, TakeBatch, intake
<1>9. CASE Look \/ Get \/ Insert
  BY <1>3, <1>5, <1>6, <1>9 DEF Look, Get, Insert, intake
<1>10. CASE EndReceiving
  <2>1. at["receiver"] = "read" /\ at'["receiver"] = "finish"
    BY <1>1, <1>10 DEF EndReceiving, Threads, Flushers
  <2> QED BY <1>4, <2>1
<1>11. CASE Finish \/ InsertDirectly
  BY <1>4, <1>5, <1>6, <1>11 DEF Finish, InsertDirectly
<1>12. ASSUME NEW f \in Flushers, Flush(f)
       PROVE  Unseen' = Unseen
  <2>1. f \in Threads /\ hand' = hand
    BY <1>12 DEF Threads, Flush, PutBatch, DropOldest, PutAgain, intake
  <2>2. \E stage \in {"drop", "reput", "read", "off", "armed"} : Goto(f, stage)
    BY <1>12 DEF Flush, PutBatch, DropOldest, PutAgain, Release
  <2>3. at[f] # "process"
    BY <1>12 DEF Flush, PutBatch, DropOldest, PutAgain
  <2> QED BY <1>3, <1>5, <2>1, <2>2, <2>3
<1>13. CASE UNCHANGED vars
  BY <1>3, <1>13 DEF vars, intake
<1> QED BY <1>2, <1>7, <1>8, <1>9, <1>10, <1>11, <1>12, <1>13

LEMMA TimesNext ==
  ASSUME Main, Times, [Next]_vars
  PROVE  Times'
<1>1. Shape /\ Order /\ Main' /\ DOMAIN at = Threads
  BY Steps, ShapeHalves DEF Main, Places
<1>2. ASSUME NEW time \in Stamps, Publish(time)
      PROVE  Times'
  BY <1>2, PublishTimes
<1>3. CASE Process
  BY <1>3, ProcessTimes
<1>4. CASE Forward
  <2>1. Seen' = Seen
    BY <1>4 DEF Forward, store, Seen, Writing, Waiting, Flushed, Buffered, Held
  <2>2. UNCHANGED <<last, stamp>>
    BY <1>4 DEF Forward
  <2> QED BY <1>1, <1>4, <2>1, <2>2, ForwardMoves, EarlierTimes
<1>5. CASE Register
  <2>1. at["receiver"] = "none" /\ at'["receiver"] # "process"
    <3>1. at["receiver"] = "none"
      BY <1>1, <1>5, ShapeHalves DEF Register, Places
    <3> QED BY <1>1, <1>5, <3>1 DEF Register, Goto, Threads, Flushers
  <2>2. Seen' = Seen
    BY <1>5, <2>1 DEF Register, store, Seen, Writing, Waiting, Flushed, Buffered, Held
  <2>3. UNCHANGED <<last, stamp>>
    BY <1>5 DEF Register
  <2>4. PICK how \in {"full", "unregistered"} : \E L : GivenUp(L, how)
    BY <1>1, <1>5, RegisterMoves
  <2> QED BY <1>1, <2>2, <2>3, <2>4, EarlierTimes
<1>6. CASE Read
  <2>1. Held = {} /\ at["receiver"] = "read" /\ at'["receiver"] = "process"
    <3>1. hand = <<>>
      BY <1>1, <1>6, ShapeHalves DEF Read, Places
    <3> QED BY <1>1, <1>6, <3>1, MembersNone DEF Read, Goto, Threads, Flushers, Held
  <2>2. Seen' = Seen
    BY <1>6, <2>1 DEF Read, store, Seen, Writing, Waiting, Flushed, Buffered
  <2>3. UNCHANGED <<last, stamp>>
    BY <1>6 DEF Read, source
  <2> QED BY <1>1, <1>6, <2>2, <2>3, ReadMoves, EarlierTimes
<1>7. ASSUME \/ Add \/ TimerFires \/ Look \/ Get \/ Insert \/ EndReceiving \/ Finish \/ InsertDirectly
             \/ \E f \in Flushers : Flush(f)
             \/ UNCHANGED vars,
             ~Process, ~Forward, ~Register
      PROVE  Times'
  <2>1. Unseen' = Unseen /\ UNCHANGED <<last, stamp>>
    BY <1>1, <1>7, RestUnseen
  <2>2. UNCHANGED sent
    BY <1>7 DEF Add, TimerFires, Look, Get, Insert, EndReceiving, Finish, InsertDirectly, Flush,
       PutBatch, DropOldest, PutAgain, vars, source
  <2>3. ~Enters
    <3>1. sent \in Nat
      BY LookedPublished
    <3> QED BY <2>2, <3>1 DEF Enters
  <2>4. \/ \E L, how : GivenUp(L, how) /\ (L = {} \/ how \in {"overrun", "failed"})
        \/ \E t \in Ids : Stores(t)
    BY <1>7, <2>3, Steps DEF Loses
  <2> QED BY <1>1, <2>1, <2>4, LaterTimes
<1> QED
  BY <1>2, <1>3, <1>4, <1>5, <1>6, <1>7 DEF Next, Discovery, Receiver, Timer, Writer, Flushers

LEMMA TimesInit == Init => Times
<1> SUFFICES ASSUME Init PROVE Times
  OBVIOUS
<1>1. Stored = {} /\ InFlight = {}
  BY MainInit, MembersNone DEF Init, Main, Traffic, Stored
<1>2. Passed = {} /\ Unseen = {}
  BY <1>1 DEF Passed, Seen, Unseen, InFlight
<1>3. Looked = {} /\ \A t \in Ids : fate[t] = "none"
  BY <1>2 DEF Looked, Init, Ids
<1> QED BY <1>2, <1>3 DEF Times, Init, Below

-----------------------------------------------------------------------------
(* The line of all places, from the rows to the wire.                      *)

InRow(q) ==
  /\ \A i \in DOMAIN q : Ascending(q[i])
  /\ \A i, j \in DOMAIN q : i < j => Below(Members(q[i]), Members(q[j]))

LEMMA ContentsConcat ==
  ASSUME NEW S, NEW p \in Seq(S), NEW q \in Seq(S)
  PROVE  Contents(p \o q) = Contents(p) \cup Contents(q)
<1> DEFINE m == Len(p)
           n == Len(q)
<1>1. /\ m \in Nat /\ n \in Nat /\ DOMAIN p = 1..m /\ DOMAIN q = 1..n
      /\ p \o q \in Seq(S) /\ DOMAIN (p \o q) = 1..(m + n)
      /\ \A i \in 1..(m + n) : (p \o q)[i] = IF i <= m THEN p[i] ELSE q[i - m]
  BY ConcatProperties, LenProperties
<1> HIDE DEF m, n
<1>2. /\ \A i \in 1..m : i \in 1..(m + n) /\ i <= m
      /\ \A i \in 1..n : i + m \in 1..(m + n) /\ ~(i + m <= m) /\ (i + m) - m = i
      /\ \A i \in 1..(m + n) : i <= m => i \in 1..m
      /\ \A i \in 1..(m + n) : ~(i <= m) => i - m \in 1..n
  BY <1>1
<1>3. Contents(p \o q) \subseteq Contents(p) \cup Contents(q)
  BY <1>1, <1>2 DEF Contents
<1>4. Contents(p) \subseteq Contents(p \o q)
  BY <1>1, <1>2 DEF Contents
<1>5. Contents(q) \subseteq Contents(p \o q)
  <2>1. \A i \in 1..n : (p \o q)[i + m] = q[i] /\ i + m \in DOMAIN (p \o q)
    BY <1>1, <1>2
  <2> QED BY <1>1, <2>1 DEF Contents
<1> QED BY <1>3, <1>4, <1>5

LEMMA RowConcat ==
  ASSUME NEW S, NEW p \in Seq(S), NEW q \in Seq(S),
         InRow(p), InRow(q), Below(Contents(p), Contents(q))
  PROVE  InRow(p \o q) /\ Contents(p \o q) = Contents(p) \cup Contents(q)
<1> DEFINE m == Len(p)
           n == Len(q)
<1>1. /\ m \in Nat /\ n \in Nat /\ DOMAIN p = 1..m /\ DOMAIN q = 1..n
      /\ p \o q \in Seq(S) /\ DOMAIN (p \o q) = 1..(m + n)
      /\ \A i \in 1..(m + n) : (p \o q)[i] = IF i <= m THEN p[i] ELSE q[i - m]
  BY ConcatProperties, LenProperties
<1> HIDE DEF m, n
<1>2. /\ \A i \in 1..m : i \in 1..(m + n) /\ i <= m
      /\ \A i \in 1..n : i + m \in 1..(m + n) /\ ~(i + m <= m) /\ (i + m) - m = i
      /\ \A i \in 1..(m + n) : i <= m => i \in 1..m
      /\ \A i \in 1..(m + n) : ~(i <= m) => i - m \in 1..n
  BY <1>1
<1>3. \A i \in DOMAIN (p \o q) : Ascending((p \o q)[i])
  BY <1>1, <1>2 DEF InRow
<1>4. ASSUME NEW i \in DOMAIN (p \o q), NEW j \in DOMAIN (p \o q), i < j
      PROVE  Below(Members((p \o q)[i]), Members((p \o q)[j]))
  <2>1. CASE i <= m /\ j <= m
    BY <1>1, <1>2, <1>4, <2>1 DEF InRow
  <2>2. CASE i <= m /\ ~(j <= m)
    <3>1. (p \o q)[i] = p[i] /\ (p \o q)[j] = q[j - m] /\ i \in 1..m /\ j - m \in 1..n
      BY <1>1, <1>2, <2>2
    <3>2. Members(p[i]) \subseteq Contents(p) /\ Members(q[j - m]) \subseteq Contents(q)
      BY <1>1, <3>1 DEF Contents
    <3> QED BY <3>1, <3>2 DEF Below
  <2>3. CASE ~(i <= m)
    <3>1. ~(j <= m) /\ i - m \in 1..n /\ j - m \in 1..n /\ i - m < j - m
      BY <1>1, <1>2, <1>4, <2>3
    <3>2. (p \o q)[i] = q[i - m] /\ (p \o q)[j] = q[j - m]
      BY <1>1, <2>3, <3>1
    <3> QED BY <1>1, <3>1, <3>2 DEF InRow
  <2> QED BY <2>1, <2>2, <2>3
<1> QED BY <1>3, <1>4, ContentsConcat DEF InRow

LEMMA LineInRow ==
  ASSUME Shape, Order, Ascending(rows), Below(Stored, InFlight)
  PROVE  InRow(Line)
<1> DEFINE front == <<rows, writing>>
           rear == <<batch["receiver"], batch["timer"], buffer, hand, stream, wire>>
<1>1. front \in Seq(Seq(Ids)) /\ queue \in Seq(Seq(Ids)) /\ rear \in Seq(Seq(Ids))
  BY SeqsTyped
<1>2. Chain(Writing, Waiting, Flushed, Buffered, Held, Streamed, Wired)
  BY DEF Order
<1>3. InRow(front) /\ Contents(front) = Stored \cup Writing
  <2>1. Below(Stored, Writing)
    BY DEF InFlight, Below
  <2>2. Ascending(rows) /\ Ascending(writing)
    BY DEF Order
  <2>3. DOMAIN front = {1, 2} /\ front[1] = rows /\ front[2] = writing
    OBVIOUS
  <2> HIDE DEF front
  <2> QED BY <2>1, <2>2, <2>3 DEF InRow, Contents, Stored, Writing
<1>4. InRow(queue) /\ Contents(queue) = Waiting
  BY DEF Order, InLine, InRow, Waiting
<1>5. InRow(rear) /\ Contents(rear) = Flushed \cup Buffered \cup Held \cup Streamed \cup Wired
  <2>1. /\ DOMAIN rear = {1, 2, 3, 4, 5, 6}
        /\ rear[1] = batch["receiver"] /\ rear[2] = batch["timer"] /\ rear[3] = buffer
        /\ rear[4] = hand /\ rear[5] = stream /\ rear[6] = wire
    OBVIOUS
  <2>2. Members(batch["receiver"]) = {} \/ Members(batch["timer"]) = {}
    <3>1. batch["receiver"] = <<>> \/ batch["timer"] = <<>>
      BY ShapeHalves DEF Places, Flushers
    <3> QED BY <3>1, MembersNone
  <2>3. \A i \in DOMAIN rear : Ascending(rear[i])
    <3>1. Ascending(hand)
      <4>1. CASE hand = <<>>
        BY <4>1, MembersNone
      <4>2. CASE hand # <<>>
        <5>1. hand = <<hand[1]>> /\ hand[1] \in Ids
          BY <4>2, InHand, ShapeHalves DEF Ids
        <5>2. hand[1] \in Nat
          BY <5>1, SeqsTyped
        <5> QED BY <5>1, <5>2, MembersOne
      <4> QED BY <4>1, <4>2
    <3>2. /\ Ascending(batch["receiver"]) /\ Ascending(batch["timer"])
          /\ Ascending(buffer) /\ Ascending(stream) /\ Ascending(wire)
      BY DEF Order, Flushers
    <3> HIDE DEF rear
    <3> QED BY <2>1, <3>1, <3>2
  <2>4. \A i, j \in DOMAIN rear : i < j => Below(Members(rear[i]), Members(rear[j]))
    <3>1. /\ Members(rear[1]) \subseteq Flushed /\ Members(rear[2]) \subseteq Flushed
          /\ Members(rear[3]) = Buffered /\ Members(rear[4]) = Held
          /\ Members(rear[5]) = Streamed /\ Members(rear[6]) = Wired
      BY <2>1 DEF Flushed, Buffered, Held, Streamed, Wired
    <3>2. Below(Members(rear[1]), Members(rear[2]))
      BY <2>1, <2>2 DEF Below
    <3>3. \A k \in {1, 2} : /\ Below(Members(rear[k]), Buffered) /\ Below(Members(rear[k]), Held)
                            /\ Below(Members(rear[k]), Streamed) /\ Below(Members(rear[k]), Wired)
      BY <1>2, <3>1 DEF Below, Chain
    <3>4. /\ Below(Buffered, Held) /\ Below(Buffered, Streamed) /\ Below(Buffered, Wired)
          /\ Below(Held, Streamed) /\ Below(Held, Wired) /\ Below(Streamed, Wired)
      BY <1>2 DEF Chain
    <3> HIDE DEF rear
    <3> SUFFICES ASSUME NEW i \in {1, 2, 3, 4, 5, 6}, NEW j \in {1, 2, 3, 4, 5, 6}, i < j
                 PROVE  Below(Members(rear[i]), Members(rear[j]))
      BY <2>1
    <3>5. CASE i \in {1, 2}
      BY <3>1, <3>2, <3>3, <3>5
    <3>6. CASE i \in {3, 4, 5}
      BY <3>1, <3>4, <3>6
    <3> QED BY <3>5, <3>6
  <2>5. Contents(rear) = Members(rear[1]) \cup Members(rear[2]) \cup Members(rear[3])
                           \cup Members(rear[4]) \cup Members(rear[5]) \cup Members(rear[6])
    <3> HIDE DEF rear
    <3> QED BY <2>1 DEF Contents
  <2> QED BY <2>1, <2>3, <2>4, <2>5 DEF InRow, Flushed, Buffered, Held, Streamed, Wired
<1> HIDE DEF front, rear
<1>6. InRow(front \o queue) /\ Contents(front \o queue) = Stored \cup Writing \cup Waiting
  <2>1. Below(Contents(front), Contents(queue))
    BY <1>2, <1>3, <1>4 DEF Chain, Below, InFlight
  <2>2. /\ InRow(front \o queue)
        /\ Contents(front \o queue) = Contents(front) \cup Contents(queue)
    BY <1>1, <1>3, <1>4, <2>1, RowConcat
  <2> QED BY <1>3, <1>4, <2>2
<1>7. front \o queue \in Seq(Seq(Ids))
  BY <1>1, ConcatProperties
<1>8. Below(Contents(front \o queue), Contents(rear))
  BY <1>2, <1>5, <1>6 DEF Chain, Below, InFlight
<1>9. InRow((front \o queue) \o rear)
  BY <1>1, <1>5, <1>6, <1>7, <1>8, RowConcat
<1> QED BY <1>9 DEF Line, front, rear

\* What the line holds, in whatever order.
LEMMA LineHolds ==
  ASSUME Shape
  PROVE  Contents(Line) = Stored \cup InFlight
<1> DEFINE front == <<rows, writing>>
           rear == <<batch["receiver"], batch["timer"], buffer, hand, stream, wire>>
<1>1. front \in Seq(Seq(Ids)) /\ queue \in Seq(Seq(Ids)) /\ rear \in Seq(Seq(Ids))
  BY SeqsTyped
<1>2. Contents(front) = Stored \cup Writing
  <2>1. DOMAIN front = {1, 2} /\ front[1] = rows /\ front[2] = writing
    OBVIOUS
  <2> HIDE DEF front
  <2> QED BY <2>1 DEF Contents, Stored, Writing
<1>3. Contents(rear) = Flushed \cup Buffered \cup Held \cup Streamed \cup Wired
  <2>1. /\ DOMAIN rear = {1, 2, 3, 4, 5, 6}
        /\ rear[1] = batch["receiver"] /\ rear[2] = batch["timer"] /\ rear[3] = buffer
        /\ rear[4] = hand /\ rear[5] = stream /\ rear[6] = wire
    OBVIOUS
  <2>2. Contents(rear) = Members(rear[1]) \cup Members(rear[2]) \cup Members(rear[3])
                           \cup Members(rear[4]) \cup Members(rear[5]) \cup Members(rear[6])
    <3> HIDE DEF rear
    <3> QED BY <2>1 DEF Contents
  <2> QED BY <2>1, <2>2 DEF Flushed, Buffered, Held, Streamed, Wired
<1> HIDE DEF front, rear
<1>4. /\ front \o queue \in Seq(Seq(Ids))
      /\ Contents(front \o queue) = Contents(front) \cup Contents(queue)
  BY <1>1, ConcatProperties, ContentsConcat
<1>5. Contents((front \o queue) \o rear) = Contents(front \o queue) \cup Contents(rear)
  <2> DEFINE first == front \o queue
  <2>1. first \in Seq(Seq(Ids))
    BY <1>4
  <2> HIDE DEF first
  <2>2. Contents(first \o rear) = Contents(first) \cup Contents(rear)
    BY <1>1, <2>1, ContentsConcat
  <2> QED BY <2>2 DEF first
<1> QED BY <1>2, <1>3, <1>4, <1>5 DEF Line, front, rear, InFlight, Waiting

\* A tick that was published is under way or stored, unless it was given up.
Accounted == \A t \in 1..sent : fate[t] = "none" => t \in Stored \cup InFlight

LEMMA AccountedNext ==
  ASSUME Main, Accounted, [Next]_vars
  PROVE  Accounted'
<1>1. /\ sent \in Nat /\ InFlight \subseteq Ids /\ Ids = 1..Ticks
      /\ 1..sent \subseteq Ids /\ rows \in Seq(Ids)
  <2>1. Shape
    BY DEF Main
  <2>2. InFlight \subseteq Ids /\ rows \in Seq(Ids)
    BY <2>1, PlacesTyped, SeqsTyped
  <2>3. sent \in 0..Ticks /\ Ticks \in Nat
    BY <2>1, ShapeHalves, TickAssumption DEF Data
  <2> QED BY <2>2, <2>3 DEF Ids
<1>2. CASE Enters
  <2>1. /\ sent' = sent + 1 /\ Stored' = Stored
        /\ \A t \in Ids : t # sent + 1 => fate'[t] = fate[t]
        /\ \/ InFlight' = InFlight \cup {sent + 1}
           \/ InFlight' = InFlight /\ fate'[sent + 1] = "wire"
    BY <1>1, <1>2 DEF Enters, Stored
  <2>2. \A t \in 1..sent' : t = sent + 1 \/ t \in 1..sent
    BY <1>1, <2>1
  <2> QED BY <1>1, <2>1, <2>2 DEF Accounted
<1>3. ASSUME NEW L, NEW how \in Losses, GivenUp(L, how)
      PROVE  Accounted'
  <2>1. how # "none"
    BY <1>3 DEF Losses
  <2> QED BY <1>1, <1>3, <2>1 DEF GivenUp, Leave, Stored, Accounted
<1>4. ASSUME NEW t \in Ids, Stores(t)
      PROVE  Accounted'
  <2>1. Stored' = Stored \cup {t}
    <3>1. rows' = Append(rows, t)
      BY <1>4 DEF Stores
    <3>2. rows \in Seq(Ids) /\ t \in Ids
      BY <1>1
    <3>3. Members(Append(rows, t)) = Members(rows) \cup {t}
      BY <3>2, MembersAppend
    <3> QED BY <3>1, <3>3 DEF Stored
  <2>2. InFlight' = InFlight \ {t} /\ sent' = sent /\ \A u \in Ids : fate'[u] = fate[u]
    BY <1>1, <1>4 DEF Stores, Leave
  <2> QED BY <1>1, <2>1, <2>2 DEF Accounted
<1> QED BY <1>2, <1>3, <1>4, Steps

-----------------------------------------------------------------------------
(* The theorems.                                                           *)

\* Types of the pipeline, with the bounds its stores keep: the buffer never holds
\* as many ticks as fill a batch (the overflow branch of _add_tick_to_buffer is
\* not reached), and the write queue has room whenever a thread puts again after
\* it gave up the oldest batch (so are not the queue.Full handlers of that put).
THEOREM TypeOKHolds == Spec => []TypeOK
<1>1. Main => TypeOK
  BY DEF Main, Shape
<1> QED BY <1>1, MainHolds, PTL

\* No thread overtakes another: the lock held over a whole flush keeps what is
\* under way, and the rows with their times, in the order of publishing, until
\* the receiving thread writes by itself at its end.
THEOREM InOrderHolds == Spec => []InOrder
<1> DEFINE Inv == Main /\ Rowed /\ Times
<1>1. Init => Inv
  BY MainInit, RowedInit, TimesInit
<1>2. Inv /\ [Next]_vars => Inv'
  BY Steps, RowedNext, TimesNext
<1>3. ASSUME Inv PROVE InOrder
  <2> SUFFICES ASSUME ~direct
               PROVE  /\ InRow(Line)
                      /\ \A i, j \in DOMAIN rows : i < j => stamp[rows[i]] <= stamp[rows[j]]
    BY DEF InOrder, InRow, Ascending, Below
  <2>1. Ascending(rows) /\ Below(Stored, InFlight) /\ Shape /\ Order /\ Times
    BY <1>3 DEF Rowed, Main
  <2>2. InRow(Line)
    BY <2>1, LineInRow
  <2>3. \A i \in DOMAIN rows : rows[i] \in Passed
    BY DEF Passed, Stored, Members
  <2>4. \A i, j \in DOMAIN rows : i < j => stamp[rows[i]] <= stamp[rows[j]]
    BY <2>1, <2>3 DEF Ascending, Times
  <2> QED BY <2>2, <2>4
<1> QED BY <1>1, <1>2, <1>3, PTL DEF Spec

\* A batch that a full write queue drops (get_nowait in _add_to_write_queue) is
\* older than every tick that still waits there.
THEOREM OldestGivenUpHolds == Spec => []OldestGivenUp
<1> DEFINE Inv == Main /\ Overran
<1>1. Init => Inv
  BY MainInit, OverranInit
<1>2. Inv /\ [Next]_vars => Inv'
  BY Steps, OverranNext
<1>3. Inv => OldestGivenUp
  BY DEF Overran, OldestGivenUp, Below, Behind, Waiting, Contents, Ids
<1> QED BY <1>1, <1>2, <1>3, PTL DEF Spec

\* _validate_tick_order refuses a tick only when an earlier one that was looked
\* at has a later time.
THEOREM LateExplainedHolds == Spec => []LateExplained
<1> DEFINE Inv == Main /\ Times
<1>1. Init => Inv
  BY MainInit, TimesInit
<1>2. Inv /\ [Next]_vars => Inv'
  BY Steps, TimesNext
<1>3. ASSUME Inv PROVE LateExplained
  <2> SUFFICES ASSUME NEW t \in Ids, fate[t] = "late"
               PROVE  \E u \in 1..(t - 1) :
                        /\ stamp[u] > stamp[t]
                        /\ fate[u] \notin {"wire", "unregistered", "full", "invalid", "late"}
    BY DEF LateExplained, Ids
  <2>1. PICK u \in Looked : u < t /\ stamp[u] > stamp[t]
    BY <1>3 DEF Times
  <2>2. u \in 1..sent /\ t \in Nat
    BY <1>3, LookedPublished
  <2>3. u \in 1..(t - 1)
    BY <2>1, <2>2
  <2>4. fate[u] \in {"none", "rejected", "overrun", "failed"}
    BY <1>3 DEF Main, Traffic, Looked, Passed, Seen, InFlight
  <2> QED BY <2>1, <2>3, <2>4
<1> QED BY <1>1, <1>2, <1>3, PTL DEF Spec

\* Whichever thread has a tick in hand, none forgets it: what was published is
\* under way, a row, or given up for a reason, and what was given up is nowhere.
THEOREM NothingVanishesHolds == Spec => []NothingVanishes
<1> DEFINE Inv == Main /\ Accounted
<1>1. Init => Inv
  <2>1. Init => Accounted
    BY DEF Init, Accounted
  <2> QED BY <2>1, MainInit
<1>2. Inv /\ [Next]_vars => Inv'
  BY Steps, AccountedNext
<1>3. ASSUME Inv PROVE NothingVanishes
  <2>1. Contents(Line) = Stored \cup InFlight
    BY <1>3, LineHolds DEF Main
  <2>2. \A t : (\E i \in DOMAIN Line : t \in Members(Line[i])) <=> t \in Contents(Line)
    BY DEF Contents
  <2>3. \A t \in Stored \cup InFlight : fate[t] = "none"
    BY <1>3 DEF Main, Traffic
  <2> QED BY <1>3, <2>1, <2>2, <2>3 DEF Accounted, NothingVanishes
<1> QED BY <1>1, <1>2, <1>3, PTL DEF Spec

\* The pipeline implements the feed: every tick that was published is stored at
\* most once, and what was given up is never stored.
THEOREM ImplementsFeed == Spec => FeedSpec
<1> DEFINE lost == {t \in 1..Ticks : fate[t] # "none"}
<1>1. Init => Feed!Init
  BY DEF Init, Feed!Init
<1>2. ASSUME Main, [Next]_vars
      PROVE  [Feed!Next]_<<sent, rows, lost>>
  <2>1. /\ Shape /\ Traffic /\ sent \in Nat /\ lost = {t \in Ids : fate[t] # "none"}
        /\ lost' = {t \in Ids : fate'[t] # "none"}
    BY <1>2, LookedPublished DEF Main, Ids
  <2>2. Feed!Stored = Stored
    BY DEF Feed!Stored, Stored, Members
  <2>3. InFlight \subseteq 1..sent /\ InFlight \subseteq Ids /\ InFlight \cap (Stored \cup lost) = {}
    BY <2>1, PlacesTyped DEF Traffic
  <2> HIDE DEF lost
  <2>4. CASE Enters
    <3> DEFINE n == sent + 1
    <3>1. /\ sent' = n /\ n \in Ids /\ rows' = rows
          /\ \A t \in Ids : t # n => fate'[t] = fate[t]
          /\ fate'[n] = fate[n] \/ fate'[n] = "wire"
      BY <2>4 DEF Enters, Ids
    <3>2. n \notin Stored \cup lost /\ fate[n] = "none" /\ n \in 1..(sent + 1)
      BY <2>1, <3>1 DEF Traffic
    <3> HIDE DEF n
    <3>3. CASE fate'[n] = fate[n]
      <4>1. lost' = lost
        BY <2>1, <3>1, <3>3
      <4> QED BY <3>1, <4>1 DEF Feed!Next, Feed!Publish, n, lost
    <3>4. CASE fate'[n] = "wire"
      <4>1. PICK L : L = {n}
        OBVIOUS
      <4>2. lost' = lost \cup L
        BY <2>1, <3>1, <3>4, <4>1
      <4>3. L \subseteq Feed!Open(1..sent') /\ L # {} /\ L \in SUBSET (1..(sent + 1))
        BY <2>2, <3>1, <3>2, <4>1 DEF Feed!Open, n, lost
      <4>4. Feed!Lose(L)
        BY <3>1, <4>2, <4>3 DEF Feed!Lose, n, lost
      <4> QED BY <4>3, <4>4 DEF Feed!Next
    <3> QED BY <3>1, <3>3, <3>4
  <2>5. ASSUME NEW L, NEW how \in Losses, GivenUp(L, how)
        PROVE  [Feed!Next]_<<sent, rows, lost>>
    <3>1. /\ L \subseteq InFlight /\ sent' = sent /\ rows' = rows
          /\ \A t \in Ids : t \notin L => fate'[t] = fate[t]
          /\ \A t \in L : fate'[t] # "none"
      BY <2>5 DEF GivenUp, Leave, Ids, Losses
    <3>2. lost' = lost \cup L
      BY <2>1, <2>3, <3>1
    <3>3. CASE L = {}
      BY <3>1, <3>2, <3>3
    <3>4. CASE L # {}
      <4>1. L \subseteq Feed!Open(1..sent')
        BY <2>2, <2>3, <3>1 DEF Feed!Open, lost
      <4>2. Feed!Lose(L)
        BY <3>1, <3>2, <3>4, <4>1 DEF Feed!Lose, lost
      <4>3. L \in SUBSET (1..(sent + 1))
        BY <2>1, <2>3, <3>1
      <4> QED BY <4>2, <4>3 DEF Feed!Next
    <3> QED BY <3>3, <3>4
  <2>6. ASSUME NEW t \in Ids, Stores(t)
        PROVE  [Feed!Next]_<<sent, rows, lost>>
    <3>1. /\ t \in InFlight /\ sent' = sent /\ rows' = Append(rows, t)
          /\ \A u \in Ids : fate'[u] = fate[u]
      BY <2>6 DEF Stores, Leave, Ids
    <3>2. lost' = lost
      BY <2>1, <3>1
    <3>3. t \in 1..sent /\ t \in Feed!Open(1..sent)
      BY <2>2, <2>3, <3>1 DEF Feed!Open, lost
    <3> QED BY <3>1, <3>2, <3>3 DEF Feed!Next, Feed!Store, lost
  <2> QED BY <1>2, <2>4, <2>5, <2>6, Steps
<1> QED BY <1>1, <1>2, MainHolds, PTL DEF Spec, FeedSpec, Feed!Spec

=============================================================================
