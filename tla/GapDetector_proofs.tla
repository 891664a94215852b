------------------------ MODULE GapDetector_proofs ------------------------
(***************************************************************************)
(* Proofs about GapDetector: types, that a gap whose length is covered by  *)
(* the lookback is reported whatever the phase of the checks, that an      *)
(* announcement for the whole system is about many symbols, and how often  *)
(* a gap is repeated.                                                      *)
(***************************************************************************)
EXTENDS GapDetector, FiniteSetTheorems, TLAPS

(* The part of TypeOK that the other proofs use.                           *)
Typed ==
  /\ config \in [threshold : Nat, interval : Nat \ {0}, lookback : Nat]
  /\ config.threshold >= Minute
  /\ now \in 0 .. MaxTime
  /\ ticks \in [Symbols -> SUBSET (0 .. (now + Ahead))]
  /\ wake \in Nat
  /\ failedAt \in 0 .. now
  /\ up => wake \in now .. (now + config.interval + Jitter)

(* Consecutive(from) of a table of ticks that need not be the current one. *)
ConsecutiveIn(table, from) ==
  UNION {LET seen == {t \in table[s] : t >= from}
         IN  {g \in [symbol : {s}, start : seen, end : seen] :
                /\ g.start < g.end
                /\ \A t \in seen : ~ (g.start < t /\ t < g.end)}
         : s \in Symbols}

IsPair(table, g) ==
  /\ g \in Gap
  /\ g.start \in table[g.symbol]
  /\ g.end \in table[g.symbol]
  /\ g.start < g.end
  /\ \A t \in table[g.symbol] : ~ (g.start < t /\ t < g.end)

(* What ConsecutiveIn returns: the neighbours that are young enough.       *)
LEMMA ConsecutiveMeaning ==
  ASSUME NEW table \in [Symbols -> SUBSET Times], NEW from \in Int, NEW g
  PROVE  g \in ConsecutiveIn(table, from) <=> IsPair(table, g) /\ from <= g.start
<1>0. Times \subseteq Int
  BY DEF Times
<1>1. ASSUME g \in ConsecutiveIn(table, from)
      PROVE  IsPair(table, g) /\ from <= g.start
  <2>1. PICK s \in Symbols :
          /\ g \in [symbol : {s}, start : {t \in table[s] : t >= from},
                    end : {t \in table[s] : t >= from}]
          /\ g.start < g.end
          /\ \A t \in {t \in table[s] : t >= from} : ~ (g.start < t /\ t < g.end)
    BY <1>1 DEF ConsecutiveIn
  <2>2. table[s] \subseteq Times
    OBVIOUS
  <2>3. /\ g.symbol = s
        /\ g.start \in table[s] /\ g.start >= from
        /\ g.end \in table[s]
    BY <2>1
  <2>4. g \in Gap
    <3> DEFINE seen == {t \in table[s] : t >= from}
    <3>1. seen \subseteq Times /\ {s} \subseteq Symbols
      BY <2>2
    <3>2. g \in [symbol : {s}, start : seen, end : seen]
      BY <2>1
    <3> HIDE DEF seen
    <3> QED BY <3>1, <3>2 DEF Gap
  <2>5. ASSUME NEW t \in table[g.symbol], g.start < t, t < g.end PROVE FALSE
    <3>1. t \in table[s]
      BY <2>5, <2>3
    <3>2. t \in Int /\ g.start \in Int
      BY <3>1, <2>3, <2>2, <1>0
    <3>3. t >= from
      BY <3>2, <2>5, <2>3
    <3> QED BY <3>1, <3>3, <2>5, <2>1
  <2>6. from <= g.start
    BY <2>3, <2>2, <1>0
  <2> QED BY <2>1, <2>3, <2>4, <2>5, <2>6 DEF IsPair
<1>2. ASSUME IsPair(table, g), from <= g.start
      PROVE  g \in ConsecutiveIn(table, from)
  <2> DEFINE seen == {t \in table[g.symbol] : t >= from}
  <2>1. g.symbol \in Symbols /\ g.start \in Int /\ g.end \in Int
    BY <1>2, <1>0 DEF IsPair, Gap
  <2>2. g.start >= from /\ g.end >= from
    BY <1>2, <2>1 DEF IsPair
  <2>3. g \in [symbol : {g.symbol}, start : seen, end : seen]
    BY <1>2, <2>2 DEF IsPair, Gap
  <2>4. \A t \in seen : ~ (g.start < t /\ t < g.end)
    BY <1>2 DEF IsPair
  <2> QED BY <1>2, <2>1, <2>3, <2>4 DEF ConsecutiveIn, IsPair
<1> QED BY <1>1, <1>2

(* What Typed says of the ticks and the numbers, in the terms of Gap.      *)
LEMMA TickTimes ==
  ASSUME Typed
  PROVE  /\ ticks \in [Symbols -> SUBSET Times] /\ Times \subseteq Int
         /\ {now, wake, Jitter, Delay, Ahead} \subseteq Int
         /\ {config.interval, config.lookback, config.threshold} \subseteq Int
<1>1. {now, MaxTime, Ahead} \subseteq Nat /\ now <= MaxTime
  BY NumberAssumption DEF Typed
<1>2. 0 .. (now + Ahead) \subseteq Times
  BY <1>1 DEF Times
<1>3. Times \subseteq Int
  BY <1>1 DEF Times
<1>4. ticks \in [Symbols -> SUBSET Times]
  BY <1>2 DEF Typed
<1> QED BY <1>3, <1>4, NumberAssumption DEF Typed

THEOREM TypedInv == Spec => []Typed
<1> USE NumberAssumption
<1>1. Init => Typed
  BY ConfigAssumption, ThresholdAssumption DEF Init, Typed, Times
<1>2. Typed /\ [Next]_vars => Typed'
  <2> SUFFICES ASSUME Typed, [Next]_vars PROVE Typed'
    OBVIOUS
  <2> USE DEF Typed
  <2>1. ASSUME NEW s \in Symbols, StoreTick(s) PROVE Typed'
    <3>1. ticks' \in [Symbols -> SUBSET (0 .. (now + Ahead))]
      <4>1. PICK t \in Times \cap ((now - Delay) .. (now + Ahead)) :
              ticks' = [ticks EXCEPT ![s] = @ \cup {t}]
        BY <2>1 DEF StoreTick
      <4>2. t \in 0 .. (now + Ahead)
        BY <4>1 DEF Times
      <4> QED BY <4>1, <4>2
    <3> QED BY <2>1, <3>1 DEF StoreTick
  <2>2. ASSUME Check PROVE Typed'
    BY <2>2 DEF Check, Sleep, Times
  <2>3. ASSUME CheckNothing PROVE Typed'
    BY <2>3 DEF CheckNothing, Sleep, Times
  <2>4. ASSUME HealthCheck PROVE Typed'
    BY <2>4 DEF HealthCheck
  <2>5. ASSUME Stop PROVE Typed'
    BY <2>5 DEF Stop
  <2>6. ASSUME Start PROVE Typed'
    BY <2>6 DEF Start, Times
  <2>7. ASSUME Advance PROVE Typed'
    <3>1. now \in Int /\ now + 1 \in 0 .. MaxTime /\ now' = now + 1
      BY <2>7 DEF Advance
    <3>2. 0 .. (now + Ahead) \subseteq 0 .. (now' + Ahead)
      BY <3>1
    <3>3. ticks' \in [Symbols -> SUBSET (0 .. (now' + Ahead))]
      BY <2>7, <3>2 DEF Advance
    <3>4. up' => wake' \in now' .. (now' + config'.interval + Jitter)
      BY <2>7, <3>1 DEF Advance, Waiting
    <3> QED BY <2>7, <3>1, <3>2, <3>3, <3>4 DEF Advance
  <2>8. ASSUME UNCHANGED vars PROVE Typed'
    BY <2>8 DEF vars, counters
  <2> QED BY <2>1, <2>2, <2>3, <2>4, <2>5, <2>6, <2>7, <2>8 DEF Next
<1> QED BY <1>1, <1>2, PTL DEF Spec
(***************************************************************************)
(* The inductive form of CoveredGapsReported: a gap that the loop has not  *)
(* reported yet ended so late that the next check is at most one interval  *)
(* after its last tick is sure to be in the database.                      *)
(***************************************************************************)
Coverable(g) ==
  /\ Length(g) > config.threshold
  /\ Length(g) <= config.lookback - config.interval - Jitter - Delay
  /\ g.end > failedAt

Pending ==
  up => \A g \in Consecutive(0) :
          Coverable(g) =>
            Reported(g) \/ wake <= g.end + Delay + config.interval + Jitter

LEMMA ConsecutiveNow ==
  ASSUME NEW from
  PROVE  /\ Consecutive(from) = ConsecutiveIn(ticks, from)
         /\ Consecutive(from)' = ConsecutiveIn(ticks', from')
  BY DEF Consecutive, ConsecutiveIn, PairsOf

(* A gap that a new tick makes ends with it, not longer ago than a tick    *)
(* takes to reach the database.                                            *)
LEMMA NewTickEndsGap ==
  ASSUME Typed, Typed', NEW s \in Symbols, StoreTick(s), NEW g \in Consecutive(0)'
  PROVE  g \in Consecutive(0) \/ now <= g.end + Delay
<1>1. PICK t \in Times \cap ((now - Delay) .. (now + Ahead)) :
        /\ \A u \in ticks[s] : u < t
        /\ ticks' = [ticks EXCEPT ![s] = @ \cup {t}]
  BY DEF StoreTick
<1>2. /\ ticks \in [Symbols -> SUBSET Times] /\ ticks' \in [Symbols -> SUBSET Times]
      /\ Times \subseteq Int /\ {now, Delay, Ahead} \subseteq Int
  BY TickTimes, <1>1
<1>3. t \in Int /\ now <= t + Delay
  BY <1>1, <1>2
<1>4. IsPair(ticks', g) /\ 0 <= g.start
  BY <1>2, ConsecutiveMeaning, ConsecutiveNow
<1> SUFFICES ASSUME g.end # t PROVE g \in Consecutive(0)
  BY <1>3
<1>5. /\ g.symbol \in Symbols /\ ticks[g.symbol] \subseteq ticks'[g.symbol]
      /\ ticks'[g.symbol] \subseteq ticks[g.symbol] \cup {t}
  BY <1>1, <1>2, <1>4 DEF IsPair, Gap
<1>6. g.end \in ticks[g.symbol] /\ g.end \in Int
  BY <1>2, <1>4, <1>5 DEF IsPair, Gap
<1>7. g.start \in Int /\ g.start < g.end
  BY <1>2, <1>4 DEF IsPair, Gap
<1>8. g.start \in ticks[g.symbol]
  <2>1. CASE g.symbol = s
    <3>1. g.start < t
      BY <1>1, <1>3, <1>6, <1>7, <2>1
    <3> QED BY <1>3, <1>4, <1>5, <3>1 DEF IsPair
  <2>2. CASE g.symbol # s
    BY <1>1, <1>2, <1>4, <1>5, <2>2 DEF IsPair
  <2> QED BY <2>1, <2>2
<1>9. IsPair(ticks, g)
  BY <1>4, <1>5, <1>6, <1>8 DEF IsPair
<1> QED BY <1>2, <1>4, <1>9, ConsecutiveMeaning, ConsecutiveNow

(* A coverable gap that the next check is due to find is in its window.    *)
LEMMA CheckSees ==
  ASSUME Typed, now = wake, NEW g \in Consecutive(0), Coverable(g),
         wake <= g.end + Delay + config.interval + Jitter
  PROVE  g \in Detected
<1>1. /\ {now, Jitter, Delay} \subseteq Int /\ Times \subseteq Int
      /\ config.interval \in Int /\ config.lookback \in Int
  BY TickTimes
<1>2. ticks \in [Symbols -> SUBSET Times]
  BY TickTimes
<1>3. IsPair(ticks, g)
  BY <1>2, ConsecutiveMeaning, ConsecutiveNow
<1>4. g.start \in Int /\ g.end \in Int
  BY <1>3, <1>1 DEF IsPair, Gap
<1>5. now - config.lookback <= g.start
  BY <1>1, <1>4 DEF Coverable, Length
<1>6. now - config.lookback \in Int
  BY <1>1
<1>7. g \in ConsecutiveIn(ticks, now - config.lookback)
  BY <1>2, <1>3, <1>5, <1>6, ConsecutiveMeaning
<1>8. Consecutive(LookbackTime) = ConsecutiveIn(ticks, now - config.lookback)
  BY DEF Consecutive, ConsecutiveIn, PairsOf, LookbackTime
<1> QED BY <1>7, <1>8 DEF Detected, Coverable
(* Pending is kept by every step.                                          *)
LEMMA PendingInit == Init => Pending
  BY DEF Init, Pending, Consecutive, PairsOf

LEMMA PendingNext == Typed /\ Typed' /\ Pending /\ [Next]_vars => Pending'
<1> SUFFICES ASSUME Typed, Typed', Pending, [Next]_vars, up',
                    NEW g \in Consecutive(0)', Coverable(g)'
             PROVE  Reported(g)' \/ wake' <= g.end + Delay + config'.interval + Jitter
  BY DEF Pending
<1>0. /\ {now, wake, Delay, Jitter} \subseteq Nat
      /\ config.interval \in Nat /\ config.lookback \in Nat
      /\ Times \subseteq Int
  BY NumberAssumption, TickTimes DEF Typed
<1>t. ticks' \in [Symbols -> SUBSET Times]
  <2>1. {now', MaxTime, Ahead} \subseteq Nat /\ now' <= MaxTime
    BY NumberAssumption DEF Typed
  <2>2. 0 .. (now' + Ahead) \subseteq Times
    BY <2>1 DEF Times
  <2> QED BY <2>2 DEF Typed
<1>g. g.end \in Int
  <2>1. IsPair(ticks', g)
    BY <1>t, ConsecutiveMeaning, ConsecutiveNow
  <2> QED BY <2>1, <1>0 DEF IsPair, Gap
<1>s. ASSUME UNCHANGED <<config, ticks, wake, up>>, failedAt' = failedAt, log \subseteq log'
      PROVE  Reported(g)' \/ wake' <= g.end + Delay + config'.interval + Jitter
  <2>1. g \in Consecutive(0) /\ Coverable(g) /\ up
    BY <1>s, ConsecutiveNow DEF Coverable, Length
  <2>2. Reported(g) \/ wake <= g.end + Delay + config.interval + Jitter
    BY <2>1 DEF Pending
  <2> QED BY <2>2, <1>s DEF Reported
<1>1. ASSUME NEW s \in Symbols, StoreTick(s)
      PROVE  Reported(g)' \/ wake' <= g.end + Delay + config'.interval + Jitter
  <2>1. g \in Consecutive(0) \/ now <= g.end + Delay
    BY <1>1, NewTickEndsGap
  <2>2. CASE now <= g.end + Delay
    BY <1>1, <2>2, <1>0, <1>g DEF StoreTick, Typed
  <2>3. CASE g \in Consecutive(0)
    <3>1. Coverable(g) /\ up
      BY <1>1 DEF StoreTick, Coverable, Length
    <3>2. Reported(g) \/ wake <= g.end + Delay + config.interval + Jitter
      BY <2>3, <3>1 DEF Pending
    <3> QED BY <3>2, <1>1 DEF StoreTick, Reported
  <2> QED BY <2>1, <2>2, <2>3
<1>2. ASSUME Check
      PROVE  Reported(g)' \/ wake' <= g.end + Delay + config'.interval + Jitter
  <2>1. g \in Consecutive(0) /\ Coverable(g) /\ up /\ now = wake
    BY <1>2, ConsecutiveNow DEF Check, Coverable, Length
  <2>2. CASE Reported(g)
    BY <2>2, <1>2 DEF Check, LogGaps, Reported
  <2>3. CASE wake <= g.end + Delay + config.interval + Jitter
    <3>1. g \in Detected
      BY <2>1, <2>3, CheckSees
    <3>2. [gap |-> g, at |-> now, by |-> "loop"] \in log'
      BY <3>1, <1>2 DEF Check, LogGaps
    <3> QED BY <3>2 DEF Reported
  <2> QED BY <2>1, <2>2, <2>3 DEF Pending
<1>3. ASSUME CheckNothing \/ Start
      PROVE  Reported(g)' \/ wake' <= g.end + Delay + config'.interval + Jitter
  <2>1. failedAt' = now /\ now' = now /\ config' = config
    BY <1>3 DEF CheckNothing, Start
  <2>2. wake' <= now + config.interval + Jitter /\ wake' \in Int
    BY <2>1 DEF Typed
  <2> QED BY <2>1, <2>2, <1>g, <1>0 DEF Coverable
<1>4. ASSUME HealthCheck
      PROVE  Reported(g)' \/ wake' <= g.end + Delay + config'.interval + Jitter
  BY <1>4, <1>s DEF HealthCheck, LogGaps
<1>5. CASE Stop
  BY <1>5 DEF Stop
<1>6. ASSUME Advance \/ UNCHANGED vars
      PROVE  Reported(g)' \/ wake' <= g.end + Delay + config'.interval + Jitter
  BY <1>6, <1>s DEF Advance, vars
<1> QED BY <1>1, <1>2, <1>3, <1>4, <1>5, <1>6 DEF Next

(***************************************************************************)
(* Whatever the phase and the lateness of the checks and of the rows, a    *)
(* gap longer than the threshold is reported by the first check that its   *)
(* last tick is in the database for, if it is not longer than the lookback *)
(* less one interval and the two latenesses.                               *)
(***************************************************************************)
THEOREM GapsReported == Spec => []CoveredGapsReported
<1>1. Typed /\ Pending => CoveredGapsReported
  <2> SUFFICES ASSUME Typed, Pending, NEW g \in Consecutive(0), Due(g),
                      Length(g) <= config.lookback - config.interval - Jitter - Delay
               PROVE  Reported(g)
    BY DEF CoveredGapsReported
  <2>1. Reported(g) \/ wake <= g.end + Delay + config.interval + Jitter
    BY DEF Pending, Coverable, Due
  <2>2. /\ Times \subseteq Int /\ {now, wake, Delay, Jitter} \subseteq Int /\ now <= wake
        /\ config.interval \in Int
    BY TickTimes DEF Typed, Due
  <2>3. ticks \in [Symbols -> SUBSET Times]
    BY TickTimes
  <2>4. g.end \in Int
    BY <2>2, <2>3, ConsecutiveMeaning, ConsecutiveNow DEF IsPair, Gap
  <2> QED BY <2>1, <2>2, <2>4 DEF Due
<1> QED BY TypedInv, PendingInit, PendingNext, <1>1, PTL DEF Spec
-----------------------------------------------------------------------------
(* What a check finds lies between ticks and is longer than the threshold. *)
LEMMA DetectedGaps ==
  ASSUME Typed, NEW g \in Detected
  PROVE  IsPair(ticks, g) /\ Length(g) > config.threshold
<1>1. config.lookback \in Int /\ now \in Int
  BY TickTimes
<1>2. ticks \in [Symbols -> SUBSET Times]
  BY TickTimes
<1>3. LookbackTime \in Int
  BY <1>1 DEF LookbackTime
<1>4. g \in ConsecutiveIn(ticks, LookbackTime)
  BY DEF Detected, Consecutive, ConsecutiveIn, PairsOf
<1> QED BY <1>2, <1>3, <1>4, ConsecutiveMeaning DEF Detected

(* Two gaps of one symbol that start in one minute are the same gap.       *)
LEMMA OneGapPerMinute ==
  ASSUME Typed, NEW g \in Detected, NEW h \in Detected,
         g.symbol = h.symbol, Window(g) = Window(h)
  PROVE  g = h
<1>1. /\ IsPair(ticks, g) /\ IsPair(ticks, h)
      /\ Length(g) > config.threshold /\ Length(h) > config.threshold
  BY DetectedGaps
<1>2. /\ Minute \in Int /\ Minute > 0
      /\ config.threshold \in Int /\ config.threshold >= Minute
      /\ Times \subseteq Int
  BY NumberAssumption, TickTimes DEF Typed
<1>3. g \in Gap /\ h \in Gap
  BY <1>1 DEF IsPair
<1>4. {g.start, g.end, h.start, h.end} \subseteq Int
  BY <1>2, <1>3 DEF Gap
<1>5. g.end > g.start + Minute /\ h.end > h.start + Minute
  BY <1>1, <1>2, <1>4 DEF Length
<1>6. g.start < h.start + Minute /\ h.start < g.start + Minute
  BY <1>2, <1>4 DEF Window
<1>7. /\ ~ (g.start < h.start /\ h.start < g.end)
      /\ ~ (h.start < g.start /\ g.start < h.end)
      /\ ~ (g.start < h.end /\ h.end < g.end)
      /\ ~ (h.start < g.end /\ g.end < h.end)
  BY <1>1 DEF IsPair
<1>8. g.start = h.start
  BY <1>4, <1>5, <1>6, <1>7, <1>2
<1>9. g.end = h.end
  BY <1>4, <1>5, <1>7, <1>8, <1>2
<1> QED BY <1>3, <1>8, <1>9 DEF Gap

(* The gaps of an announcement are many, and no two are of one symbol.     *)
WideTyped ==
  \A w \in wide :
    /\ Cardinality(w.gaps) >= WideCount
    /\ \A g \in w.gaps : g.symbol \in Symbols
    /\ \A g, h \in w.gaps : g.symbol = h.symbol => g = h

LEMMA WideInit == Init => WideTyped
  BY DEF Init, WideTyped

LEMMA AnnouncedGaps ==
  ASSUME Typed, NEW w \in SystemWide(Detected)
  PROVE  /\ Cardinality(w) >= WideCount
         /\ \A g \in w : g.symbol \in Symbols
         /\ \A g, h \in w : g.symbol = h.symbol => g = h
<1>1. PICK m \in Detected : w = {g \in Detected : Window(g) = Window(m)}
  BY DEF SystemWide
<1>2. Cardinality(w) >= WideCount
  BY DEF SystemWide
<1>3. \A g \in w : g.symbol \in Symbols
  BY <1>1, DetectedGaps DEF IsPair, Gap
<1>4. ASSUME NEW g \in w, NEW h \in w, g.symbol = h.symbol PROVE g = h
  BY <1>1, <1>4, OneGapPerMinute
<1> QED BY <1>2, <1>3, <1>4

LEMMA WideNext == Typed /\ WideTyped /\ [Next]_vars => WideTyped'
<1> SUFFICES ASSUME Typed, WideTyped, [Next]_vars PROVE WideTyped'
  OBVIOUS
<1>1. ASSUME NEW c \in Callers, LogGaps(c) PROVE WideTyped'
  <2>1. wide' = wide \cup {[gaps |-> w, at |-> now] : w \in SystemWide(Detected)}
    BY <1>1 DEF LogGaps
  <2> SUFFICES ASSUME NEW r \in wide'
               PROVE  /\ Cardinality(r.gaps) >= WideCount
                      /\ \A g \in r.gaps : g.symbol \in Symbols
                      /\ \A g, h \in r.gaps : g.symbol = h.symbol => g = h
    BY DEF WideTyped
  <2>2. CASE r \in wide
    BY <2>2 DEF WideTyped
  <2>3. CASE \E w \in SystemWide(Detected) : r = [gaps |-> w, at |-> now]
    <3>1. PICK w \in SystemWide(Detected) : r = [gaps |-> w, at |-> now]
      BY <2>3
    <3>2. r.gaps = w
      BY <3>1
    <3> QED BY <3>2, AnnouncedGaps
  <2> QED BY <2>1, <2>2, <2>3
<1>2. CASE UNCHANGED wide
  BY <1>2 DEF WideTyped
<1> QED BY <1>1, <1>2
      DEF Next, StoreTick, Check, CheckNothing, HealthCheck, Stop, Start,
          Advance, vars, Callers

(***************************************************************************)
(* An announcement for the whole system is about as many symbols as it     *)
(* counts gaps, for every threshold of at least a minute.                  *)
(***************************************************************************)
THEOREM WideSymbols == Spec => []WideMeansManySymbols
<1>1. WideTyped => WideMeansManySymbols
  <2> SUFFICES ASSUME WideTyped, NEW w \in wide
               PROVE  Cardinality({g.symbol : g \in w.gaps}) >= WideCount
    BY DEF WideMeansManySymbols
  <2> DEFINE S == w.gaps
             T == {g.symbol : g \in w.gaps}
             f == [g \in S |-> g.symbol]
  <2>1. /\ Cardinality(S) >= WideCount
        /\ T \subseteq Symbols
        /\ \A g, h \in S : g.symbol = h.symbol => g = h
    BY DEF WideTyped
  <2>2. IsFiniteSet(T)
    BY <2>1, SymbolsAssumption, FS_Subset
  <2>3. f \in Injection(S, T)
    BY <2>1 DEF Injection, IsInjective
  <2> HIDE DEF f, S, T
  <2>4. IsFiniteSet(S) /\ Cardinality(S) <= Cardinality(T)
    BY <2>2, <2>3, FS_Injection
  <2>5. Cardinality(S) \in Nat /\ Cardinality(T) \in Nat /\ WideCount \in Nat
    BY <2>2, <2>4, FS_CardinalityType, NumberAssumption
  <2>6. Cardinality(T) >= WideCount
    BY <2>1, <2>4, <2>5
  <2> QED BY <2>6 DEF T
<1> QED BY TypedInv, WideInit, WideNext, <1>1, PTL DEF Spec
-----------------------------------------------------------------------------
(* The types of the log and of the counters, the rest of TypeOK.           *)
LogTyped ==
  /\ config \in Configs
  /\ up \in BOOLEAN
  /\ log \subseteq [gap : Gap, at : 0 .. now, by : Callers]
  /\ wide \subseteq [gaps : SUBSET Gap, at : 0 .. now]
  /\ {skips, restarts, calls} \subseteq Nat
  /\ skips + restarts + calls <= MaxEvents
  /\ ~ up => EventsLeft

LEMMA LogInit == Init => LogTyped
  BY NumberAssumption DEF Init, LogTyped

LEMMA LogNext == Typed /\ LogTyped /\ [Next]_vars => LogTyped'
<1> SUFFICES ASSUME Typed, LogTyped, [Next]_vars PROVE LogTyped'
  OBVIOUS
<1>0. now \in Nat /\ MaxEvents \in Nat /\ {skips, restarts, calls} \subseteq Nat
  BY NumberAssumption DEF Typed, LogTyped
<1>1. ASSUME NEW c \in Callers, LogGaps(c), now' = now
      PROVE  /\ log' \subseteq [gap : Gap, at : 0 .. now', by : Callers]
             /\ wide' \subseteq [gaps : SUBSET Gap, at : 0 .. now']
  <2>1. Detected \subseteq Gap
    BY DetectedGaps DEF IsPair
  <2>2. \A w \in SystemWide(Detected) : w \subseteq Gap
    BY <2>1 DEF SystemWide
  <2>3. now \in 0 .. now
    BY <1>0
  <2> QED BY <1>1, <2>1, <2>2, <2>3 DEF LogGaps, LogTyped
<1>2. ASSUME Advance PROVE LogTyped'
  <2>1. 0 .. now \subseteq 0 .. now'
    BY <1>2, <1>0 DEF Advance
  <2>2. /\ log' \subseteq [gap : Gap, at : 0 .. now', by : Callers]
        /\ wide' \subseteq [gaps : SUBSET Gap, at : 0 .. now']
    BY <1>2, <2>1 DEF Advance, LogTyped
  <2> QED BY <1>2, <2>2 DEF Advance, LogTyped, EventsLeft, counters
<1>3. ASSUME Check PROVE LogTyped'
  BY <1>3, <1>1 DEF Check, LogTyped, EventsLeft, Callers, counters
<1>4. ASSUME HealthCheck PROVE LogTyped'
  <2>1. {skips', restarts', calls'} \subseteq Nat /\ skips' + restarts' + calls' <= MaxEvents
    BY <1>4, <1>0 DEF HealthCheck, EventsLeft
  <2> QED BY <1>4, <1>1, <2>1 DEF HealthCheck, LogTyped, Callers
<1>5. ASSUME CheckNothing PROVE LogTyped'
  <2>1. {skips', restarts', calls'} \subseteq Nat /\ skips' + restarts' + calls' <= MaxEvents
    BY <1>5, <1>0 DEF CheckNothing, EventsLeft
  <2> QED BY <1>5, <2>1 DEF CheckNothing, LogTyped
<1>6. ASSUME Start PROVE LogTyped'
  <2>1. {skips', restarts', calls'} \subseteq Nat /\ skips' + restarts' + calls' <= MaxEvents
    BY <1>6, <1>0 DEF Start, EventsLeft, LogTyped
  <2> QED BY <1>6, <2>1 DEF Start, LogTyped
<1>7. ASSUME (\E s \in Symbols : StoreTick(s)) \/ Stop \/ UNCHANGED vars
      PROVE  LogTyped'
  BY <1>7 DEF StoreTick, Stop, vars, counters, LogTyped, EventsLeft
<1> QED BY <1>2, <1>3, <1>4, <1>5, <1>6, <1>7 DEF Next

(* Every variable of the detector keeps its type.                          *)
THEOREM TypeCorrect == Spec => []TypeOK
<1>1. Typed /\ LogTyped => TypeOK
  <2> SUFFICES ASSUME Typed, LogTyped PROVE TypeOK
    OBVIOUS
  <2>1. ticks \in [Symbols -> SUBSET Times]
    BY TickTimes
  <2>2. {skips, restarts, calls} \subseteq 0 .. MaxEvents
    BY NumberAssumption DEF LogTyped
  <2> QED BY <2>1, <2>2 DEF Typed, LogTyped, TypeOK
<1> QED BY TypedInv, LogInit, LogNext, <1>1, PTL DEF Spec

-----------------------------------------------------------------------------
(* How often the loop repeats a gap.                                       *)

LoopReports(g) == {q \in log : q.gap = g /\ q.by = "loop"}

(* The first moment a gap can be seen, and what of it the lookback covers. *)
SeenFrom(g) == g.end - Ahead
Span(g) == Length(g) - Ahead

(***************************************************************************)
(* The inductive form of ReportsBounded.  Not counting one report for each *)
(* restart, the reports of a gap are at least an interval apart: all but   *)
(* the first of them fit between the moment the gap can be seen and the    *)
(* moment its start leaves the window, and between the former and now, and *)
(* while the process runs all of them fit in before the next check.        *)
(***************************************************************************)
SpacedFor(g) ==
  LET extra == Cardinality(LoopReports(g)) - restarts
  IN  /\ SeenFrom(g) <= now /\ Span(g) <= config.lookback
      /\ (extra - 1) * config.interval <= config.lookback - Span(g)
      /\ (extra - 1) * config.interval <= now - SeenFrom(g)
      /\ up => extra * config.interval <= wake - SeenFrom(g)

Spaced == \A r \in log : SpacedFor(r.gap)

LEMMA TimesMonotone ==
  ASSUME NEW a \in Int, NEW b \in Int, NEW k \in Nat, a <= b
  PROVE  a * k <= b * k
OBVIOUS

LEMMA OneTimeMore ==
  ASSUME NEW a \in Int, NEW k \in Nat
  PROVE  /\ a * k \in Int /\ (a - 1) * k \in Int
         /\ a * k = (a - 1) * k + k
OBVIOUS

LEMMA FitsInto ==
  ASSUME NEW a \in Int, NEW m \in Int, NEW k \in Nat \ {0}, a * k <= m
  PROVE  a <= m \div k
OBVIOUS

(* The reports of one gap differ in their times, so there are finitely     *)
(* many of them.                                                           *)
LEMMA FiniteReports ==
  ASSUME Typed, LogTyped, NEW g
  PROVE  IsFiniteSet(LoopReports(g)) /\ Cardinality(LoopReports(g)) \in Nat
<1> DEFINE S == LoopReports(g)
           T == 0 .. now
           f == [q \in S |-> q.at]
<1>1. now \in Int
  BY TickTimes
<1>2. IsFiniteSet(T)
  BY <1>1, FS_Interval
<1>3. f \in Injection(S, T)
  <2>1. \A q \in S : q \in [gap : Gap, at : T, by : Callers] /\ q.gap = g /\ q.by = "loop"
    BY DEF LoopReports, LogTyped
  <2> HIDE DEF S, T
  <2>2. \A p, q \in S : p.at = q.at => p = q
    BY <2>1
  <2>3. \A q \in S : q.at \in T
    BY <2>1
  <2> QED BY <2>2, <2>3 DEF Injection, IsInjective
<1> HIDE DEF S, T, f
<1>4. IsFiniteSet(S)
  BY <1>2, <1>3, FS_Injection
<1> QED BY <1>4, FS_CardinalityType DEF S

(* What a check finds can be seen, and began inside the lookback.          *)
LEMMA DetectedInWindow ==
  ASSUME Typed, NEW g \in Detected
  PROVE  /\ g \in Gap /\ SeenFrom(g) \in Int /\ Span(g) \in Int
         /\ SeenFrom(g) <= now /\ now - SeenFrom(g) <= config.lookback - Span(g)
<1>1. /\ {now, Ahead, config.lookback} \subseteq Int /\ Times \subseteq Int
      /\ ticks \in [Symbols -> SUBSET Times]
  BY TickTimes
<1>2. g \in ConsecutiveIn(ticks, LookbackTime) /\ LookbackTime \in Int
  BY <1>1 DEF Detected, Consecutive, ConsecutiveIn, PairsOf, LookbackTime
<1>3. IsPair(ticks, g) /\ LookbackTime <= g.start
  BY <1>1, <1>2, ConsecutiveMeaning
<1>4. g \in Gap /\ g.start \in Int /\ g.end \in Int
  BY <1>1, <1>3 DEF IsPair, Gap
<1>5. g.end \in 0 .. (now + Ahead)
  BY <1>3 DEF Typed, IsPair, Gap
<1> QED BY <1>1, <1>3, <1>4, <1>5 DEF Length, LookbackTime, SeenFrom, Span

(* A step that reports nothing of the loop keeps the reports apart, if the *)
(* next check does not come closer but for a restart.                      *)
LEMMA SpacedKept ==
  ASSUME Typed, Typed', LogTyped, LogTyped', UNCHANGED config, now <= now',
         NEW g, SeenFrom(g) \in Int, Span(g) \in Int, SpacedFor(g),
         LoopReports(g)' = LoopReports(g),
         \/ restarts' = restarts /\ (up' => up /\ wake <= wake')
         \/ restarts' = restarts + 1 /\ now <= wake'
  PROVE  SpacedFor(g)'
<1> DEFINE n == Cardinality(LoopReports(g))
           k == config.interval
           extra == n - restarts
<1>1. /\ now \in Int /\ now' \in Int /\ wake \in Int /\ wake' \in Int
      /\ k \in Nat /\ config.lookback \in Int /\ n \in Nat
      /\ restarts \in Nat /\ restarts' \in Nat
  BY FiniteReports, NumberAssumption DEF Typed, Times, LogTyped
<1>2. extra \in Int
  BY <1>1
<1>3. /\ SeenFrom(g) <= now /\ Span(g) <= config.lookback
      /\ (extra - 1) * k <= config.lookback - Span(g)
      /\ (extra - 1) * k <= now - SeenFrom(g)
      /\ up => extra * k <= wake - SeenFrom(g)
  BY DEF SpacedFor
<1>4. Cardinality(LoopReports(g))' = n /\ config'.interval = k
      /\ config'.lookback = config.lookback /\ Span(g)' = Span(g)
      /\ SeenFrom(g)' = SeenFrom(g)
  BY DEF SeenFrom, Span, Length
<1>5. CASE restarts' = restarts /\ (up' => up /\ wake <= wake')
  <2> HIDE DEF n, k
  <2>1. (extra - 1) * k \in Int /\ extra * k \in Int
    BY <1>1, <1>2, OneTimeMore
  <2>2. (extra - 1) * k <= now' - SeenFrom(g)
    BY <1>1, <1>3, <2>1
  <2>3. up' => extra * k <= wake' - SeenFrom(g)
    BY <1>1, <1>3, <1>5, <2>1
  <2> QED BY <1>1, <1>3, <1>4, <1>5, <2>2, <2>3 DEF SpacedFor
<1>6. CASE restarts' = restarts + 1 /\ now <= wake'
  <2> DEFINE fewer == n - restarts'
  <2>1. fewer = extra - 1 /\ fewer \in Int
    BY <1>1, <1>6
  <2> HIDE DEF n, k, extra, fewer
  <2>2. /\ fewer * k \in Int /\ (fewer - 1) * k \in Int
        /\ fewer * k = (fewer - 1) * k + k
    BY <1>1, <2>1, OneTimeMore
  <2>3. fewer * k <= config.lookback - Span(g) /\ fewer * k <= now - SeenFrom(g)
    BY <1>3, <2>1
  <2>4. /\ (fewer - 1) * k <= config.lookback - Span(g)
        /\ (fewer - 1) * k <= now' - SeenFrom(g)
        /\ fewer * k <= wake' - SeenFrom(g)
    BY <1>1, <1>6, <2>2, <2>3
  <2>5. SeenFrom(g) <= now'
    BY <1>1, <1>3
  <2> QED BY <1>3, <1>4, <2>4, <2>5 DEF SpacedFor, fewer
<1> QED BY <1>5, <1>6

(* A gap that was never reported and is found now has all its reports yet  *)
(* to come.                                                                *)
LEMMA SpacedAtFirst ==
  ASSUME Typed, LogTyped, up, NEW g \in Detected, LoopReports(g) = {}
  PROVE  SpacedFor(g)
<1> DEFINE k == config.interval
           extra == 0 - restarts
<1>1. /\ now \in Int /\ wake \in Int /\ now <= wake /\ k \in Nat
      /\ config.lookback \in Int /\ restarts \in Nat
  BY NumberAssumption DEF Typed, Times, LogTyped
<1>2. /\ SeenFrom(g) \in Int /\ Span(g) \in Int
      /\ SeenFrom(g) <= now /\ now - SeenFrom(g) <= config.lookback - Span(g)
  BY DetectedInWindow
<1>3. Cardinality(LoopReports(g)) = 0
  BY FS_EmptySet
<1>4. extra \in Int /\ extra <= 0 /\ extra - 1 <= 0
  BY <1>1
<1> HIDE DEF k, extra
<1>5. extra * k <= 0 /\ (extra - 1) * k <= 0
  BY <1>1, <1>4, TimesMonotone
<1>6. extra * k \in Int /\ (extra - 1) * k \in Int
  BY <1>1, <1>4, OneTimeMore
<1>7. /\ (extra - 1) * k <= config.lookback - Span(g)
      /\ (extra - 1) * k <= now - SeenFrom(g)
      /\ extra * k <= wake - SeenFrom(g)
  BY <1>1, <1>2, <1>5, <1>6
<1>8. Span(g) <= config.lookback
  BY <1>1, <1>2
<1> QED BY <1>2, <1>3, <1>7, <1>8 DEF SpacedFor, k, extra

(* A check reports a gap once, an interval before the next check.          *)
LEMMA SpacedCheck ==
  ASSUME Typed, Typed', LogTyped, LogTyped', Check, NEW g \in Detected, SpacedFor(g)
  PROVE  SpacedFor(g)'
<1> DEFINE n == Cardinality(LoopReports(g))
           m == Cardinality(LoopReports(g)')
           k == config.interval
           extra == n - restarts
           more == m - restarts
           report == [gap |-> g, at |-> now, by |-> "loop"]
<1>1. /\ now \in Int /\ wake' \in Int /\ k \in Nat /\ config.lookback \in Int
      /\ restarts \in Nat /\ n \in Nat
  BY FiniteReports, NumberAssumption DEF Typed, Times, LogTyped
<1>2. /\ up /\ up' /\ now = wake /\ now' = now /\ restarts' = restarts
      /\ config' = config /\ now + k <= wake'
  BY <1>1 DEF Check, Sleep, counters
<1>3. m \in Nat /\ m <= n + 1
  <2>1. LoopReports(g)' = LoopReports(g) \cup {report}
    BY DEF Check, LogGaps, LoopReports
  <2>2. IsFiniteSet(LoopReports(g))
    BY FiniteReports
  <2>3. CASE report \in LoopReports(g)
    <3>1. LoopReports(g)' = LoopReports(g)
      BY <2>1, <2>3
    <3> QED BY <1>1, <3>1
  <2>4. CASE report \notin LoopReports(g)
    <3>1. m = n + 1
      BY <2>1, <2>2, <2>4, FS_AddElement
    <3> QED BY <1>1, <3>1
  <2> QED BY <2>3, <2>4
<1>4. /\ extra \in Int /\ more \in Int /\ more - 1 \in Int
      /\ more - 1 <= extra /\ more <= extra + 1 /\ extra + 1 \in Int
  BY <1>1, <1>3
<1>5. /\ SeenFrom(g) \in Int /\ Span(g) \in Int
      /\ SeenFrom(g) <= now /\ now - SeenFrom(g) <= config.lookback - Span(g)
  BY DetectedInWindow
<1>6. extra * k <= now - SeenFrom(g) /\ Span(g) <= config.lookback
  BY <1>2 DEF SpacedFor
<1>7. Span(g)' = Span(g) /\ SeenFrom(g)' = SeenFrom(g)
  BY DEF SeenFrom, Span, Length
<1> HIDE DEF n, m, k, extra, more
<1>8. /\ extra * k \in Int /\ more * k \in Int /\ (more - 1) * k \in Int
      /\ more * k = (more - 1) * k + k /\ (more - 1) * k <= extra * k
  BY <1>1, <1>4, OneTimeMore, TimesMonotone
<1>9. /\ (more - 1) * k <= config.lookback - Span(g)
      /\ (more - 1) * k <= now - SeenFrom(g)
      /\ more * k <= wake' - SeenFrom(g)
  BY <1>1, <1>2, <1>5, <1>6, <1>8
<1> QED BY <1>2, <1>5, <1>6, <1>7, <1>9 DEF SpacedFor, m, k, more

LEMMA SpacedInit == Init => Spaced
  BY DEF Init, Spaced

LEMMA SpacedNext ==
  Typed /\ Typed' /\ LogTyped /\ LogTyped' /\ Spaced /\ [Next]_vars => Spaced'
<1> SUFFICES ASSUME Typed, Typed', LogTyped, LogTyped', Spaced, [Next]_vars,
                    NEW r \in log', NEW g, g = r.gap
             PROVE  SpacedFor(g)'
  BY DEF Spaced
<1>1. /\ now \in Nat /\ now' \in Nat /\ wake \in Nat /\ wake' \in Nat
      /\ config.interval \in Nat /\ Jitter \in Nat /\ Ahead \in Nat
  BY NumberAssumption DEF Typed, Times
<1>2. SeenFrom(g) \in Int /\ Span(g) \in Int
  <2>1. g \in Gap /\ Times \subseteq Int
    BY NumberAssumption DEF LogTyped, Times
  <2>2. g.start \in Int /\ g.end \in Int
    BY <2>1 DEF Gap
  <2> QED BY <1>1, <2>2 DEF Span, Length, SeenFrom
<1>3. ASSUME UNCHANGED <<config, log, restarts>>, now <= now', up' => up /\ wake <= wake'
      PROVE  SpacedFor(g)'
  <2>1. SpacedFor(g) /\ LoopReports(g)' = LoopReports(g)
    BY <1>3 DEF Spaced, LoopReports
  <2> QED BY <1>2, <1>3, <2>1, SpacedKept
<1>4. CASE \E s \in Symbols : StoreTick(s)
  BY <1>1, <1>3, <1>4 DEF StoreTick, counters
<1>5. CASE CheckNothing
  BY <1>1, <1>3, <1>5 DEF CheckNothing, Sleep
<1>6. CASE Stop
  BY <1>1, <1>3, <1>6 DEF Stop, counters
<1>7. CASE Advance
  BY <1>1, <1>3, <1>7 DEF Advance, counters
<1>8. CASE UNCHANGED vars
  BY <1>1, <1>3, <1>8 DEF vars, counters
<1>9. CASE Start
  <2>1. SpacedFor(g) /\ LoopReports(g)' = LoopReports(g)
    BY <1>9 DEF Spaced, LoopReports, Start
  <2>2. UNCHANGED config /\ now' = now /\ restarts' = restarts + 1 /\ wake' = now
    BY <1>9 DEF Start
  <2> QED BY <1>1, <1>2, <2>1, <2>2, SpacedKept
<1>10. ASSUME NEW c \in Callers, LogGaps(c), up PROVE SpacedFor(g)
  <2>1. r \in log \/ g \in Detected
    BY <1>10 DEF LogGaps
  <2>2. CASE LoopReports(g) = {} /\ g \in Detected
    <3> QED BY <1>10, <2>2, SpacedAtFirst
  <2>3. CASE LoopReports(g) # {} \/ r \in log
    BY <2>3 DEF Spaced, LoopReports
  <2> QED BY <2>1, <2>2, <2>3
<1>11. CASE Check
  <2>1. SpacedFor(g)
    BY <1>10, <1>11 DEF Check, Callers
  <2>2. CASE g \in Detected
    <3> QED BY <1>11, <2>1, <2>2, SpacedCheck
  <2>3. CASE g \notin Detected
    <3>1. LoopReports(g)' = LoopReports(g)
      BY <1>11, <2>3 DEF Check, LogGaps, LoopReports
    <3>2. UNCHANGED config /\ now <= now' /\ restarts' = restarts
          /\ up /\ wake <= wake'
      BY <1>1, <1>11 DEF Check, Sleep, counters
    <3> QED BY <1>2, <2>1, <3>1, <3>2, SpacedKept
  <2> QED BY <2>2, <2>3
<1>12. CASE HealthCheck
  <2>1. SpacedFor(g)
    BY <1>10, <1>12 DEF HealthCheck, Callers
  <2>2. LoopReports(g)' = LoopReports(g)
    BY <1>12 DEF HealthCheck, LogGaps, LoopReports
  <2>3. UNCHANGED config /\ now <= now' /\ restarts' = restarts
        /\ up /\ wake <= wake'
    BY <1>1, <1>12 DEF HealthCheck
  <2> QED BY <1>2, <2>1, <2>2, <2>3, SpacedKept
<1> QED BY <1>4, <1>5, <1>6, <1>7, <1>8, <1>9, <1>11, <1>12 DEF Next

(***************************************************************************)
(* For any settings, phase and lateness of the checks, and any restarts:   *)
(* the loop reports a gap no more often than once, once more for each      *)
(* interval that fits between its end and the moment its start leaves the  *)
(* window, and once more for each restart.                                 *)
(***************************************************************************)
THEOREM ReportsBoundedHolds == Spec => []ReportsBounded
<1>1. Typed /\ LogTyped /\ Spaced => ReportsBounded
  <2> SUFFICES ASSUME Typed, LogTyped, Spaced, NEW r \in log
               PROVE  Cardinality(LoopReports(r.gap))
                        <= (config.lookback - Length(r.gap) + Ahead) \div config.interval
                             + 1 + restarts
    BY DEF ReportsBounded, LoopReports
  <2> DEFINE g == r.gap
             n == Cardinality(LoopReports(g))
             room == config.lookback - (Length(g) - Ahead)
             k == config.interval
             extra == n - restarts - 1
  <2>1. /\ k \in Nat \ {0} /\ config.lookback \in Int /\ restarts \in Nat /\ n \in Nat
        /\ Ahead \in Int
    BY FiniteReports, TickTimes DEF Typed, LogTyped
  <2>2. Span(g) \in Int /\ room = config.lookback - Length(g) + Ahead
    <3>1. g \in Gap /\ Times \subseteq Int
      BY NumberAssumption DEF LogTyped, Times
    <3>2. g.start \in Int /\ g.end \in Int
      BY <3>1 DEF Gap
    <3> HIDE DEF g
    <3> QED BY <2>1, <3>2 DEF Span, Length
  <2>3. extra * k <= room
    BY DEF Spaced, SpacedFor, Span
  <2>4. extra \in Int /\ room \in Int
    BY <2>1, <2>2 DEF Span
  <2>5. n = extra + 1 + restarts
    BY <2>1
  <2> HIDE DEF g, n, room, k, extra
  <2>6. extra <= room \div k
    BY <2>1, <2>3, <2>4, FitsInto
  <2>7. room \div k \in Int
    BY <2>1, <2>4
  <2>8. n <= room \div k + 1 + restarts
    BY <2>1, <2>4, <2>5, <2>6, <2>7
  <2> QED BY <2>2, <2>8 DEF g, n, k
<1> QED BY TypedInv, LogInit, LogNext, SpacedInit, SpacedNext, <1>1, PTL DEF Spec
=============================================================================
