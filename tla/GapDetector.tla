---------------------------- MODULE GapDetector ----------------------------
(***************************************************************************)
(* The gap detector of the trading server (monitoring/gap_detector.py): a  *)
(* daemon thread that wakes up every check interval and, while the market  *)
(* is open, asks the database for the gaps between the consecutive ticks   *)
(* of each symbol inside a lookback window.  Each gap it finds is logged   *)
(* and sent as an alert; three gaps that start in one minute are also      *)
(* announced as a gap of the whole system.  The health endpoint of the     *)
(* HTTP server runs the same detection whenever it is asked.               *)
(*                                                                         *)
(* Nothing is remembered from one check to the next, so whether a gap is   *)
(* announced never, once or often follows from the three numbers of the    *)
(* configuration alone: that is what the properties are about.             *)
(*                                                                         *)
(* A tick is its symbol and the time the broker gave it.  Its row shows up *)
(* in the database later than that, having waited in the buffer, for the   *)
(* flush timer and in the write queue of the tick processor; it may show   *)
(* up early when the clock of the broker runs ahead of the server's.  The  *)
(* two bounds are constants.  LIMIT 100 is left out: a window holds a few  *)
(* gaps of each symbol, and the system has a few symbols.                  *)
(***************************************************************************)
EXTENDS Integers, FiniteSets

CONSTANTS
  Symbols,      \* currency pairs whose ticks are stored
  Configs,      \* settings the process may be started with
  Jitter,       \* how late, at most, the thread starts its next check
  Delay,        \* how long after its time, at most, a tick is in the database
  Ahead,        \* how long before its time, at most: the broker's clock is fast
  Minute,       \* time units in one minute
  WideCount,    \* gaps in one minute that make a gap of the whole system
  MaxTime,      \* bound: the clock stops here
  MaxTicks,     \* bound: stored ticks
  MaxEvents     \* bound: failed checks, restarts and calls of the endpoint

ASSUME SymbolsAssumption == IsFiniteSet(Symbols)

ASSUME ConfigAssumption ==
  Configs \subseteq [threshold : Nat, interval : Nat \ {0}, lookback : Nat]

ASSUME NumberAssumption ==
  /\ {Jitter, Delay, Ahead, MaxTime, MaxTicks, MaxEvents} \subseteq Nat
  /\ {Minute, WideCount} \subseteq Nat \ {0}

(***************************************************************************)
(* A threshold of at least a minute, as in every setting the documents     *)
(* name: then no symbol has two gaps that start in one minute.             *)
(***************************************************************************)
ASSUME ThresholdAssumption == \A c \in Configs : c.threshold >= Minute

VARIABLES
  config,    \* threshold, interval and lookback of this process
  now,       \* the clock
  up,        \* the process runs
  ticks,     \* ticks[s]: times of the stored ticks of symbol s
  wake,      \* when the thread starts its next check
  failedAt,  \* history: last time a check was due and found nothing out
  log,       \* gaps logged and sent as alerts: gap, time and caller
  wide,      \* gaps of the whole system that were announced
  skips,     \* checks skipped or failed
  restarts,  \* restarts of the process
  calls      \* calls of the health endpoint

counters == <<skips, restarts, calls>>
vars == <<config, now, up, ticks, wake, failedAt, log, wide, counters>>

Times == 0 .. (MaxTime + Ahead)
Gap == [symbol : Symbols, start : Times, end : Times]
Callers == {"loop", "endpoint"}

TypeOK ==
  /\ config \in Configs
  /\ now \in 0 .. MaxTime
  /\ up \in BOOLEAN
  /\ ticks \in [Symbols -> SUBSET Times]
  /\ wake \in Nat
  /\ up => wake \in now .. (now + config.interval + Jitter)
  /\ failedAt \in 0 .. now
  /\ log \subseteq [gap : Gap, at : 0 .. now, by : Callers]
  /\ wide \subseteq [gaps : SUBSET Gap, at : 0 .. now]
  /\ {skips, restarts, calls} \subseteq 0 .. MaxEvents
-----------------------------------------------------------------------------
Length(g) == g.end - g.start

(* Pairs of consecutive ticks of one symbol among those not older than     *)
(* from: LAG over the partition of the symbol.                             *)
PairsOf(s, from) ==
  LET seen == {t \in ticks[s] : t >= from}
  IN  {g \in [symbol : {s}, start : seen, end : seen] :
         /\ g.start < g.end
         /\ \A t \in seen : ~ (g.start < t /\ t < g.end)}

Consecutive(from) == UNION {PairsOf(s, from) : s \in Symbols}

\* Mutants of LookbackTime: the window is one tick short; it is twice as long.
LookbackShort == now - config.lookback + 1
LookbackTwice == now - 2 * config.lookback

(* The oldest tick that the query looks at.                                *)
LookbackTime == now - config.lookback

Detected == {g \in Consecutive(LookbackTime) : Length(g) > config.threshold}

(* The minute a gap is filed under.                                        *)
Window(g) == g.start \div Minute

SystemWide(gaps) ==
  {w \in {{g \in gaps : Window(g) = Window(h)} : h \in gaps} :
     Cardinality(w) >= WideCount}

(* What detect_gaps does with the answer of the database.                  *)
LogGaps(caller) ==
  /\ log' = log \cup {[gap |-> g, at |-> now, by |-> caller] : g \in Detected}
  /\ wide' = wide \cup {[gaps |-> w, at |-> now] : w \in SystemWide(Detected)}

Sleep == wake' \in (now + config.interval) .. (now + config.interval + Jitter)
-----------------------------------------------------------------------------
Init ==
  /\ config \in Configs
  /\ now = 0
  /\ up = TRUE
  /\ ticks = [s \in Symbols |-> {}]
  /\ wake = 0
  /\ failedAt = 0
  /\ log = {}
  /\ wide = {}
  /\ skips = 0
  /\ restarts = 0
  /\ calls = 0

(* Bound on the failed checks, restarts and calls of one behaviour.        *)
EventsLeft == skips + restarts + calls < MaxEvents

(* The tick processor of the same process stores a tick under the time of  *)
(* the broker.  It refuses a tick older than the last of its symbol and    *)
(* writes in the order of arrival, so the rows of a symbol show up in the  *)
(* order of their times.                                                   *)
StoreTick(s) ==
  /\ up
  /\ Cardinality({x \in Symbols \X Times : x[2] \in ticks[x[1]]}) < MaxTicks
  /\ \E t \in Times \cap ((now - Delay) .. (now + Ahead)) :
       /\ \A u \in ticks[s] : u < t
       /\ ticks' = [ticks EXCEPT ![s] = @ \cup {t}]
  /\ UNCHANGED <<config, now, up, wake, failedAt, log, wide, counters>>

(* One turn of the loop in which the query is answered.                    *)
Check ==
  /\ up
  /\ now = wake
  /\ LogGaps("loop")
  /\ Sleep
  /\ UNCHANGED <<config, now, up, ticks, failedAt, counters>>

(* A turn that finds the market closed, or whose query fails.              *)
CheckNothing ==
  /\ up
  /\ now = wake
  /\ EventsLeft
  /\ skips' = skips + 1
  /\ failedAt' = now
  /\ Sleep
  /\ UNCHANGED <<config, now, up, ticks, log, wide, restarts, calls>>

(* GET /health/data-quality.                                               *)
HealthCheck ==
  /\ up
  /\ EventsLeft
  /\ calls' = calls + 1
  /\ LogGaps("endpoint")
  /\ UNCHANGED <<config, now, up, ticks, wake, failedAt, skips, restarts>>

(* The process ends, and the daemon thread with it.                        *)
Stop ==
  /\ up
  /\ EventsLeft
  /\ up' = FALSE
  /\ UNCHANGED <<config, now, ticks, wake, failedAt, log, wide, counters>>

(* A new process checks at once.                                           *)
Start ==
  /\ ~ up
  /\ up' = TRUE
  /\ restarts' = restarts + 1
  /\ wake' = now
  /\ failedAt' = now
  /\ UNCHANGED <<config, now, ticks, log, wide, skips, calls>>

(* Event.wait returns after the interval: time does not pass a check.      *)
Waiting == up => now < wake

Advance ==
  /\ now < MaxTime
  /\ Waiting
  /\ now' = now + 1
  /\ UNCHANGED <<config, up, ticks, wake, failedAt, log, wide, counters>>

Next ==
  \/ \E s \in Symbols : StoreTick(s)
  \/ Check
  \/ CheckNothing
  \/ HealthCheck
  \/ Stop
  \/ Start
  \/ Advance

Spec == Init /\ [][Next]_vars
-----------------------------------------------------------------------------
Reported(g) == \E r \in log : r.gap = g /\ r.by = "loop"

(* A gap above the threshold, between two stored ticks, that the loop has  *)
(* had an interval to find out about since it was in the database at the   *)
(* latest, with no check skipped since its end.                            *)
Due(g) ==
  /\ Length(g) > config.threshold
  /\ up
  /\ g.end > failedAt
  /\ now > g.end + Delay + config.interval + Jitter

(* A gap above the threshold is reported by the loop, whatever the phase   *)
(* of the checks, if the lookback leaves room for its length, for one      *)
(* interval, and for the time its last tick takes to reach the database.   *)
(* With the numbers of app.py no length has room: that threshold and one   *)
(* interval already fill the lookback.                                     *)
CoveredGapsReported ==
  \A g \in Consecutive(0) :
    (Due(g) /\ Length(g) <= config.lookback - config.interval - Jitter - Delay)
      => Reported(g)

(* The windows of successive checks overlap, and nothing remembers what    *)
(* was reported: the loop repeats a gap only as often as checks fit into   *)
(* the time between the moment it can first be seen, which is its end on a *)
(* clock that agrees with the broker's, and the moment its start leaves    *)
(* the window.  With the numbers of app.py and such a clock that is once.  *)
ReportsBounded ==
  \A r \in log :
    Cardinality({q \in log : q.gap = r.gap /\ q.by = "loop"})
      <= (config.lookback - Length(r.gap) + Ahead) \div config.interval
           + 1 + restarts

(* Gaps are counted, not symbols: an announcement for the whole system is  *)
(* about that many different symbols only because no symbol has two long   *)
(* gaps that start in one minute.                                          *)
WideMeansManySymbols ==
  \A w \in wide : Cardinality({g.symbol : g \in w.gaps}) >= WideCount

=============================================================================
