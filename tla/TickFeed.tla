------------------------------ MODULE TickFeed ------------------------------
(***************************************************************************)
(* What the tick pipeline promises: a tick that was published is on its    *)
(* way, and then stored once or lost for good, never both and never twice. *)
(* Ticks are numbered in the order in which they were published.           *)
(***************************************************************************)
EXTENDS Naturals, Sequences

VARIABLES
  sent,    \* ticks published
  stored,  \* those in the database, in the order of their rows
  lost     \* and of those given up

Init == sent = 0 /\ stored = <<>> /\ lost = {}

Stored == {stored[i] : i \in DOMAIN stored}
Open(ticks) == ticks \ (Stored \cup lost)

Publish == sent' = sent + 1 /\ UNCHANGED <<stored, lost>>

Store(t) ==
  /\ t \in Open(1..sent)
  /\ stored' = Append(stored, t)
  /\ UNCHANGED <<sent, lost>>

\* A whole batch may be given up at once, the newest tick as it is published.
Lose(ticks) ==
  /\ ticks # {} /\ ticks \subseteq Open(1..sent')
  /\ sent' \in {sent, sent + 1}
  /\ lost' = lost \cup ticks
  /\ UNCHANGED stored

Next ==
  \/ Publish
  \/ \E t \in 1..sent : Store(t)
  \/ \E ticks \in SUBSET (1..sent + 1) : Lose(ticks)

Spec == Init /\ [][Next]_<<sent, stored, lost>>

=============================================================================
