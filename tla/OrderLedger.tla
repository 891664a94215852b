----------------------------- MODULE OrderLedger -----------------------------
(***************************************************************************)
(* What the order management system promises its callers, with nothing of  *)
(* how it keeps the promise: a client order id is answered with one order  *)
(* id, for ever, no order id answers two client ids, and a position moves  *)
(* only by the quantity of a fill, one symbol at a time.  A restart of the *)
(* process is invisible: no step of this specification forgets anything.   *)
(***************************************************************************)
EXTENDS Integers

CONSTANTS ClientIds,  \* client_order_id values callers use
          OrderIds,   \* order ids the system can hand out
          Symbols     \* traded instruments

VARIABLES answers,    \* answers[c]: the order ids ever returned for c
          position    \* position[s]: net quantity held in s

vars == <<answers, position>>

Init ==
  /\ answers = [c \in ClientIds |-> {}]
  /\ position = [s \in Symbols |-> 0]

\* A submission with client id c is answered with an order id of its own.
Answer(c) ==
  \E id \in OrderIds :
    /\ answers[c] \subseteq {id}
    /\ \A other \in ClientIds \ {c} : id \notin answers[other]
    /\ answers' = [answers EXCEPT ![c] = {id}]
    /\ UNCHANGED position

\* A fill moves the position of its own symbol and no other.
Trade(s) ==
  /\ position'[s] \in Int
  /\ position' = [position EXCEPT ![s] = position'[s]]
  /\ UNCHANGED answers

Next ==
  \/ \E c \in ClientIds : Answer(c)
  \/ \E s \in Symbols : Trade(s)

Spec == Init /\ [][Next]_vars
=============================================================================
