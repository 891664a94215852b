-------------------------- MODULE MCOrderManagement --------------------------
(* Small instances of OrderManagement for TLC. *)
EXTENDS OrderManagement

\* The states callers put an order in themselves: the broker's acknowledgement,
\* the confirmation of a cancel (confirm_cancel) and an expiry.
CallerStates == {"new", "cancelled", "expired"}

\* A smaller choice for the runs with faults: a late acknowledgement is the one
\* that takes an order out of a terminal state.
FewStates == {"new"}

\* Position reports for sync_positions: a long position in s.
NoViews == {}
LongView == {[s \in Symbols |-> 2]}

NoFaults == {}
WriteFaults == {"dbWrite", "dbReconstruct"}
StartFaults == {"dbLoad", "fileWrite"}
==============================================================================
