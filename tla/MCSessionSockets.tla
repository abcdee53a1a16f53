-------------------------- MODULE MCSessionSockets --------------------------
(* Instances of SessionSockets for TLC. *)
EXTENDS SessionSockets, TLC

CONSTANTS n1, n2, p1, p2

Quiet == [valkey |-> TRUE, notes |-> "before", terminal |-> FALSE,
          ends |-> 0, renders |-> 0, faults |-> 0]

\* A page that is rendered anew while connections or reads fail.
Flaky == {[Quiet EXCEPT !.terminal = t, !.renders = 1, !.faults = 1] : t \in BOOLEAN}

\* The session ends, for handlers of each kind; the end or a connection fails.
Ending == {[Quiet EXCEPT !.notes = "unread", !.ends = 1],
           [Quiet EXCEPT !.notes = "before", !.ends = 1],
           [Quiet EXCEPT !.notes = "after", !.ends = 1, !.faults = 1]}
EndingTwice == [Quiet EXCEPT !.ends = 2, !.terminal = TRUE, !.notes = "after"]
EndingRenewed == [Quiet EXCEPT !.ends = 1, !.renders = 1]

Sockets == Flaky \cup Ending \cup {EndingTwice, EndingRenewed}
InMemory == {[Quiet EXCEPT !.valkey = FALSE, !.ends = 1]}
=============================================================================
