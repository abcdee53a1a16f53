------------------------------ MODULE Pipeline ------------------------------
(***************************************************************************)
(* One client connection to Valkey, shared by every call of a server       *)
(* instance, as a value and operators on it.  Commands are executed in the *)
(* order they were sent and their replies come back in that order, any     *)
(* number of them at once.  The calls those replies resume are microtasks: *)
(* they run before the instance reads another reply, request or message,   *)
(* in an order that depends on how deep each call is in awaits (any order  *)
(* here).                                                                  *)
(*                                                                         *)
(*   sent    calls whose command waits for execution                       *)
(*   back    calls whose command was executed, its reply on its way        *)
(*   ready   calls whose reply was read, due to be resumed                 *)
(***************************************************************************)
EXTENDS Naturals, Sequences

Quiet == [sent |-> <<>>, back |-> <<>>, ready |-> {}]

Submit(c, p) == [c EXCEPT !.sent = Append(@, p)]

\* The next command, and the connection once it was executed.
NextSent(c) == Head(c.sent)
Ran(c)      == [c EXCEPT !.sent = Tail(@), !.back = Append(@, Head(c.sent))]

\* The first k replies are read.
Read(c, k) == [c EXCEPT !.back = SubSeq(@, k + 1, Len(@)),
                        !.ready = {c.back[j] : j \in 1..k}]

Resumed(c, p) == [c EXCEPT !.ready = @ \ {p}]

\* The instance is free for the next event.
Free(c) == c.ready = {}

\* The calls that wait on the connection, and the connection once it gave up on
\* them, executed or not: their rejections resume them.
Unanswered(c) == {c.sent[j] : j \in 1..Len(c.sent)} \cup {c.back[j] : j \in 1..Len(c.back)}
GivenUp(c)    == [Quiet EXCEPT !.ready = Unanswered(c)]
=============================================================================
