-------------------------- MODULE MCPersistentLink --------------------------
(* Instances of PersistentLink for TLC. *)
EXTENDS PersistentLink, TLC

CONSTANTS n1, n2, j1, j2, j3, v1, v2, v3, x1, x2

\* Two sockets on n1 and one on n2; a teacher on j1, who may try twice (v1, v3),
\* and another on j3; two other calls, on n1 and n2.
HomeOf      == j1 :> n1 @@ j2 :> n1 @@ j3 :> n2 @@ v1 :> n1 @@ v2 :> n2 @@ v3 :> n1
               @@ x1 :> n1 @@ x2 :> n2
HomeOfCalls == [p \in Calls |-> HomeOf[p]]
SocketOf    == [p \in Calls |-> IF p = v2 THEN j3 ELSE j1]

\* The situation in which the sockets joins connect (here: have connected), the
\* verifies starts are made, and the calls of other happen.
Case(joins, here, starts, other, losses, lapsing) ==
    [kind |-> [p \in Calls |->
        IF p \in joins \cup here THEN "join" ELSE IF p \in starts THEN "verify"
        ELSE IF p \in DOMAIN other THEN other[p] ELSE "none"],
     here |-> here, losses |-> losses, lapsing |-> lapsing]

Races ==
    {Case({j1}, {j3}, {v1, v2}, x1 :> "end", 0, FALSE),
     Case({j1, j2}, {}, {v1, v3}, <<>>, 0, FALSE),
     Case({}, {j1}, {v1, v3}, x1 :> "edit" @@ x2 :> "end", 0, FALSE),
     Case({}, {j1}, {v1, v3}, x1 :> "enroll" @@ x2 :> "redeem", 0, FALSE)}

Faults ==
    {Case({}, {j1, j3}, {v1, v2}, <<>>, 1, FALSE),
     Case({}, {j1}, {v1, v3}, <<>>, 2, FALSE),
     Case({}, {j1}, {v1, v3}, x2 :> "enter", 0, TRUE),
     Case({}, {j1}, {v1}, x2 :> "enter", 1, TRUE),
     Case({}, {j1}, {v1}, x1 :> "enroll" @@ x2 :> "edit", 1, FALSE),
     Case({j1}, {}, {v1}, x1 :> "sweep", 1, FALSE),
     Case({}, {j1}, {v1}, x1 :> "sweep" @@ x2 :> "enroll", 1, FALSE),
     Case({}, {j1}, {v1}, x1 :> "end", 1, FALSE)}

\* Students wait while a cleanup timer ends the record of their link, or its owner does, or
\* while an edit or a visit writes back the link to a class that was ended.
Swept ==
    {Case({j1}, {j2}, {v1}, x2 :> "sweep", 0, FALSE),
     Case({j1, j2}, {}, {v1}, x1 :> "sweep", 0, FALSE),
     Case({j2}, {j1}, {v1}, x1 :> "remove", 0, FALSE),
     Case({}, {j1}, {v1}, x1 :> "remove" @@ x2 :> "edit", 0, FALSE)}
WrittenBack ==
    {Case({j2}, {j1}, {v1}, x1 :> "edit" @@ x2 :> "end", 0, FALSE),
     Case({}, {j1}, {v1}, x1 :> "enter" @@ x2 :> "end", 0, FALSE)}

Classes == Races \cup Faults \cup Swept \cup WrittenBack

Waiting  == {Case({j1, j2}, {}, {v1}, <<>>, 1, FALSE)}
Ending   == {Case({j1, j3}, {}, {v1}, x1 :> "end", 0, FALSE)}
Undoing  == {Case({j1}, {}, {v1}, x2 :> "edit", 1, FALSE)}
Starting == {Case({j1}, {}, {v1}, <<>>, 1, FALSE)}
=============================================================================
