--------------------------- MODULE MCLearnLaunch ----------------------------
(* Instances of LearnLaunch for TLC. *)
EXTENDS LearnLaunch, TLC

CONSTANTS n1, n2, r1, r2, r3

Home == r1 :> n1 @@ r2 :> n2 @@ r3 :> n2

Case(k1, k2, k3, e, bad, count, over) ==
    [kind |-> r1 :> k1 @@ r2 :> k2 @@ r3 :> k3, id |-> r1 :> "a" @@ r2 :> "b" @@ r3 :> "b",
     deck |-> [r \in Requests |-> "deck"], entry |-> e, bad |-> bad, faults |-> count, ends |-> over]

\* Two starts on two instances; a start and a student, or somebody who watches.
Both    == Case("start", "start", "none", "waiting", {}, 0, 0)
Decked  == [Case("start", "start", "none", NoEntry, {}, 0, 0) EXCEPT !.deck[r2] = "other"]
Fresh   == Case("start", "substitute", "none", NoEntry, {"expire"}, 1, 0)
Student == Case("start", "none", "entry", NoEntry, {"expire", "write", "release"}, 1, 0)
Watched == Case("start", "none", "status", "waiting", {"write"}, 1, 0)

\* A class is stopped while it is started again.
Stopping == Case("start", "stop", "status", "active", {}, 0, 0)

\* Starts whose writes, claims, tokens or releases fail, or whose instance crashes.
Broken  == Case("start", "start", "none", "waiting", {"write", "token"}, 1, 0)
Undone  == Case("start", "none", "none", NoEntry, {"write", "token"}, 3, 0)
Crashed == Case("start", "start", "none", NoEntry, {"crash", "claim", "release"}, 1, 0)
Lapsing == Case("start", "start", "none", "waiting", {"lapse"}, 1, 0)

\* A read fails, and a stop or a student find no entry.
Unread  == Case("none", "stop", "entry", "active", {"read"}, 1, 0)

\* The session of the entry has ended.
Ending  == Case("start", "status", "none", "active", {}, 0, 1)

Launches == {Both, Decked, Fresh, Student, Watched, Stopping, Broken, Undone, Crashed, Lapsing, Unread, Ending}
Racing   == {Case("start", "start", "none", "active", {}, 0, 1)}
=============================================================================
