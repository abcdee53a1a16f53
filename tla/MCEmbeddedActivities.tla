------------------------ MODULE MCEmbeddedActivities ------------------------
(* Instances of EmbeddedActivities for TLC. *)
EXTENDS EmbeddedActivities, TLC

CONSTANTS n1, c1, c2, c3, c4, k1, k2, s1, s2

Home == [p \in Calls |-> n1]

Case(a, b, c, d, run, ros) ==
    [kind |-> c1 :> a @@ c2 :> b @@ c3 :> c @@ c4 :> d, key |-> [p \in Calls |-> k1],
     student |-> c1 :> s1 @@ c2 :> s1 @@ c3 :> s2 @@ c4 :> s1, roster |-> ros, running |-> run,
     touches |-> FALSE, chunk |-> 4, ages |-> 0, losses |-> 0]

\* Starts while students and an instructor connect, one of them twice.
Opening   == [Case("start", "start", "join", "start", {}, {s2}) EXCEPT !.key[c4] = k2, !.chunk = 1]
Joining   == Case("start", "join", "watch", "none", {k2}, {})
Rejoining == Case("join", "join", "watch", "none", {k2}, {})
Busy      == Case("join", "start", "update", "entry", {k1}, {s1})

\* Activities end meanwhile.
Ending  == [Case("start", "end", "join", "start", {k1}, {}) EXCEPT !.chunk = 1]
Handing == [Case("entry", "end", "join", "watch", {k1}, {s1}) EXCEPT !.chunk = 1]
Batched == Case("start", "end", "update", "start", {}, {})

\* Connections are lost; entries leave the cache; the session is deleted; students are
\* returned, and ask again.
Returning == [Case("return", "none", "none", "none", {k1, k2}, {s1, s2}) EXCEPT !.losses = 1, !.touches = TRUE]
Evicted   == [Returning EXCEPT !.ages = 1, !.losses = 0]
Failing   == [Case("start", "start", "start", "none", {}, {}) EXCEPT !.losses = 1, !.key[c3] = k2]
Restarting== [Case("start", "start", "none", "none", {k1}, {}) EXCEPT !.touches = TRUE, !.losses = 1, !.ages = 1]
Joined    == [Case("join", "start", "entry", "none", {k1}, {s2}) EXCEPT !.losses = 1]
Late      == [Case("join", "end", "none", "none", {k1, k2}, {s1}) EXCEPT !.ages = 1, !.chunk = 1]
Deleting  == [Case("start", "delete", "entry", "keepalive", {k1}, {s2}) EXCEPT !.chunk = 1]
Leaving   == [Case("return", "start", "keepalive", "none", {k1}, {s1}) EXCEPT !.ages = 1, !.chunk = 1]
Refused   == [Case("return", "entry", "join", "return", {k1}, {s1}) EXCEPT
                  !.student[c3] = s1, !.chunk = 1]

\* Touches read records anew while they are changed.
Touching  == [Case("entry", "update", "join", "none", {k1}, {s1}) EXCEPT !.touches = TRUE, !.chunk = 1]

Classes == {Opening, Joining, Rejoining, Busy, Ending, Handing, Batched, Returning, Failing,
            Joined, Late, Deleting, Leaving, Refused, Evicted, Touching, Restarting}
Unread   == {[Returning EXCEPT !.ages = 1]}
Returned == {Case("return", "start", "none", "start", {k2}, {s1})}
=============================================================================
