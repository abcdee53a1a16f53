----------------------------- MODULE MCDeckSync -----------------------------
(* Instances of DeckSync for TLC. *)
EXTENDS DeckSync, TLC

CONSTANTS i1, i2, s1

Idle == [a \in Acts |-> 0]
Calm == [acts |-> [p \in Pages |-> Idle], stops |-> {1, 2, 5}, marks |-> {}, anchored |-> {},
         fresh |-> {}, away |-> {i2}, turns |-> FALSE]
With(sc, p, act, n) == [sc EXCEPT !.acts[p][act] = n]

\* One instructor and a student who both move; at once, or the instructor when all is quiet.
Quick  == With(With(Calm, i1, "move", 2), s1, "move", 2)
Class  == With(With(With(With(With([Calm EXCEPT !.turns = TRUE], i1, "move", 2),
               i1, "force", 1), i1, "draw", 1), s1, "move", 2), s1, "forward", 1)
\* An activity runs on a slide the students are brought to.
Anchor == With(With([Calm EXCEPT !.turns = TRUE, !.anchored = {5}], i1, "move", 3), s1, "move", 2)
\* A boundary is released and taken back.
Bounds == With(With(With([Calm EXCEPT !.turns = TRUE, !.marks = {2, 4}], i1, "move", 3),
               i1, "mark", 2), s1, "move", 2)
\* The instructor moves while its page connects anew.
Early  == With(With(Calm, i1, "move", 3), i1, "cut", 1)
\* The student comes late, or loses its connection or its frame.
Late   == With(With(With([Calm EXCEPT !.fresh = {s1}], i1, "move", 2), s1, "cut", 1), s1, "move", 1)
\* A drawing follows a boundary before the student comes.
Drawn  == With(With(With([Calm EXCEPT !.fresh = {s1}, !.marks = {4}], i1, "move", 1),
               i1, "mark", 1), i1, "draw", 1)
Again  == With(With(With(Calm, i1, "move", 2), s1, "reload", 1), s1, "move", 1)
\* Two instructors, at once.
Rivals == With(With([Calm EXCEPT !.away = {s1}], i1, "move", 2), i2, "move", 2)
\* Two instructors who wait for each other; they lose their frames and connections, turn
\* the sync off and on, or come late.
Turns  == With(With(With(With(With(With([Calm EXCEPT !.turns = TRUE, !.away = {s1}],
               i1, "move", 2), i2, "move", 2), i2, "toggle", 2), i1, "reload", 1), i2, "reload", 1), i1, "cut", 1)
Second == With(With(With([Calm EXCEPT !.turns = TRUE, !.away = {s1}, !.marks = {2, 4}, !.fresh = {i2}],
               i1, "move", 2), i2, "move", 2), i1, "mark", 2)
\* Moves that cross several late reports of a student (README).
Burst  == {With(With(Calm, i1, "move", 3), s1, "move", 1)}
AllScenes == {Quick, Class, Anchor, Bounds, Early, Late, Drawn, Again, Rivals, Turns, Second}
=============================================================================
