---------------------------- MODULE MCVideoSync -----------------------------
(* Instances of VideoSync for TLC. *)
EXTENDS VideoSync, TLC

CONSTANTS n1, n2, m1, m2, s1

\* A configured session, in which nobody does anything yet.
Calm == [configured |-> TRUE, playing |-> FALSE, stop |-> None, length |-> 1,
         types |-> {"play", "pause"}, clicks |-> [m \in Managers |-> 0], setup |-> {},
         fetch |-> {}, joins |-> [v \in Viewers |-> 0], until |-> 0, faults |-> 0,
         ends |-> FALSE]

\* Two gestures of one manager, and a fault.
Retried == [Calm EXCEPT !.clicks[m1] = 2, !.joins[m1] = 1, !.faults = 1]

\* Two managers; one follows the broadcasts, the other has only loaded the page.
Rivals == [Calm EXCEPT !.clicks = [m \in Managers |-> 1], !.joins[m1] = 1, !.fetch = {m2},
                       !.faults = 1]

Contested == [Rivals EXCEPT !.faults = 0]

\* A playback that reaches its stop while a student watches.
Stopping == [Calm EXCEPT !.stop = 2, !.types = {"play"}, !.clicks[m1] = 1, !.fetch = {m1},
                         !.joins[s1] = 1, !.until = 2]

\* A playback that ends on its managers' players, while one of them seeks, or while
\* requests fail.
Ending == [Calm EXCEPT !.playing = TRUE, !.types = {"seek"}, !.fetch = Managers,
                       !.clicks = [m \in Managers |-> 1], !.until = 1]
EndingBadly == [Calm EXCEPT !.playing = TRUE, !.types = {"pause"}, !.clicks[m1] = 1,
                            !.fetch = {m1}, !.until = 1, !.faults = 2]

\* The playback ends while a gesture is under way.
Overtaking == [Calm EXCEPT !.playing = TRUE, !.types = {"pause"}, !.clicks[m1] = 2,
                           !.fetch = {m1}, !.until = 1]

\* Two managers configure the video.
Opening == [Calm EXCEPT !.configured = FALSE, !.setup = Managers, !.joins[s1] = 1,
                        !.ends = TRUE]

\* Viewers come and go, and the session ends.
Leaving == [Calm EXCEPT !.joins[s1] = 2, !.joins[m1] = 1, !.ends = TRUE]

\* A student misses a broadcast.
Missing == [Stopping EXCEPT !.stop = 1, !.until = 1, !.faults = 1]

\* A playback ends on its manager's player before its gesture is answered.
Outrun == [Calm EXCEPT !.types = {"play"}, !.clicks[m1] = 2, !.joins[m1] = 1, !.until = 1]

Races   == {Retried, Rivals, Stopping, Ending, EndingBadly, Overtaking, Opening, Leaving}
Serving == {Retried, Missing, Outrun, Contested, Stopping}
Rivalry == {Rivals}
=============================================================================
