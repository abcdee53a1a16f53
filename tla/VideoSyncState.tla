--------------------------- MODULE VideoSyncState ---------------------------
(***************************************************************************)
(* The playback state of a video-sync session and the functions the server *)
(* (src/activities/video-sync/server/routes.ts) and its clients            *)
(* (client/syncMath.ts, client/manager, client/student) compute from it.   *)
(* Times and positions are counted in the same unit; `by` (history) names  *)
(* the command the state goes back to.                                     *)
(***************************************************************************)
EXTENDS Naturals, FiniteSets

CONSTANTS
    None,       \* no stop position, no argument
    Tolerance   \* how far from the stop a playback may end (NATURAL_END_TOLERANCE_SEC)

\* A state; video is the manager whose configuration was taken.
PlayState(videos, ids) ==
    [video : videos \cup {None}, stop : Nat \cup {None}, rev : Nat, playing : BOOLEAN,
     pos : Nat, ts : Nat, by : ids \cup {None}]

\* Before a video is configured.
Unconfigured == [video |-> None, stop |-> None, rev |-> 0, playing |-> FALSE,
                 pos |-> 0, ts |-> 0, by |-> None]

Least(a, b) == IF a <= b THEN a ELSE b
Capped(s, p) == IF s.stop = None THEN p ELSE Least(p, s.stop)

\* Where the playback is at time t.
Position(s, t) ==
    IF s.playing THEN Capped(s, s.pos + IF t > s.ts THEN t - s.ts ELSE 0) ELSE s.pos

\* The state a server answers with at time t: the playback has ended at its stop.
Settled(s, t) ==
    LET p == Position(s, t)
    IN  [s EXCEPT !.pos = p, !.ts = t,
                  !.playing = @ /\ ~(s.stop # None /\ p >= s.stop)]

\* The state a heartbeat, a snapshot or a fetch stores at time t.
Persisted(s, t) ==
    IF s.playing /\ ~Settled(s, t).playing
    THEN [Settled(s, t) EXCEPT !.rev = @ + 1]
    ELSE s

\* Mutant of Commanded: play and pause keep the revision.
Commanded_SameRevision(s, c, t) ==
    Settled([s EXCEPT !.pos = Capped(s, IF c.pos # None THEN c.pos
                                        ELSE IF c.type = "seek" THEN 0 ELSE Position(s, t)),
                      !.playing = c.type = "play", !.ts = t, !.by = c.id], t)

\* What command c (play, pause or seek, at a position or None) makes of it.
Commanded(s, c, t) ==
    Settled([s EXCEPT !.pos = Capped(s, IF c.pos # None THEN c.pos
                                        ELSE IF c.type = "seek" THEN 0 ELSE Position(s, t)),
                      !.playing = c.type = "play", !.rev = @ + 1, !.ts = t, !.by = c.id], t)

\* The configuration by manager m, with a stop position or None.
Configured(s, m, stop, t) ==
    [s EXCEPT !.video = m, !.stop = stop, !.pos = 0, !.playing = FALSE, !.rev = @ + 1, !.ts = t]

\* Mutant of EndMatches: any end of any playback counts.
EndMatches_AnyRevision(s, c) == s.stop = None \/ c.pos + Tolerance >= s.stop

\* A player's report c that its video ended is about the playback in state s.
EndMatches(s, c) == c.rev = s.rev /\ (s.stop = None \/ c.pos + Tolerance >= s.stop)
-----------------------------------------------------------------------------
(* The clients                                                             *)

\* Mutant of Supersedes: ordered by the time stamp alone.
Supersedes_ByTime(cur, new) == cur.video = None \/ new.ts >= cur.ts

\* A client that shows cur takes the incoming state new.  (updatedBy, the code's
\* last tie-breaker, is "instructor" in every configured state.)
Supersedes(cur, new) ==
    \/ cur.video = None
    \/ new.rev > cur.rev
    \/ new.rev = cur.rev /\ new.ts >= cur.ts

\* A manager also never goes back to a session without a video.
ManagerTakes(cur, new) == Supersedes(cur, new) /\ ~(cur.video # None /\ new.video = None)

\* Where Play and Pause are asked to act: where the server says the playback is,
\* except that Play starts over when the video ended or is parked at its stop.
ClickPosition(type, s, ended) ==
    IF type = "play" /\ (ended \/ (s.stop # None /\ s.pos >= s.stop)) THEN 0 ELSE None

\* A queued command would change nothing the manager can see.
Redundant(s, c, t) ==
    /\ c.type # "seek"
    /\ (c.type = "play") = s.playing
    /\ c.pos = None \/ c.pos = Position(s, t)
=============================================================================
