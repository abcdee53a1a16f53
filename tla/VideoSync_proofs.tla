--------------------------- MODULE VideoSync_proofs ---------------------------
(***************************************************************************)
(* A video-sync session, for any number of instances, managers, students,  *)
(* commands and faults: a command takes effect once, a report that the     *)
(* video ended stops the playback it is about, what viewers show goes      *)
(* forward and agrees at the same revision, and a manager's gestures take  *)
(* effect in the order they were made.                                     *)
(*                                                                         *)
(* The argument is about one history of the session with which every       *)
(* state in transit agrees: which playback each revision was, and which    *)
(* command each id is.  For the order it is about the copies of a gesture  *)
(* that are still on their way.                                            *)
(***************************************************************************)
EXTENDS VideoSync, SequenceTheorems, FiniteSetTheorems, TLAPS

\* The playback at each revision up to the last one as it was first stored, the commands
\* made so far by their ids, and the time.
Chronicle == [at : [Nat -> States], top : Nat, time : Nat, used : SUBSET Ids,
              cmds : [Ids -> Command]]

\* Nothing plays before the video is configured, and a command has one revision in which
\* it plays: what was stored later in its name is paused.
Consistent(h) ==
    /\ h.at[0] = Unconfigured
    /\ \A i \in Nat : i > h.top => h.at[i] = Unconfigured
    /\ \A i, j \in Nat : i # 0 /\ i < j /\ h.at[i].by = h.at[j].by => ~h.at[j].playing
    /\ h.used # {} => h.top # 0

\* The states that agree with h: what time has made of the playback at their revision.
Told(h) == {s \in States : /\ s.rev <= h.top /\ (s.video = None <=> s.rev = 0)
                           /\ h.at[s.rev].ts <= s.ts /\ s.ts <= h.time
                           /\ s = Settled(h.at[s.rev], s.ts)}

\* The commands that agree with it; a report of an end names the playback of its revision.
Made(h) == {c \in Command :
               c.type \in Playing =>
                  /\ c.id \in h.used /\ h.cmds[c.id] = c
                  /\ c.type = "end" => c.rev \in 0..h.top /\ c.saw = h.at[c.rev].by}

\* The requests of a lane.
Proper(who, lane, c) == /\ c.type = "config" => who \in Managers
                        /\ lane \in {"gesture", "end"} => c.type \in Playing

GoodJob(h) == {j \in Job : /\ j.cmd \in Made(h) /\ j.st \in Told(h)
                           /\ j.cmd.type = "config" => j.who \in Managers
                           /\ j.lane # None => /\ j.who \in Viewers /\ j.nth \in 1..MaxTries
                                               /\ Proper(j.who, j.lane, j.cmd)}
GoodRequest(h, v, l) == {r \in Request : r.cmd \in Made(h) /\ r.st \in Told(h) /\ Proper(v, l, r.cmd)}
Sent(h) == {r \in [who : Viewers, lane : Lanes, cmd : Made(h), nth : 1..MaxTries] :
               Proper(r.who, r.lane, r.cmd)}
Wanted(h) == {c \in Made(h) : c.type \in Playing}

\* The inductive invariant: the types of what carries no state or command, and that
\* everything else agrees with a chronicle whose last revision is that of the record.
PlainTyped ==
    /\ scene \in Scenes /\ now \in Nat /\ faults \in Nat
    /\ timer \subseteq Nodes /\ beating \subseteq Nodes
    /\ link \in [Viewers -> Nodes \cup {None}]
    /\ ended \subseteq Managers
    /\ retries \in [Managers -> [{"gesture", "end"} -> 0..MaxRetries]]
    /\ made \in [Managers -> Nat] /\ joined \in [Viewers -> Nat]
    /\ confirmed \subseteq Ids
Subscribed == subs \in [Nodes -> SUBSET Viewers] /\ \A n \in Nodes : IsFiniteSet(subs[n])
RecordOf(h, r) ==
    /\ r \in Record /\ r.st \in Told(h) /\ r.st.rev = h.top
    /\ \A i \in Nat : h.at[i].by \in r.done \cup {None}
Recorded(h) == rec # Gone => RecordOf(h, rec)
Queued(h) == jobs \in [Nodes -> Seq(GoodJob(h))]
Shown(h)  == view \in [Viewers -> Told(h)] /\ inbox \in [Viewers -> Seq(Told(h))]
Opened(h) ==
    /\ open \in [Viewers -> [Lanes -> Request \cup {None}]]
    /\ \A v \in Viewers, l \in Lanes : open[v][l] = None \/ open[v][l] \in GoodRequest(h, v, l)
Asking(h) ==
    /\ want \in [Managers -> [{"gesture", "end"} -> Wanted(h) \cup {None}]]
    /\ net \subseteq Sent(h)
Numbered(h) == \A id \in h.used : id[2] < made[id[1]]
Effective ==
    /\ applied \in Seq(Ids) /\ OncePerCommand
    /\ rec # Gone => \A i \in 1..Len(applied) : applied[i] \in rec.done

Around(h) == Queued(h) /\ Shown(h) /\ Opened(h) /\ Asking(h)
Inv(h) == /\ h \in Chronicle /\ Consistent(h) /\ h.time = now /\ PlainTyped /\ Subscribed /\ Recorded(h)
          /\ Around(h) /\ Numbered(h) /\ Effective
IInv == \E h \in Chronicle : Inv(h)
-----------------------------------------------------------------------------
(* The operators of VideoSyncState                                         *)

LEMMA PositionIs == ASSUME NEW s \in States, NEW t \in Nat PROVE Position(s, t) \in Nat
<1>1. s.pos \in Nat /\ s.ts \in Nat /\ s.stop \in Nat \cup {None}  BY DEF States, PlayState
<1>2. (IF t > s.ts THEN t - s.ts ELSE 0) \in Nat  BY <1>1
<1>3. s.pos + (IF t > s.ts THEN t - s.ts ELSE 0) \in Nat  BY <1>1, <1>2
<1>4. \A p \in Nat : Capped(s, p) \in Nat  BY <1>1 DEF Capped, Least
<1>5. QED  BY <1>1, <1>3, <1>4 DEF Position

\* Looking at a playback changes neither what it is nor its revision.
LEMMA SettledIs ==
    ASSUME NEW s \in States, NEW t \in Nat
    PROVE  /\ Settled(s, t) \in States
           /\ Settled(s, t).rev = s.rev /\ Settled(s, t).by = s.by /\ Settled(s, t).video = s.video
           /\ Settled(s, t).ts = t
           /\ Settled(s, t).playing => s.playing
<1> DEFINE p == Position(s, t)
           e == s.playing /\ ~(s.stop # None /\ p >= s.stop)
<1>1. p \in Nat  BY PositionIs
<1>2. Settled(s, t) = [s EXCEPT !.pos = p, !.ts = t, !.playing = e]  BY DEF Settled
<1>3. e \in BOOLEAN /\ (e => s.playing)  OBVIOUS
<1> HIDE DEF p, e
<1>4. QED  BY <1>1, <1>2, <1>3 DEF States, PlayState

\* A playback that is looked at twice is what the second look alone makes of it.
LEMMA SettledAgain ==
    ASSUME NEW b \in States, NEW t \in Nat, NEW u \in Nat, b.ts <= t, t <= u
    PROVE  Settled(Settled(b, t), u) = Settled(b, u)
<1> DEFINE p == Position(b, t)
           e == b.playing /\ ~(b.stop # None /\ p >= b.stop)
           x == [b EXCEPT !.pos = p, !.ts = t, !.playing = e]
           q == Position(b, u)
           f == b.playing /\ ~(b.stop # None /\ q >= b.stop)
           y == [b EXCEPT !.pos = q, !.ts = u, !.playing = f]
<1>1. Settled(b, t) = x /\ Settled(b, u) = y  BY DEF Settled
<1>2. /\ b.pos \in Nat /\ b.ts \in Nat /\ b.stop \in Nat \cup {None} /\ b.playing \in BOOLEAN
  BY DEF States, PlayState
<1>3. p \in Nat /\ q \in Nat  BY PositionIs
<1>4. p = IF b.playing THEN Capped(b, b.pos + (t - b.ts)) ELSE b.pos
  BY <1>2 DEF Position
<1>5. q = IF b.playing THEN Capped(b, b.pos + (u - b.ts)) ELSE b.pos
  BY <1>2 DEF Position
<1>6. e \in BOOLEAN /\ f \in BOOLEAN
      /\ e = (b.playing /\ ~(b.stop # None /\ p >= b.stop))
      /\ f = (b.playing /\ ~(b.stop # None /\ q >= b.stop))
  BY <1>2
<1> HIDE DEF p, e, q, f
<1>7. x \in States /\ x.pos = p /\ x.ts = t /\ x.playing = e /\ x.stop = b.stop
  BY <1>2, <1>3, <1>6 DEF States, PlayState
<1>8. Position(x, u) = IF e THEN Capped(x, p + (u - t)) ELSE p
  BY <1>2, <1>3, <1>7 DEF Position
<1>9. \A n : Capped(x, n) = Capped(b, n)  BY <1>7 DEF Capped
<1>10. Position(x, u) = q
  <2>1. CASE ~b.playing  BY <2>1, <1>4, <1>5, <1>6, <1>8
  <2>2. CASE b.playing /\ b.stop = None
    <3>1. p = b.pos + (t - b.ts) /\ q = b.pos + (u - b.ts)
      BY <2>2, <1>4, <1>5 DEF Capped
    <3>2. e /\ Position(x, u) = p + (u - t)  BY <2>2, <1>6, <1>8, <1>9 DEF Capped
    <3>3. QED  BY <3>1, <3>2, <1>2
  <2>3. CASE b.playing /\ b.stop # None
    <3>1. b.stop \in Nat  BY <2>3, <1>2
    <3>2. p = Least(b.pos + (t - b.ts), b.stop) /\ q = Least(b.pos + (u - b.ts), b.stop)
      BY <2>3, <1>4, <1>5 DEF Capped
    <3>3. CASE e
      <4> DEFINE at == p >= b.stop
      <4>6. ~at  BY <3>3, <2>3, <1>6
      <4>1. p < b.stop  BY <4>6, <3>1, <1>3
      <4>2. p = b.pos + (t - b.ts)  BY <4>1, <3>1, <3>2, <1>2 DEF Least
      <4>3. Position(x, u) = Least(p + (u - t), b.stop)  BY <3>3, <2>3, <1>8, <1>9 DEF Capped
      <4>4. p + (u - t) = b.pos + (u - b.ts)  BY <4>2, <1>2
      <4>5. QED  BY <4>3, <4>4, <3>2
    <3>4. CASE ~e
      <4>1. p >= b.stop /\ Position(x, u) = p  BY <3>4, <2>3, <1>6, <1>8
      <4>2. b.pos + (t - b.ts) >= b.stop /\ p = b.stop  BY <4>1, <3>1, <3>2, <1>2 DEF Least
      <4>3. b.pos + (u - b.ts) >= b.stop  BY <4>2, <3>1, <1>2
      <4>4. q = b.stop  BY <4>3, <3>1, <3>2, <1>2 DEF Least
      <4>5. QED  BY <4>1, <4>2, <4>4
    <3>5. QED  BY <3>3, <3>4
  <2>4. QED  BY <2>1, <2>2, <2>3, <1>2
<1>11. Settled(x, u) = [x EXCEPT !.pos = q, !.ts = u,
                                 !.playing = e /\ ~(b.stop # None /\ q >= b.stop)]
  BY <1>7, <1>10 DEF Settled
<1>12. (e /\ ~(b.stop # None /\ q >= b.stop)) = f
  <2>1. CASE b.playing /\ b.stop # None
    <3>1. b.stop \in Nat  BY <2>1, <1>2
    <3>2. p = Least(b.pos + (t - b.ts), b.stop) /\ q = Least(b.pos + (u - b.ts), b.stop)
      BY <2>1, <1>4, <1>5 DEF Capped
    <3>3. p >= b.stop => q >= b.stop  BY <3>1, <3>2, <1>2 DEF Least
    <3>4. QED  BY <2>1, <3>3, <1>6
  <2>2. CASE ~(b.playing /\ b.stop # None)  BY <2>2, <1>2, <1>6
  <2>3. QED  BY <2>1, <2>2
<1>13. Settled(x, u) = [x EXCEPT !.pos = q, !.ts = u, !.playing = f]  BY <1>11, <1>12
<1>14. [x EXCEPT !.pos = q, !.ts = u, !.playing = f] = y
  BY <1>2, <1>3, <1>6 DEF States, PlayState
<1>15. QED  BY <1>1, <1>13, <1>14

\* What does not play is what it was when it was stored.
LEMMA StoppedIs ==
    ASSUME NEW s \in States, ~s.playing
    PROVE  Settled(s, s.ts) = s
<1>1. Position(s, s.ts) = s.pos  BY DEF Position
<1>2. Settled(s, s.ts) = [s EXCEPT !.pos = s.pos, !.ts = s.ts, !.playing = FALSE]
  BY <1>1 DEF Settled
<1>3. s.playing = FALSE  BY DEF States, PlayState
<1>4. QED  BY <1>2, <1>3 DEF States, PlayState

\* What is stored after a look is what was there, or the end of it under a new revision.
LEMMA PersistedIs ==
    ASSUME NEW s \in States, NEW t \in Nat
    PROVE  \/ Persisted(s, t) = s
           \/ /\ Persisted(s, t) \in States /\ Persisted(s, t).rev = s.rev + 1
              /\ Persisted(s, t).by = s.by /\ Persisted(s, t).video = s.video
              /\ Persisted(s, t).ts = t
              /\ s.playing /\ ~Persisted(s, t).playing
<1>1. CASE s.playing /\ ~Settled(s, t).playing
  <2> DEFINE z == Settled(s, t)
             r == z.rev + 1
  <2>1. Persisted(s, t) = [z EXCEPT !.rev = r]  BY <1>1 DEF Persisted
  <2>2. ~z.playing  BY <1>1
  <2> HIDE DEF z
  <2>3. z \in States /\ z.rev = s.rev /\ z.by = s.by /\ z.video = s.video /\ z.ts = t
    BY SettledIs DEF z
  <2>4. r \in Nat /\ r = s.rev + 1  BY <2>3 DEF States, PlayState
  <2> HIDE DEF r
  <2>5. [z EXCEPT !.rev = r] \in States  BY <2>3, <2>4 DEF States, PlayState
  <2>6. LET w == [z EXCEPT !.rev = r]
        IN  w.rev = r /\ w.by = z.by /\ w.video = z.video /\ w.playing = z.playing /\ w.ts = z.ts
    BY <2>3 DEF States, PlayState
  <2>7. QED  BY <1>1, <2>1, <2>2, <2>3, <2>4, <2>5, <2>6
<1>2. CASE ~(s.playing /\ ~Settled(s, t).playing)  BY <1>2 DEF Persisted
<1>3. QED  BY <1>1, <1>2

LEMMA CommandedIs ==
    ASSUME NEW s \in States, NEW c \in Command, c.id \in Ids, NEW t \in Nat
    PROVE  /\ Commanded(s, c, t) \in States /\ Commanded(s, c, t).rev = s.rev + 1
           /\ Commanded(s, c, t).by = c.id /\ Commanded(s, c, t).video = s.video
           /\ Commanded(s, c, t).ts = t /\ Settled(Commanded(s, c, t), t) = Commanded(s, c, t)
<1> DEFINE p == Capped(s, IF c.pos # None THEN c.pos
                          ELSE IF c.type = "seek" THEN 0 ELSE Position(s, t))
           e == c.type = "play"
           r == s.rev + 1
           z == [s EXCEPT !.pos = p, !.playing = e, !.rev = r, !.ts = t, !.by = c.id]
<1>1. (IF c.pos # None THEN c.pos ELSE IF c.type = "seek" THEN 0 ELSE Position(s, t)) \in Nat
  BY PositionIs DEF Command
<1>2. p \in Nat  BY <1>1 DEF Capped, Least, States, PlayState
<1>3. e \in BOOLEAN /\ r \in Nat  BY DEF States, PlayState
<1>4. Commanded(s, c, t) = Settled(z, t)  BY DEF Commanded
<1>5. r = s.rev + 1  OBVIOUS
<1> HIDE DEF p, e, r
<1>6. z \in States  BY <1>2, <1>3 DEF States, PlayState
<1>7. z.rev = r /\ z.by = c.id /\ z.video = s.video /\ z.ts = t  BY DEF States, PlayState
<1> HIDE DEF z
<1>8. Settled(Settled(z, t), t) = Settled(z, t)  BY <1>6, <1>7, SettledAgain
<1>9. QED  BY <1>4, <1>5, <1>6, <1>7, <1>8, SettledIs

LEMMA ConfiguredIs ==
    ASSUME NEW s \in States, NEW m \in Managers, NEW stop \in Nat \cup {None}, NEW t \in Nat
    PROVE  /\ Configured(s, m, stop, t) \in States /\ Configured(s, m, stop, t).rev = s.rev + 1
           /\ Configured(s, m, stop, t).by = s.by /\ Configured(s, m, stop, t).video = m
           /\ Configured(s, m, stop, t).ts = t /\ ~Configured(s, m, stop, t).playing
           /\ Configured(s, m, stop, t).pos = 0 /\ Configured(s, m, stop, t).stop = stop
<1> DEFINE r == s.rev + 1
           z == [s EXCEPT !.video = m, !.stop = stop, !.pos = 0, !.playing = FALSE, !.rev = r, !.ts = t]
<1>1. Configured(s, m, stop, t) = z  BY DEF Configured
<1>2. r \in Nat /\ r = s.rev + 1  BY DEF States, PlayState
<1> HIDE DEF r
<1>3. z \in States  BY <1>2 DEF States, PlayState
<1>4. z.rev = r /\ z.by = s.by /\ z.video = m /\ ~z.playing /\ z.ts = t /\ z.pos = 0 /\ z.stop = stop
  BY DEF States, PlayState
<1> HIDE DEF z
<1>5. QED  BY <1>1, <1>2, <1>3, <1>4

LEMMA UnconfiguredIs == Unconfigured \in States
BY DEF Unconfigured, States, PlayState

-----------------------------------------------------------------------------
(* Chronicles                                                              *)

\* What a state that is told says of the playback at its revision.
LEMMA ToldIs ==
    ASSUME NEW h \in Chronicle, NEW s \in Told(h)
    PROVE  /\ s \in States /\ s.rev \in Nat /\ s.rev <= h.top /\ s.ts \in Nat
           /\ h.at[s.rev] \in States /\ h.at[s.rev].ts \in Nat
           /\ s.by = h.at[s.rev].by /\ (s.playing => h.at[s.rev].playing)
<1>1. s \in States /\ s.rev \in Nat /\ s.rev <= h.top /\ s.ts \in Nat
  BY DEF Told, States, PlayState
<1>2. h.at[s.rev] \in States  BY <1>1 DEF Chronicle
<1>3. h.at[s.rev].ts \in Nat  BY <1>2 DEF States, PlayState
<1> DEFINE b == h.at[s.rev]
           t == s.ts
<1>4. s = Settled(b, t)  BY DEF Told
<1>5. b \in States /\ t \in Nat  BY <1>1, <1>2
<1> HIDE DEF b, t
<1>6. Settled(b, t).by = b.by /\ (Settled(b, t).playing => b.playing)  BY <1>5, SettledIs
<1>7. s.by = b.by /\ (s.playing => b.playing)  BY <1>4, <1>6
<1>8. QED  BY <1>1, <1>2, <1>3, <1>7 DEF b

\* What time makes of a state that is told is told.
LEMMA SettledTold ==
    ASSUME NEW h \in Chronicle, NEW s \in Told(h), NEW t \in Nat, s.ts <= t, t <= h.time
    PROVE  Settled(s, t) \in Told(h)
<1> DEFINE b == h.at[s.rev]
           u == s.ts
<1>1. b \in States /\ u \in Nat /\ b.ts \in Nat /\ s \in States  BY ToldIs
<1>2. s = Settled(b, u) /\ b.ts <= u /\ u <= t /\ s.rev <= h.top /\ (s.video = None <=> s.rev = 0)
  BY DEF Told
<1> DEFINE z == Settled(s, t)
<1>3. z \in States /\ z.rev = s.rev /\ z.video = s.video /\ z.ts = t  BY <1>1, SettledIs
<1>4. z = Settled(b, t)
  <2> HIDE DEF b, u
  <2>1. Settled(Settled(b, u), t) = Settled(b, t)  BY <1>1, <1>2, SettledAgain
  <2>2. QED  BY <2>1, <1>2
<1>5. b = h.at[z.rev] /\ b.ts <= t  BY <1>1, <1>2, <1>3
<1> HIDE DEF z, b, u
<1>6. z \in Told(h)  BY <1>2, <1>3, <1>4, <1>5 DEF Told
<1>7. QED  BY <1>6 DEF z

LEMMA UnconfiguredTold ==
    ASSUME NEW h \in Chronicle, Consistent(h)
    PROVE  Unconfigured \in Told(h)
<1> DEFINE u == Unconfigured
<1>1. u.rev = 0 /\ u.playing = FALSE /\ u.video = None /\ u.ts = 0  BY DEF Unconfigured
<1>2. u \in States  BY UnconfiguredIs
<1>3. h.at[0] = u  BY DEF Consistent
<1>4. h.top \in Nat /\ h.time \in Nat  BY DEF Chronicle
<1> HIDE DEF u
<1>5. Settled(u, u.ts) = u  BY <1>1, <1>2, StoppedIs
<1>6. u \in Told(h)  BY <1>1, <1>2, <1>3, <1>4, <1>5 DEF Told
<1>7. QED  BY <1>6 DEF u

LEMMA PlainMade ==
    ASSUME NEW h, NEW type \in {"config", "fetch", "heartbeat", "snapshot", "leave"}
    PROVE  Plain(type) \in Made(h)
<1>1. Plain(type) \in Command  BY DEF Plain, Command
<1>2. Plain(type).type \notin Playing  BY DEF Plain, Playing
<1>3. QED  BY <1>1, <1>2 DEF Made

\* A new job is good if its request is.
LEMMA NewJobGood ==
    ASSUME NEW h \in Chronicle, Consistent(h), NEW c \in Made(h), NEW who \in Viewers \cup Nodes,
           NEW lane \in Lanes \cup {None}, NEW nth \in Nat,
           c.type = "config" => who \in Managers,
           lane # None => who \in Viewers /\ nth \in 1..MaxTries /\ Proper(who, lane, c)
    PROVE  NewJob(c, who, lane, nth) \in GoodJob(h)
<1> DEFINE j == NewJob(c, who, lane, nth)
<1>1. /\ j.cmd = c /\ j.who = who /\ j.lane = lane /\ j.nth = nth /\ j.st = Unconfigured
  BY DEF NewJob
<1>2. j \in Job  BY UnconfiguredIs DEF NewJob, Job, Made
<1> HIDE DEF j
<1>3. j.cmd \in Made(h) /\ j.st \in Told(h)  BY <1>1, UnconfiguredTold
<1>4. j.cmd.type = "config" => j.who \in Managers  BY <1>1
<1>5. j.lane # None => /\ j.who \in Viewers /\ j.nth \in 1..MaxTries
                       /\ Proper(j.who, j.lane, j.cmd)
  BY <1>1
<1>6. j \in GoodJob(h)  BY <1>2, <1>3, <1>4, <1>5 DEF GoodJob
<1>7. QED  BY <1>6 DEF j

\* g tells of whatever h does.
Tells(h, g) == /\ g \in Chronicle /\ Consistent(g)
               /\ Told(h) \subseteq Told(g) /\ Made(h) \subseteq Made(g)
\* g has the next revision, and no other command.
Grows(h, g) == Tells(h, g) /\ g.used = h.used /\ g.time = h.time

\* The next revision, with state z of a playback of its own if it plays.
LEMMA NextRevision ==
    ASSUME NEW h \in Chronicle, Consistent(h), NEW r, RecordOf(h, r),
           NEW z \in States, z.rev = h.top + 1, z.video # None,
           z.ts = h.time, Settled(z, h.time) = z,
           NEW done \in SUBSET Ids, r.done \subseteq done, z.by \in done \cup {None},
           z.playing => z.by \in Ids \ r.done
    PROVE  \E g \in Chronicle : /\ Grows(h, g) /\ z \in Told(g) /\ z.rev = g.top
                                 /\ \A i \in Nat : g.at[i].by \in done \cup {None}
<1> DEFINE k == h.top + 1
           g == [at |-> [h.at EXCEPT ![k] = z], top |-> k, time |-> h.time, used |-> h.used,
                 cmds |-> h.cmds]
<1>1. /\ h.at \in [Nat -> States] /\ h.top \in Nat /\ k \in Nat /\ k > h.top /\ k # 0
      /\ h.time \in Nat /\ h.used \in SUBSET Ids /\ h.cmds \in [Ids -> Command]
  BY DEF Chronicle
<1>2. /\ g.top = k /\ g.used = h.used /\ g.cmds = h.cmds /\ g.at \in [Nat -> States]
      /\ g.time = h.time /\ g.at[k] = z /\ \A i \in Nat : i # k => g.at[i] = h.at[i]
  BY <1>1
<1>3. g \in Chronicle  BY <1>1 DEF Chronicle
<1>4. z.rev = k /\ k = h.top + 1  OBVIOUS
<1> HIDE DEF k, g
<1>5. \A i \in Nat : i <= h.top => g.at[i] = h.at[i]  BY <1>1, <1>2
<1>6. Consistent(g)
  <2>1. g.at[0] = Unconfigured  BY <1>1, <1>2 DEF Consistent
  <2>2. \A i \in Nat : i > g.top => g.at[i] = Unconfigured
    <3> SUFFICES ASSUME NEW i \in Nat, i > k PROVE g.at[i] = Unconfigured  BY <1>2
    <3>1. i > h.top /\ i # k  BY <1>1
    <3>2. QED  BY <3>1, <1>2 DEF Consistent
  <2>3. ASSUME NEW i \in Nat, NEW j \in Nat, i # 0, i < j, g.at[i].by = g.at[j].by
        PROVE  ~g.at[j].playing
    <3>1. CASE j > k
      <4>1. j > h.top /\ j # k  BY <3>1, <1>1
      <4>2. g.at[j] = Unconfigured  BY <4>1, <1>2 DEF Consistent
      <4>3. QED  BY <4>2 DEF Unconfigured
    <3>2. CASE j = k
      <4>1. h.at[i].by \in r.done \cup {None} /\ g.at[i] = h.at[i]
        BY <3>2, <2>3, <1>2 DEF RecordOf
      <4>2. g.at[j] = z  BY <3>2, <1>2
      <4>3. None \notin Ids  BY NamesOK
      <4>4. QED  BY <4>1, <4>2, <4>3, <2>3
    <3>3. CASE j < k
      <4>1. g.at[i] = h.at[i] /\ g.at[j] = h.at[j]  BY <3>3, <2>3, <1>1, <1>2
      <4>2. QED  BY <4>1, <2>3 DEF Consistent
    <3>4. QED  BY <3>1, <3>2, <3>3, <1>1
  <2>4. g.used # {} => g.top # 0  BY <1>1, <1>2
  <2>5. QED  BY <2>1, <2>2, <2>3, <2>4 DEF Consistent
<1>7. Told(h) \subseteq Told(g)
  <2> SUFFICES ASSUME NEW s \in Told(h) PROVE s \in Told(g)  OBVIOUS
  <2>1. s \in States /\ s.rev \in Nat /\ s.rev <= h.top  BY ToldIs
  <2>2. g.at[s.rev] = h.at[s.rev] /\ s.rev <= g.top  BY <2>1, <1>1, <1>2, <1>5
  <2>3. QED  BY <2>1, <2>2, <1>2 DEF Told
<1>8. Made(h) \subseteq Made(g)
  <2> SUFFICES ASSUME NEW c \in Made(h) PROVE c \in Made(g)  OBVIOUS
  <2>1. ASSUME c.type \in Playing, c.type = "end"
        PROVE  c.rev \in 0..g.top /\ c.saw = g.at[c.rev].by
    <3>1. c.rev \in 0..h.top /\ c.saw = h.at[c.rev].by  BY <2>1 DEF Made
    <3>2. c.rev \in Nat /\ c.rev <= h.top  BY <3>1, <1>1
    <3>3. QED  BY <3>1, <3>2, <1>1, <1>2, <1>5
  <2>2. c \in Command /\ (c.type \in Playing => c.id \in g.used /\ g.cmds[c.id] = c)
    BY <1>2 DEF Made
  <2>3. QED  BY <2>1, <2>2 DEF Made
<1>9. z \in Told(g)
  <2>1. z.rev <= g.top /\ z.rev # 0 /\ g.at[z.rev] = z  BY <1>1, <1>2, <1>4
  <2>2. z.ts <= z.ts /\ z.ts <= g.time /\ z = Settled(z, z.ts)  BY <1>1, <1>2
  <2>3. QED  BY <2>1, <2>2 DEF Told
<1>10. ASSUME NEW i \in Nat PROVE g.at[i].by \in done \cup {None}
  <2>1. CASE i = k  BY <2>1, <1>2
  <2>2. CASE i # k  BY <2>2, <1>2 DEF RecordOf
  <2>3. QED  BY <2>1, <2>2
<1>11. QED  BY <1>2, <1>3, <1>4, <1>6, <1>7, <1>8, <1>9, <1>10 DEF Grows, Tells

LEMMA TellsItself == ASSUME NEW h \in Chronicle, Consistent(h) PROVE Grows(h, h)
BY DEF Grows, Tells

\* What a job makes of the record agrees with a chronicle that grows.
LEMMA AfterGrows ==
    ASSUME NEW h \in Chronicle, Inv(h), rec # Gone, NEW j \in GoodJob(h)
    PROVE  \E g \in Chronicle : Grows(h, g) /\ RecordOf(g, After(j))
<1>1. /\ RecordOf(h, rec) /\ Consistent(h) /\ rec \in Record /\ rec.st \in Told(h)
      /\ rec.st.rev = h.top /\ rec.st \in States
  BY DEF Inv, Recorded, RecordOf, Told
<1>2. /\ rec.st.by \in rec.done \cup {None} /\ rec.done \in SUBSET Ids
  <2>1. rec.st.by = h.at[h.top].by  BY <1>1, ToldIs
  <2>2. QED  BY <2>1, <1>1 DEF RecordOf, Record, Chronicle
<1>3. now \in Nat /\ h.time = now /\ j.cmd \in Made(h) /\ j.cmd \in Command /\ j.count \in Nat
  BY DEF Inv, PlainTyped, GoodJob, Job, Made
<1>4. CASE j.cmd.type \in Playing
  <2>1. After(j) = AfterCommand(j)  BY <1>4 DEF After, Playing
  <2>2. CASE Refuses(rec, j.cmd)
    BY <2>1, <2>2, <1>1, TellsItself DEF AfterCommand
  <2>3. CASE ~Refuses(rec, j.cmd)
    <3> DEFINE z == Commanded(rec.st, j.cmd, now)
               done == rec.done \cup {j.cmd.id}
               r == [st |-> z, done |-> done, active |-> j.count]
    <3>1. After(j) = r  BY <2>1, <2>3 DEF AfterCommand
    <3>2. j.cmd.id \in h.used /\ j.cmd.id \in Ids /\ j.cmd.id \notin rec.done
      BY <1>3, <1>4, <2>3 DEF Made, Refuses, Chronicle
    <3>3. /\ z \in States /\ z.rev = h.top + 1 /\ z.by = j.cmd.id /\ z.video = rec.st.video
          /\ z.ts = h.time /\ Settled(z, h.time) = z
      BY <1>1, <1>3, <3>2, CommandedIs
    <3>4. rec.st.video # None  BY <3>2, <1>1 DEF Consistent, Told
    <3>5. done \in SUBSET Ids  BY <1>2, <3>2
    <3>6. r \in Record /\ r.st = z /\ r.done = done  BY <1>3, <3>3, <3>5 DEF Record
    <3> HIDE DEF z
    <3>7. rec.done \subseteq done /\ z.by \in done \cup {None} /\ z.by \in Ids \ rec.done /\ z.video # None
      BY <3>2, <3>3, <3>4
    <3> HIDE DEF done
    <3>8. PICK g \in Chronicle : /\ Grows(h, g) /\ z \in Told(g) /\ z.rev = g.top
                                 /\ \A i \in Nat : g.at[i].by \in done \cup {None}
      BY <1>1, <3>3, <3>5, <3>7, NextRevision
    <3> HIDE DEF r
    <3>9. QED  BY <3>1, <3>6, <3>8 DEF RecordOf
  <2>4. QED  BY <2>2, <2>3
<1>5. CASE j.cmd.type = "config"
  <2>1. After(j) = AfterConfig(j)  BY <1>5 DEF After, Playing
  <2>2. CASE rec.st.video # None
    BY <2>1, <2>2, <1>1, TellsItself DEF AfterConfig
  <2>3. CASE rec.st.video = None
    <3> DEFINE z == Configured(rec.st, j.who, scene.stop, now)
               r == [rec EXCEPT !.st = z, !.active = j.count]
    <3>1. After(j) = r  BY <2>1, <2>3 DEF AfterConfig
    <3>2. j.who \in Managers /\ j.who # None  BY <1>5, NamesOK DEF GoodJob
    <3>3. scene.stop \in Nat \cup {None}  BY ConstantsOK DEF Inv, PlainTyped, Scene
    <3>4. /\ z \in States /\ z.rev = rec.st.rev + 1 /\ z.by = rec.st.by /\ z.video = j.who
          /\ z.ts = h.time /\ ~z.playing
      <4>1. rec.st \in States /\ now \in Nat  BY <1>1, <1>3
      <4> DEFINE st == rec.st
                 m == j.who
                 stop == scene.stop
      <4>2. st \in States /\ m \in Managers /\ stop \in Nat \cup {None}  BY <4>1, <3>2, <3>3
      <4>3. z = Configured(st, m, stop, now)  OBVIOUS
      <4> HIDE DEF st, m, stop, z
      <4>4. /\ z \in States /\ z.rev = st.rev + 1 /\ z.by = st.by /\ z.video = m
            /\ z.ts = now /\ ~z.playing
        <5>1. PICK s \in States, a \in Managers, b \in Nat \cup {None}, t \in Nat :
                 s = st /\ a = m /\ b = stop /\ t = now
          BY <4>1, <4>2
        <5>2. PICK w : w = Configured(s, a, b, t)  OBVIOUS
        <5>3. /\ w \in States /\ w.rev = s.rev + 1 /\ w.by = s.by /\ w.video = a
              /\ w.ts = t /\ ~w.playing
          BY <5>2, ConfiguredIs
        <5>4. w = z  BY <5>1, <5>2, <4>3
        <5>5. QED  BY <5>1, <5>3, <5>4
      <4>5. QED  BY <4>4, <1>3 DEF st, m
    <3> HIDE DEF z
    <3>5. r \in Record /\ r.st = z /\ r.done = rec.done  BY <1>1, <1>3, <3>4 DEF Record
    <3>6. PICK g \in Chronicle : /\ Grows(h, g) /\ z \in Told(g) /\ z.rev = g.top
                                 /\ \A i \in Nat : g.at[i].by \in rec.done \cup {None}
      <4>1. z.rev = h.top + 1 /\ z.video # None /\ z.by \in rec.done \cup {None}
        BY <1>1, <1>2, <3>2, <3>4
      <4>2. /\ Consistent(h) /\ RecordOf(h, rec) /\ rec.done \in SUBSET Ids
            /\ z \in States /\ ~z.playing /\ z.ts = h.time /\ Settled(z, h.time) = z
        BY <1>1, <1>2, <3>4, StoppedIs
      <4> HIDE DEF r
      <4>3. QED  BY <4>1, <4>2, NextRevision, SMTT(60)
    <3> HIDE DEF r
    <3>7. QED  BY <3>1, <3>5, <3>6 DEF RecordOf
  <2>4. QED  BY <2>2, <2>3
<1>6. CASE j.cmd.type = "leave"
  <2> DEFINE r == [rec EXCEPT !.active = j.count]
  <2>1. After(j) = r  BY <1>6 DEF After, AfterLeave, Playing
  <2>2. r \in Record /\ r.st = rec.st /\ r.done = rec.done  BY <1>1, <1>3 DEF Record
  <2> HIDE DEF r
  <2>3. RecordOf(h, r)  BY <2>2, <1>1 DEF RecordOf
  <2>4. QED  BY <2>1, <2>3, <1>1, TellsItself
<1>7. CASE j.cmd.type \notin Playing \cup {"config", "leave"}
  <2> DEFINE z == Persisted(rec.st, now)
             r == [rec EXCEPT !.st = z, !.active = j.count]
  <2>1. After(j) = r  BY <1>7 DEF After, AfterLook
  <2>2. \/ z = rec.st
        \/ /\ z \in States /\ z.rev = h.top + 1 /\ z.by = rec.st.by
           /\ z.video = rec.st.video /\ z.ts = h.time /\ rec.st.playing /\ ~z.playing
    BY <1>1, <1>3, PersistedIs
  <2> HIDE DEF z
  <2>3. r \in Record /\ r.st = z /\ r.done = rec.done  BY <1>1, <1>3, <2>2 DEF Record
  <2> HIDE DEF r
  <2>4. CASE z = rec.st
    <3>1. RecordOf(h, r)  BY <2>3, <2>4, <1>1 DEF RecordOf
    <3>2. QED  BY <3>1, <2>1, <1>1, TellsItself
  <2>5. CASE z # rec.st
    <3>1. rec.st.video # None
      <4>1. h.top # 0  BY <2>2, <2>5, <1>1, ToldIs DEF Consistent, Unconfigured
      <4>2. QED  BY <4>1, <1>1 DEF Told
    <3>2. PICK g \in Chronicle : /\ Grows(h, g) /\ z \in Told(g) /\ z.rev = g.top
                                 /\ \A i \in Nat : g.at[i].by \in rec.done \cup {None}
      <4>1. /\ z \in States /\ z.rev = h.top + 1 /\ z.video # None /\ ~z.playing
            /\ z.by \in rec.done \cup {None} /\ z.ts = h.time /\ Settled(z, h.time) = z
        BY <1>2, <2>2, <2>5, <3>1, StoppedIs
      <4>2. Consistent(h) /\ RecordOf(h, rec) /\ rec.done \in SUBSET Ids  BY <1>1, <1>2
      <4>3. QED  BY <4>1, <4>2, NextRevision, SMTT(60)
    <3>3. QED  BY <2>1, <2>3, <3>2 DEF RecordOf
  <2>6. QED  BY <2>4, <2>5
<1>8. QED  BY <1>4, <1>5, <1>6, <1>7

-----------------------------------------------------------------------------
(* Parts of a step                                                         *)

LEMMA TellsAround == ASSUME NEW h, NEW g, Around(h), Tells(h, g) PROVE Around(g)
<1>1. Told(h) \subseteq Told(g) /\ Made(h) \subseteq Made(g)  BY DEF Tells
<1>2. GoodJob(h) \subseteq GoodJob(g)  BY <1>1 DEF GoodJob
<1>3. Seq(GoodJob(h)) \subseteq Seq(GoodJob(g))  BY <1>2, SeqMonotonic
<1>4. Seq(Told(h)) \subseteq Seq(Told(g))  BY <1>1, SeqMonotonic
<1>5. Queued(g)  BY <1>3 DEF Around, Queued
<1>6. Shown(g)  BY <1>1, <1>4 DEF Around, Shown
<1>7. \A v \in Viewers, l \in Lanes : GoodRequest(h, v, l) \subseteq GoodRequest(g, v, l)
  BY <1>1 DEF GoodRequest
<1>8. Opened(g)  BY <1>7 DEF Around, Opened
<1>9. Sent(h) \subseteq Sent(g)  BY <1>1 DEF Sent
<1>10. Wanted(h) \subseteq Wanted(g)  BY <1>1 DEF Wanted
<1>11. Asking(g)  BY <1>9, <1>10 DEF Around, Asking
<1>12. QED  BY <1>5, <1>6, <1>8, <1>11 DEF Around

LEMMA HeadGood ==
    ASSUME NEW h, Queued(h), NEW n \in Nodes, NEW stage, Running(n, stage)
    PROVE  Head(jobs[n]) \in GoodJob(h) /\ Tail(jobs[n]) \in Seq(GoodJob(h))
BY HeadTailProperties DEF Queued, Running

LEMMA GoOnQueued ==
    ASSUME NEW h, Queued(h), NEW n \in Nodes, NEW stage, Running(n, stage),
           NEW j \in GoodJob(h), GoOn(n, j)
    PROVE  Queued(h)'
<1>1. Tail(jobs[n]) \in Seq(GoodJob(h))  BY HeadGood
<1>2. <<j>> \in Seq(GoodJob(h))  OBVIOUS
<1>3. <<j>> \o Tail(jobs[n]) \in Seq(GoodJob(h))  BY <1>1, <1>2, ConcatProperties
<1>4. QED  BY <1>3 DEF Queued, GoOn

LEMMA DoneQueued ==
    ASSUME NEW h, Queued(h), NEW n \in Nodes, NEW stage, Running(n, stage),
           NEW js \in Seq(GoodJob(h)), Done(n, js)
    PROVE  Queued(h)'
<1>1. Tail(jobs[n]) \in Seq(GoodJob(h))  BY HeadGood
<1>2. Tail(jobs[n]) \o js \in Seq(GoodJob(h))  BY <1>1, ConcatProperties
<1>3. QED  BY <1>2 DEF Queued, Done

LEMMA EndQueued ==
    ASSUME NEW h, Queued(h), NEW n \in Nodes, NEW stage, Running(n, stage), Done(n, <<>>)
    PROVE  Queued(h)'
BY DoneQueued, EmptySeq

LEMMA AppendQueued ==
    ASSUME NEW h, Queued(h), NEW n \in Nodes, NEW j \in GoodJob(h),
           jobs' = [jobs EXCEPT ![n] = Append(@, j)]
    PROVE  Queued(h)'
<1>1. Append(jobs[n], j) \in Seq(GoodJob(h))  BY AppendProperties DEF Queued
<1>2. QED  BY <1>1 DEF Queued

LEMMA LeaveGood ==
    ASSUME NEW h \in Chronicle, Consistent(h), NEW n \in Nodes
    PROVE  LeaveJob(n) \in GoodJob(h)
<1>1. Plain("leave") \in Made(h) /\ Plain("leave").type # "config"  BY PlainMade DEF Plain
<1>2. NewJob(Plain("leave"), n, None, 1) \in GoodJob(h)  BY <1>1, NewJobGood
<1>3. QED  BY <1>2 DEF LeaveJob

\* The answer to a good job with a state that is told.
LEMMA ReplyOpened ==
    ASSUME NEW h, Opened(h), NEW j \in GoodJob(h), NEW st \in Told(h),
           NEW kind \in {"pending", "state", "refused", "retry", "lost"}, Reply(j, kind, st)
    PROVE  Opened(h)'
<1>1. CASE j.lane # None /\ open[j.who][j.lane] = Asked(j.cmd, j.nth)
  <2> DEFINE v == j.who
             l == j.lane
             r == Replied(open[v][l], kind, st)
  <2>1. v \in Viewers /\ l \in Lanes /\ j.nth \in 1..MaxTries /\ Proper(v, l, j.cmd)
        /\ j.cmd \in Made(h) /\ j.cmd \in Command
    <3>1. j \in Job /\ j.cmd \in Made(h)  BY DEF GoodJob
    <3>2. v \in Viewers /\ j.nth \in 1..MaxTries /\ Proper(v, l, j.cmd)  BY <1>1 DEF GoodJob
    <3>3. l \in Lanes  BY <3>1, <1>1 DEF Job
    <3>4. j.cmd \in Command  BY <3>1 DEF Job
    <3>5. QED  BY <3>1, <3>2, <3>3, <3>4
  <2>2. open' = [open EXCEPT ![v][l] = r]  BY <1>1 DEF Reply
  <2> DEFINE a == Asked(j.cmd, j.nth)
  <2>3. a \in Request /\ a.cmd = j.cmd  BY <2>1, UnconfiguredIs DEF Asked, Request
  <2>4. r = Replied(a, kind, st) /\ st \in States  BY <1>1 DEF Told
  <2> HIDE DEF a
  <2>5. r \in Request /\ r.cmd = j.cmd /\ r.st = st
    <3>1. Replied(a, kind, st) \in Request  BY <2>3, <2>4 DEF Replied, Request
    <3>2. Replied(a, kind, st).cmd = a.cmd /\ Replied(a, kind, st).st = st
      BY <2>3 DEF Replied, Request
    <3>3. QED  BY <2>3, <2>4, <3>1, <3>2
  <2> HIDE DEF v, l, r
  <2>6. r \in GoodRequest(h, v, l)  BY <2>1, <2>5 DEF GoodRequest
  <2>7. open' \in [Viewers -> [Lanes -> Request \cup {None}]]
    BY <2>1, <2>2, <2>5 DEF Opened
  <2>8. ASSUME NEW w \in Viewers, NEW k \in Lanes
        PROVE  open'[w][k] = IF w = v /\ k = l THEN r ELSE open[w][k]
    BY <2>1, <2>2 DEF Opened
  <2>9. QED  BY <2>6, <2>7, <2>8 DEF Opened
<1>2. CASE ~(j.lane # None /\ open[j.who][j.lane] = Asked(j.cmd, j.nth))
  <2>1. open' = open  BY <1>2 DEF Reply
  <2>2. QED  BY <2>1 DEF Opened
<1>3. QED  BY <1>1, <1>2

LEMMA FailOpened ==
    ASSUME NEW h \in Chronicle, Consistent(h), Opened(h), NEW j \in GoodJob(h),
           NEW kind \in {"refused", "retry"}, Fail(j, kind)
    PROVE  Opened(h)'
BY UnconfiguredTold, ReplyOpened DEF Fail

LEMMA SameOpened == ASSUME NEW h, Opened(h), UNCHANGED open PROVE Opened(h)'
BY DEF Opened

LEMMA SocketsClosed ==
    ASSUME NEW h \in Chronicle, Consistent(h), Queued(h), Shown(h), Subscribed,
           link \in [Viewers -> Nodes \cup {None}], NEW n \in Nodes, NEW stage, Running(n, stage),
           NEW vs \in SUBSET subs[n], CloseSockets(n, vs), UNCHANGED view
    PROVE  /\ Queued(h)' /\ Shown(h)' /\ Subscribed'
           /\ link' \in [Viewers -> Nodes \cup {None}]
<1>1. IsFiniteSet(vs)  BY FS_Subset DEF Subscribed
<1>2. Cardinality(vs) \in Nat  BY <1>1, FS_CardinalityType
<1> DEFINE c == Cardinality(vs)
           js == [k \in 1..c |-> LeaveJob(n)]
<1>3. js \in Seq(GoodJob(h))
  <2> HIDE DEF c
  <2>1. LeaveJob(n) \in GoodJob(h)  BY LeaveGood
  <2>2. js \in [1..c -> GoodJob(h)]  BY <2>1
  <2>3. c \in Nat  BY <1>2 DEF c
  <2>4. QED  BY <2>2, <2>3, SeqDef
<1>4. Done(n, js)  BY DEF CloseSockets
<1>5. Queued(h)'
  <2> HIDE DEF js
  <2>1. QED  BY <1>3, <1>4, DoneQueued
<1>6. Shown(h)'
  <2>1. inbox' \in [Viewers -> Seq(Told(h))]
    <3>1. inbox' = [v \in Viewers |-> IF v \in vs THEN <<>> ELSE inbox[v]]  BY DEF CloseSockets
    <3>2. <<>> \in Seq(Told(h))  BY EmptySeq
    <3>3. QED  BY <3>1, <3>2 DEF Shown
  <2>2. QED  BY <2>1 DEF Shown
<1>7. Subscribed'
  <2>1. subs' = [subs EXCEPT ![n] = subs[n] \ vs]  BY DEF CloseSockets
  <2>2. subs[n] \ vs \in SUBSET Viewers  BY DEF Subscribed
  <2>3. IsFiniteSet(subs[n] \ vs)  BY FS_Subset DEF Subscribed
  <2>4. subs' \in [Nodes -> SUBSET Viewers]  BY <2>1, <2>2 DEF Subscribed
  <2>5. \A k \in Nodes : subs'[k] = IF k = n THEN subs[n] \ vs ELSE subs[k]
    BY <2>1 DEF Subscribed
  <2>6. QED  BY <2>3, <2>4, <2>5 DEF Subscribed
<1>8. link' \in [Viewers -> Nodes \cup {None}]
  <2>1. link' = [v \in Viewers |-> IF v \in vs THEN None ELSE link[v]]  BY DEF CloseSockets
  <2>2. QED  BY <2>1
<1>9. QED  BY <1>5, <1>6, <1>7, <1>8

\* What took effect, when nothing more does, and when command id does.
LEMMA EffectiveKept ==
    ASSUME Effective, UNCHANGED applied,
           rec' # Gone => rec # Gone /\ rec.done \subseteq rec'.done
    PROVE  Effective'
BY DEF Effective, OncePerCommand

LEMMA EffectiveMore ==
    ASSUME Effective, rec # Gone, NEW id \in Ids \ rec.done, applied' = Append(applied, id),
           rec.done \cup {id} \subseteq rec'.done
    PROVE  Effective'
<1>1. /\ applied \in Seq(Ids) /\ Len(applied) \in Nat
      /\ \A i, j \in 1..Len(applied) : applied[i] = applied[j] => i = j
      /\ \A i \in 1..Len(applied) : applied[i] \in rec.done
  BY LenProperties DEF Effective, OncePerCommand
<1>2. /\ applied' \in Seq(Ids) /\ Len(applied') = Len(applied) + 1
      /\ applied'[Len(applied) + 1] = id
      /\ \A i \in 1..Len(applied) : applied'[i] = applied[i]
  BY <1>1, AppendProperties
<1>3. \A i \in 1..Len(applied') : i \in 1..Len(applied) \/ i = Len(applied) + 1
  BY <1>1, <1>2
<1>4. \A i \in 1..Len(applied') : applied'[i] \in rec'.done
  BY <1>1, <1>2, <1>3
<1>5. \A i, j \in 1..Len(applied') : applied'[i] = applied'[j] => i = j
  BY <1>1, <1>2, <1>3
<1>6. QED  BY <1>2, <1>4, <1>5 DEF Effective, OncePerCommand

-----------------------------------------------------------------------------
(* The steps of an instance                                                *)

\* A step that leaves the clients alone.
LEMMA InstanceStep ==
    ASSUME NEW h \in Chronicle, Inv(h), NEW g \in Chronicle, Grows(h, g), LeaveClients,
           Recorded(g)', Queued(g)', Opened(g)', Shown(g)', Subscribed', Effective',
           timer' \subseteq Nodes, beating' \subseteq Nodes,
           link' \in [Viewers -> Nodes \cup {None}], faults' \in Nat, confirmed' \subseteq Ids
    PROVE  Inv(g)'
<1>1. Around(g)  BY TellsAround DEF Inv, Grows
<1>2. Asking(g)'  BY <1>1 DEF Around, Asking, LeaveClients
<1>3. Numbered(g)'  BY DEF Inv, Numbered, Grows, LeaveClients
<1>4. PlainTyped' /\ g.time = now'  BY DEF Inv, PlainTyped, LeaveClients, Grows
<1>5. QED  BY <1>2, <1>3, <1>4 DEF Inv, Around, Grows, Tells

\* One that leaves the record alone too, and the sockets.
LEMMA QuietStep ==
    ASSUME NEW h \in Chronicle, Inv(h), LeaveClients, KeepSockets, UNCHANGED <<rec, history>>,
           Queued(h)', Opened(h)', timer' \subseteq Nodes, beating' \subseteq Nodes, faults' \in Nat
    PROVE  Inv(h)'
<1>1. Recorded(h)' /\ Subscribed' /\ Shown(h)' /\ Effective'
  BY EffectiveKept DEF Inv, Recorded, Subscribed, KeepSockets, history, Shown, Around, LeaveClients
<1>2. link' \in [Viewers -> Nodes \cup {None}] /\ confirmed' \subseteq Ids
  BY DEF Inv, PlainTyped, KeepSockets, history
<1>3. QED  BY <1>1, <1>2, TellsItself, InstanceStep DEF Inv

\* What the parts of the invariant say before a step.
LEMMA Before ==
    ASSUME NEW h \in Chronicle, Inv(h)
    PROVE  /\ Consistent(h) /\ Queued(h) /\ Shown(h) /\ Opened(h) /\ Asking(h) /\ Subscribed /\ Effective
           /\ timer \subseteq Nodes /\ beating \subseteq Nodes /\ faults \in Nat
           /\ now \in Nat /\ h.time = now
           /\ link \in [Viewers -> Nodes \cup {None}] /\ confirmed \subseteq Ids
           /\ \A n \in Nodes : Cardinality(subs[n]) \in Nat
BY FS_CardinalityType DEF Inv, Around, PlainTyped, Subscribed

\* A job that goes on keeps what it is about.
LEMMA OnwardGood ==
    ASSUME NEW h, NEW j \in GoodJob(h), NEW at \in {"commit", "project", "publish"}, NEW count \in Nat,
           NEW st \in Told(h)
    PROVE  /\ [j EXCEPT !.at = at, !.count = count] \in GoodJob(h)
           /\ [j EXCEPT !.at = at, !.st = st] \in GoodJob(h)
<1> DEFINE a == [j EXCEPT !.at = at, !.count = count]
           b == [j EXCEPT !.at = at, !.st = st]
<1>1. j \in Job /\ st \in States  BY DEF GoodJob, Told
<1>2. a \in Job /\ b \in Job  BY <1>1 DEF Job
<1>3. /\ a.cmd = j.cmd /\ a.who = j.who /\ a.lane = j.lane /\ a.nth = j.nth /\ a.st = j.st
      /\ b.cmd = j.cmd /\ b.who = j.who /\ b.lane = j.lane /\ b.nth = j.nth /\ b.st = st
  BY <1>1 DEF Job
<1> HIDE DEF a, b
<1>4. a \in GoodJob(h) /\ b \in GoodJob(h)  BY <1>2, <1>3 DEF GoodJob
<1>5. QED  BY <1>4 DEF a, b

LEMMA ReadToCommitInv ==
    ASSUME NEW h \in Chronicle, Inv(h), NEW n \in Nodes, ReadToCommit(n) PROVE Inv(h)'
<1> DEFINE j == Head(jobs[n])
           a == [j EXCEPT !.at = "commit", !.count = Cardinality(subs[n])]
<1>1. Running(n, "read") /\ GoOn(n, a) /\ KeepSockets /\ LeaveClients
      /\ UNCHANGED <<rec, timer, beating, open, faults, history>>
  BY DEF ReadToCommit, Types
<1>2. a \in GoodJob(h)  BY <1>1, Before, HeadGood, OnwardGood DEF GoodJob
<1> HIDE DEF a
<1>3. Queued(h)'  BY <1>1, <1>2, Before, GoOnQueued
<1>4. QED  BY <1>1, <1>3, Before, SameOpened, QuietStep

LEMMA ReadConfigInv ==
    ASSUME NEW h \in Chronicle, Inv(h), NEW n \in Nodes, ReadConfig(n) PROVE Inv(h)'
<1> DEFINE j == Head(jobs[n])
           a == [j EXCEPT !.at = "commit", !.count = Cardinality(subs[n])]
<1>1. /\ Running(n, "read") /\ KeepSockets /\ LeaveClients
      /\ UNCHANGED <<rec, timer, beating, faults, history>>
      /\ \/ GoOn(n, a) /\ UNCHANGED open
         \/ Fail(j, "refused") /\ Done(n, <<>>)
  BY DEF ReadConfig, Types
<1>2. j \in GoodJob(h) /\ a \in GoodJob(h)  BY <1>1, Before, HeadGood, OnwardGood DEF GoodJob
<1> HIDE DEF a, j
<1>3. Queued(h)'  BY <1>1, <1>2, Before, GoOnQueued, EndQueued
<1>4. Opened(h)'  BY <1>1, <1>2, Before, SameOpened, FailOpened
<1>5. QED  BY <1>1, <1>3, <1>4, Before, QuietStep

\* A heartbeat or a fetch that stores nothing.
LEMMA ReadToProjectInv ==
    ASSUME NEW h \in Chronicle, Inv(h), NEW n \in Nodes, ReadToProject(n) PROVE Inv(h)'
<1> DEFINE j == Head(jobs[n])
           st == Settled(rec.st, now)
           a == [j EXCEPT !.at = "commit", !.count = Cardinality(subs[n])]
           b == [j EXCEPT !.at = "publish", !.st = st]
<1>1. /\ Running(n, "read") /\ KeepSockets /\ LeaveClients /\ rec # Gone
      /\ UNCHANGED <<rec, timer, beating, faults, history>>
      /\ \/ GoOn(n, a) /\ UNCHANGED open
         \/ Answer(j, st) /\ Done(n, <<>>)
         \/ GoOn(n, b) /\ UNCHANGED open
  BY DEF ReadToProject, Types
<1>2. j \in GoodJob(h) /\ a \in GoodJob(h)  BY <1>1, Before, HeadGood, OnwardGood DEF GoodJob
<1>3. st \in Told(h)
  <2> DEFINE s == rec.st
  <2>1. s \in Told(h)  BY <1>1 DEF Inv, Recorded, RecordOf
  <2>2. s.ts <= now /\ now \in Nat /\ now <= h.time  BY <2>1, Before DEF Told
  <2> HIDE DEF s
  <2>3. Settled(s, now) \in Told(h)  BY <2>1, <2>2, SettledTold
  <2>4. QED  BY <2>3 DEF s
<1>4. b \in GoodJob(h)  BY <1>2, <1>3, OnwardGood
<1> HIDE DEF a, b, j, st
<1>5. Queued(h)'  BY <1>1, <1>2, <1>4, Before, GoOnQueued, EndQueued
<1>6. Opened(h)'  BY <1>1, <1>2, <1>3, Before, SameOpened, ReplyOpened DEF Answer
<1>7. QED  BY <1>1, <1>5, <1>6, Before, QuietStep

\* What was committed is projected once more, with a later clock.
LEMMA ProjectInv ==
    ASSUME NEW h \in Chronicle, Inv(h), NEW n \in Nodes, Project(n) PROVE Inv(h)'
<1> DEFINE j == Head(jobs[n])
           st == Settled(j.st, now)
           b == [j EXCEPT !.at = "publish", !.st = st]
<1>1. /\ Running(n, "project") /\ KeepSockets /\ LeaveClients
      /\ UNCHANGED <<rec, timer, beating, faults, history>>
      /\ \/ GoOn(n, b) /\ UNCHANGED open
         \/ Answer(j, st) /\ Done(n, <<>>)
  BY DEF Project
<1>2. j \in GoodJob(h)  BY <1>1, Before, HeadGood
<1>3. st \in Told(h)
  <2> DEFINE s == j.st
  <2>1. s \in Told(h)  BY <1>2 DEF GoodJob
  <2>2. s.ts <= now /\ now \in Nat /\ now <= h.time  BY <2>1, Before DEF Told
  <2> HIDE DEF s
  <2>3. Settled(s, now) \in Told(h)  BY <2>1, <2>2, SettledTold
  <2>4. QED  BY <2>3 DEF s
<1>4. b \in GoodJob(h)  BY <1>2, <1>3, OnwardGood
<1> HIDE DEF b, j, st
<1>5. Queued(h)'  BY <1>1, <1>4, Before, GoOnQueued, EndQueued
<1>6. Opened(h)'  BY <1>1, <1>2, <1>3, Before, SameOpened, ReplyOpened DEF Answer
<1>7. QED  BY <1>1, <1>5, <1>6, Before, QuietStep

LEMMA BeatUnheardInv ==
    ASSUME NEW h \in Chronicle, Inv(h), NEW n \in Nodes, BeatUnheard(n) PROVE Inv(h)'
<1>1. Running(n, "read") /\ KeepSockets /\ LeaveClients /\ Done(n, <<>>)
      /\ UNCHANGED <<rec, open, faults, history>>
      /\ timer' \subseteq timer /\ beating' \subseteq beating
  BY DEF BeatUnheard, Types, StopHeartbeat
<1>2. Queued(h)'  BY <1>1, Before, EndQueued
<1>3. QED  BY <1>1, <1>2, Before, SameOpened, QuietStep

LEMMA RequestFindsNoneInv ==
    ASSUME NEW h \in Chronicle, Inv(h), NEW n \in Nodes, RequestFindsNone(n) PROVE Inv(h)'
<1>1. PICK stage : Running(n, stage)  BY DEF RequestFindsNone, Types
<1>2. KeepSockets /\ LeaveClients /\ Done(n, <<>>) /\ Fail(Head(jobs[n]), "refused")
      /\ UNCHANGED <<rec, timer, beating, faults, history>>
  BY DEF RequestFindsNone
<1>3. Head(jobs[n]) \in GoodJob(h)  BY <1>1, Before, HeadGood
<1>4. Queued(h)' /\ Opened(h)'  BY <1>1, <1>2, <1>3, Before, EndQueued, FailOpened
<1>5. QED  BY <1>2, <1>4, Before, QuietStep

LEMMA LeaveFindsNoneInv ==
    ASSUME NEW h \in Chronicle, Inv(h), NEW n \in Nodes, LeaveFindsNone(n) PROVE Inv(h)'
<1>1. PICK stage : Running(n, stage)  BY DEF LeaveFindsNone, Types
<1>2. KeepSockets /\ LeaveClients /\ Done(n, <<>>) /\ UNCHANGED <<rec, open, faults, history>>
      /\ timer' \subseteq timer /\ beating' \subseteq beating
  BY DEF LeaveFindsNone, StopHeartbeat
<1>3. Queued(h)'  BY <1>1, <1>2, Before, EndQueued
<1>4. QED  BY <1>2, <1>3, Before, SameOpened, QuietStep

\* The sockets vs of an instance are closed by a step that leaves the record alone.
LEMMA ClosingStep ==
    ASSUME NEW h \in Chronicle, Inv(h), NEW n \in Nodes, NEW stage, Running(n, stage),
           NEW vs \in SUBSET subs[n], CloseSockets(n, vs), LeaveClients,
           UNCHANGED <<rec, history>>, Opened(h)', timer' \subseteq Nodes, beating' \subseteq Nodes,
           faults' \in Nat
    PROVE  Inv(h)'
<1>1. /\ Queued(h)' /\ Shown(h)' /\ Subscribed'
      /\ link' \in [Viewers -> Nodes \cup {None}]
  BY Before, SocketsClosed DEF LeaveClients
<1>2. Recorded(h)' /\ Effective' /\ confirmed' \subseteq Ids
  BY EffectiveKept, Before DEF Inv, Recorded, history
<1>3. QED  BY <1>1, <1>2, TellsItself, Before, InstanceStep

LEMMA BeatFindsNoneInv ==
    ASSUME NEW h \in Chronicle, Inv(h), NEW n \in Nodes, BeatFindsNone(n) PROVE Inv(h)'
<1>1. PICK stage : Running(n, stage)  BY DEF BeatFindsNone, Types
<1>2. CloseSockets(n, subs[n]) /\ LeaveClients /\ UNCHANGED <<rec, open, faults, history>>
      /\ timer' \subseteq timer /\ beating' \subseteq beating
  BY DEF BeatFindsNone, StopHeartbeat
<1>3. QED  BY <1>1, <1>2, Before, SameOpened, ClosingStep

LEMMA SnapshotFindsNoneInv ==
    ASSUME NEW h \in Chronicle, Inv(h), NEW n \in Nodes, SnapshotFindsNone(n) PROVE Inv(h)'
<1>1. PICK stage : Running(n, stage)  BY DEF SnapshotFindsNone, Types
<1>2. CloseSockets(n, OwnSocket(n)) /\ LeaveClients
      /\ UNCHANGED <<rec, timer, beating, open, faults, history>>
  BY DEF SnapshotFindsNone
<1>3. OwnSocket(n) \in SUBSET subs[n]  BY DEF OwnSocket
<1>4. QED  BY <1>1, <1>2, <1>3, Before, SameOpened, ClosingStep

\* The commit of the running job: the record becomes what After makes of it.
LEMMA CommitStep ==
    ASSUME NEW h \in Chronicle, Inv(h), NEW g \in Chronicle, Grows(h, g), rec # Gone,
           NEW n \in Nodes, Running(n, "commit"), RecordOf(g, rec'), LeaveClients,
           Queued(g)', Opened(g)', Shown(g)', Subscribed',
           \/ UNCHANGED applied /\ rec.done \subseteq rec'.done
           \/ \E id \in Ids \ rec.done : applied' = Append(applied, id) /\ rec.done \cup {id} \subseteq rec'.done,
           timer' \subseteq Nodes, beating' \subseteq Nodes,
           link' \in [Viewers -> Nodes \cup {None}], faults' \in Nat, UNCHANGED confirmed
    PROVE  Inv(g)'
<1>1. Effective'  BY Before, EffectiveKept, EffectiveMore
<1>2. Recorded(g)'  BY DEF Recorded
<1>3. confirmed' \subseteq Ids  BY Before
<1>4. QED  BY <1>1, <1>2, <1>3, InstanceStep

\* The commands that After takes to have been done, and the one it does.
LEMMA AfterDone ==
    ASSUME NEW h \in Chronicle, Inv(h), rec # Gone, NEW j \in GoodJob(h)
    PROVE  /\ rec.done \subseteq After(j).done
           /\ j.cmd.type \in Playing /\ ~Refuses(rec, j.cmd)
                => /\ j.cmd.id \in Ids \ rec.done
                   /\ rec.done \cup {j.cmd.id} \subseteq After(j).done
<1>1. rec \in Record  BY DEF Inv, Recorded, RecordOf
<1>2. CASE j.cmd.type \in Playing
  <2>1. After(j) = AfterCommand(j)  BY <1>2 DEF After, Playing
  <2>2. j.cmd.id \in Ids  BY <1>2 DEF GoodJob, Made, Chronicle
  <2>3. QED  BY <2>1, <2>2 DEF AfterCommand, Refuses
<1>3. CASE j.cmd.type \notin Playing
  <2>1. After(j) \in {AfterConfig(j), AfterLeave(j), AfterLook(j)}  BY <1>3 DEF After, Playing
  <2>2. AfterConfig(j).done = rec.done /\ AfterLeave(j).done = rec.done /\ AfterLook(j).done = rec.done
    BY <1>1 DEF AfterConfig, AfterLeave, AfterLook, Record
  <2>3. QED  BY <1>3, <2>1, <2>2
<1>4. QED  BY <1>2, <1>3

\* What a commit has to go on with.
LEMMA CommitBefore ==
    ASSUME NEW h \in Chronicle, Inv(h), rec # Gone, NEW n \in Nodes, Running(n, "commit")
    PROVE  /\ Head(jobs[n]) \in GoodJob(h)
           /\ \E g \in Chronicle :
                 /\ Grows(h, g) /\ RecordOf(g, After(Head(jobs[n]))) /\ Consistent(g)
                 /\ Head(jobs[n]) \in GoodJob(g) /\ After(Head(jobs[n])).st \in Told(g)
                 /\ After(Head(jobs[n])).st \in States
                 /\ Queued(g) /\ Shown(g) /\ Opened(g)
<1>1. Head(jobs[n]) \in GoodJob(h)  BY Before, HeadGood
<1>2. PICK g \in Chronicle : Grows(h, g) /\ RecordOf(g, After(Head(jobs[n])))
  BY <1>1, AfterGrows
<1>3. Around(g) /\ Consistent(g)  BY <1>2, TellsAround DEF Inv, Grows, Tells
<1>4. Head(jobs[n]) \in GoodJob(g)  BY <1>3, HeadGood DEF Around
<1>5. QED  BY <1>1, <1>2, <1>3, <1>4 DEF Around, RecordOf, Told

LEMMA CommitCommandInv ==
    ASSUME NEW h \in Chronicle, Inv(h), NEW n \in Nodes, CommitCommand(n)
    PROVE  \E g \in Chronicle : Inv(g)'
<1> DEFINE j == Head(jobs[n])
           r == After(j)
           b == [j EXCEPT !.at = "publish", !.st = r.st]
<1>1. /\ Running(n, "commit") /\ j.cmd.type \in Playing /\ rec # Gone /\ LeaveClients /\ KeepSockets
      /\ UNCHANGED <<timer, beating, faults, confirmed>>
  BY DEF CommitCommand, Types
<1>2. r = AfterCommand(j)  BY <1>1 DEF After, Playing
<1>3. /\ rec' = r
      /\ \/ Answer(j, r.st) /\ Done(n, <<>>) /\ UNCHANGED applied
         \/ /\ ~Refuses(rec, j.cmd) /\ applied' = Append(applied, j.cmd.id)
            /\ GoOn(n, b) /\ UNCHANGED open
  BY <1>2 DEF CommitCommand
<1>4. j \in GoodJob(h)  BY <1>1, CommitBefore
<1>5. PICK g \in Chronicle : /\ Grows(h, g) /\ RecordOf(g, r) /\ j \in GoodJob(g) /\ r.st \in Told(g)
                             /\ Queued(g) /\ Shown(g) /\ Opened(g)
  BY <1>1, CommitBefore
<1>6. /\ rec.done \subseteq r.done
      /\ ~Refuses(rec, j.cmd) => j.cmd.id \in Ids \ rec.done /\ rec.done \cup {j.cmd.id} \subseteq r.done
  BY <1>1, <1>4, AfterDone
<1>7. b \in GoodJob(g)  BY <1>5, OnwardGood
<1> HIDE DEF j, r, b
<1>8. Queued(g)'  BY <1>1, <1>3, <1>5, <1>7, GoOnQueued, EndQueued
<1>9. Opened(g)'  BY <1>3, <1>5, SameOpened, ReplyOpened DEF Answer
<1>10. Shown(g)' /\ Subscribed' /\ link' \in [Viewers -> Nodes \cup {None}]
  BY <1>1, <1>5, Before DEF Shown, Subscribed, KeepSockets, LeaveClients
<1>11. Inv(g)'
  BY <1>1, <1>3, <1>5, <1>6, <1>8, <1>9, <1>10, Before, CommitStep
<1>12. QED  BY <1>11

LEMMA CommitConfigInv ==
    ASSUME NEW h \in Chronicle, Inv(h), NEW n \in Nodes, CommitConfig(n)
    PROVE  \E g \in Chronicle : Inv(g)'
<1> DEFINE j == Head(jobs[n])
           r == After(j)
           b == [j EXCEPT !.at = "publish", !.st = r.st]
<1>1. /\ Running(n, "commit") /\ j.cmd.type = "config" /\ rec # Gone /\ LeaveClients /\ KeepSockets
      /\ UNCHANGED <<timer, beating, faults, history>>
  BY DEF CommitConfig, Types
<1>2. r = AfterConfig(j)  BY <1>1 DEF After, Playing
<1>3. /\ rec' = r
      /\ \/ Fail(j, "refused") /\ Done(n, <<>>)
         \/ GoOn(n, b) /\ UNCHANGED open
  BY <1>2 DEF CommitConfig
<1>4. j \in GoodJob(h)  BY <1>1, CommitBefore
<1>5. PICK g \in Chronicle : /\ Grows(h, g) /\ RecordOf(g, r) /\ j \in GoodJob(g) /\ r.st \in Told(g)
                             /\ Queued(g) /\ Shown(g) /\ Opened(g) /\ Consistent(g)
  BY <1>1, CommitBefore
<1>6. rec.done \subseteq r.done  BY <1>1, <1>4, AfterDone
<1>7. b \in GoodJob(g)  BY <1>5, OnwardGood
<1> HIDE DEF j, r, b
<1>8. Queued(g)'  BY <1>1, <1>3, <1>5, <1>7, GoOnQueued, EndQueued
<1>9. Opened(g)'  BY <1>3, <1>5, SameOpened, FailOpened
<1>10. Shown(g)' /\ Subscribed' /\ link' \in [Viewers -> Nodes \cup {None}]
  BY <1>1, <1>5, Before DEF Shown, Subscribed, KeepSockets, LeaveClients
<1>11. UNCHANGED <<applied, confirmed>>  BY <1>1 DEF history
<1>12. Inv(g)'
  BY <1>1, <1>3, <1>5, <1>6, <1>8, <1>9, <1>10, <1>11, Before, CommitStep
<1>13. QED  BY <1>12

\* A heartbeat or a fetch stores what it finds.
LEMMA CommitLookInv ==
    ASSUME NEW h \in Chronicle, Inv(h), NEW n \in Nodes, CommitLook(n)
    PROVE  \E g \in Chronicle : Inv(g)'
<1> DEFINE j == Head(jobs[n])
           r == After(j)
           b == [j EXCEPT !.at = "project", !.st = r.st]
<1>1. /\ Running(n, "commit") /\ j.cmd.type \in {"heartbeat", "fetch"} /\ rec # Gone
      /\ LeaveClients /\ KeepSockets /\ UNCHANGED <<timer, beating, open, faults, history>>
  BY DEF CommitLook, Types
<1>2. r = AfterLook(j)  BY <1>1 DEF After, Playing
<1>3. rec' = r /\ GoOn(n, b)  BY <1>2 DEF CommitLook
<1>4. j \in GoodJob(h)  BY <1>1, CommitBefore
<1>5. PICK g \in Chronicle : /\ Grows(h, g) /\ RecordOf(g, r) /\ j \in GoodJob(g) /\ r.st \in Told(g)
                             /\ Queued(g) /\ Shown(g) /\ Opened(g)
  BY <1>1, CommitBefore
<1>6. rec.done \subseteq r.done  BY <1>1, <1>4, AfterDone
<1>7. b \in GoodJob(g)  BY <1>5, OnwardGood
<1> HIDE DEF j, r, b
<1>8. Queued(g)' /\ Opened(g)'  BY <1>1, <1>3, <1>5, <1>7, GoOnQueued, SameOpened
<1>9. Shown(g)' /\ Subscribed' /\ link' \in [Viewers -> Nodes \cup {None}]
  BY <1>1, <1>5, Before DEF Shown, Subscribed, KeepSockets, LeaveClients
<1>10. UNCHANGED <<applied, confirmed>>  BY <1>1 DEF history
<1>11. Inv(g)'  BY <1>1, <1>3, <1>5, <1>6, <1>8, <1>9, <1>10, Before, CommitStep
<1>12. QED  BY <1>11

\* A frame is put into some inboxes.
LEMMA FramesShown ==
    ASSUME NEW h, Shown(h), NEW vs, NEW st \in Told(h), UNCHANGED view,
           inbox' = [v \in Viewers |-> IF v \in vs THEN Append(inbox[v], st) ELSE inbox[v]]
    PROVE  Shown(h)'
<1>1. \A v \in Viewers : Append(inbox[v], st) \in Seq(Told(h))  BY AppendProperties DEF Shown
<1>2. QED  BY <1>1 DEF Shown

LEMMA CommitSnapshotInv ==
    ASSUME NEW h \in Chronicle, Inv(h), NEW n \in Nodes, CommitSnapshot(n)
    PROVE  \E g \in Chronicle : Inv(g)'
<1> DEFINE j == Head(jobs[n])
           r == After(j)
           vs == OwnSocket(n)
<1>1. /\ Running(n, "commit") /\ j.cmd.type = "snapshot" /\ rec # Gone /\ LeaveClients
      /\ Done(n, <<>>) /\ UNCHANGED <<subs, link, timer, beating, open, faults, history>>
  BY DEF CommitSnapshot, Types
<1>2. r = AfterLook(j)  BY <1>1 DEF After, Playing
<1>3. /\ rec' = r
      /\ inbox' = [v \in Viewers |-> IF v \in vs THEN Append(inbox[v], r.st) ELSE inbox[v]]
  BY <1>2 DEF CommitSnapshot
<1>4. j \in GoodJob(h)  BY <1>1, CommitBefore
<1>5. PICK g \in Chronicle : /\ Grows(h, g) /\ RecordOf(g, r) /\ j \in GoodJob(g) /\ r.st \in Told(g)
                             /\ Queued(g) /\ Shown(g) /\ Opened(g)
  BY <1>1, CommitBefore
<1>6. rec.done \subseteq r.done  BY <1>1, <1>4, AfterDone
<1> HIDE DEF j, r, vs
<1>7. Queued(g)' /\ Opened(g)'  BY <1>1, <1>5, EndQueued, SameOpened
<1>8. Shown(g)'  BY <1>1, <1>3, <1>5, FramesShown DEF LeaveClients
<1>9. Subscribed' /\ link' \in [Viewers -> Nodes \cup {None}]
  BY <1>1, Before DEF Subscribed
<1>10. UNCHANGED <<applied, confirmed>>  BY <1>1 DEF history
<1>11. Inv(g)'  BY <1>1, <1>3, <1>5, <1>6, <1>7, <1>8, <1>9, <1>10, Before, CommitStep
<1>12. QED  BY <1>11

LEMMA CommitLeaveInv ==
    ASSUME NEW h \in Chronicle, Inv(h), NEW n \in Nodes, CommitLeave(n)
    PROVE  \E g \in Chronicle : Inv(g)'
<1> DEFINE j == Head(jobs[n])
           r == After(j)
<1>1. /\ Running(n, "commit") /\ j.cmd.type = "leave" /\ rec # Gone /\ LeaveClients /\ KeepSockets
      /\ Done(n, <<>>) /\ UNCHANGED <<open, faults, history>>
      /\ timer' \subseteq timer /\ beating' \subseteq beating
  BY DEF CommitLeave, Types, StopHeartbeat
<1>2. r = AfterLeave(j)  BY <1>1 DEF After, Playing
<1>3. rec' = r  BY <1>2 DEF CommitLeave
<1>4. j \in GoodJob(h)  BY <1>1, CommitBefore
<1>5. PICK g \in Chronicle : /\ Grows(h, g) /\ RecordOf(g, r) /\ j \in GoodJob(g)
                             /\ Queued(g) /\ Shown(g) /\ Opened(g)
  BY <1>1, CommitBefore
<1>6. rec.done \subseteq r.done  BY <1>1, <1>4, AfterDone
<1> HIDE DEF j, r
<1>7. Queued(g)' /\ Opened(g)'  BY <1>1, <1>5, EndQueued, SameOpened
<1>8. Shown(g)' /\ Subscribed' /\ link' \in [Viewers -> Nodes \cup {None}]
  BY <1>1, <1>5, Before DEF Shown, Subscribed, KeepSockets, LeaveClients
<1>9. UNCHANGED <<applied, confirmed>> /\ timer' \subseteq Nodes /\ beating' \subseteq Nodes
  BY <1>1, Before DEF history
<1>10. Inv(g)'  BY <1>1, <1>3, <1>5, <1>6, <1>7, <1>8, <1>9, Before, CommitStep
<1>11. QED  BY <1>10

\* The running job ends in a failure.
LEMMA FailedParts ==
    ASSUME NEW g \in Chronicle, Consistent(g), Queued(g), Shown(g), Subscribed,
           link \in [Viewers -> Nodes \cup {None}], NEW n \in Nodes, NEW stage, Running(n, stage),
           \/ CloseSockets(n, OwnSocket(n))
           \/ Done(n, <<>>) /\ KeepSockets,
           UNCHANGED view
    PROVE  Queued(g)' /\ Shown(g)' /\ Subscribed' /\ link' \in [Viewers -> Nodes \cup {None}]
<1>1. CASE CloseSockets(n, OwnSocket(n))
  <2>1. OwnSocket(n) \in SUBSET subs[n]  BY DEF OwnSocket
  <2>2. QED  BY <1>1, <2>1, SocketsClosed
<1>2. CASE Done(n, <<>>) /\ KeepSockets
  BY <1>2, EndQueued DEF Shown, Subscribed, KeepSockets
<1>3. QED  BY <1>1, <1>2

LEMMA StoreFailsInv ==
    ASSUME NEW h \in Chronicle, Inv(h), NEW n \in Nodes, StoreFails(n)
    PROVE  \E g \in Chronicle : Inv(g)'
<1> DEFINE j == Head(jobs[n])
           r == After(j)
<1>1. /\ LeaveClients /\ Fail(j, "retry") /\ UNCHANGED <<timer, confirmed>>
      /\ CloseSockets(n, OwnSocket(n)) \/ (Done(n, <<>>) /\ KeepSockets)
  BY DEF StoreFails
<1>2. beating' \subseteq beating  BY DEF StoreFails
<1>3. faults' \in Nat  BY Before DEF StoreFails, Mistake
<1>4. view' = view  BY <1>1 DEF LeaveClients
<1>5. CASE \E stage \in {"read", "commit"} : Running(n, stage) /\ UNCHANGED <<rec, applied>>
  <2>1. PICK stage : Running(n, stage)  BY <1>5
  <2>2. j \in GoodJob(h)  BY <2>1, Before, HeadGood
  <2> HIDE DEF j
  <2>3. Opened(h)'  BY <1>1, <2>2, Before, FailOpened
  <2>4. /\ Queued(h)' /\ Shown(h)' /\ Subscribed' /\ link' \in [Viewers -> Nodes \cup {None}]
    BY <1>1, <1>4, <2>1, Before, FailedParts
  <2>5. Recorded(h)' /\ Effective'
    BY <1>5, Before, EffectiveKept DEF Inv, Recorded
  <2>6. Inv(h)'
    BY <1>1, <1>2, <1>3, <2>3, <2>4, <2>5, Before, TellsItself, InstanceStep
  <2>7. QED  BY <2>6
<1>6. CASE /\ Running(n, "commit") /\ rec # Gone /\ rec' = r
           /\ applied' = IF j.cmd.type \notin Playing \/ Refuses(rec, j.cmd) THEN applied
                         ELSE Append(applied, j.cmd.id)
  <2>1. j \in GoodJob(h)  BY <1>6, CommitBefore
  <2>2. PICK g \in Chronicle : /\ Grows(h, g) /\ RecordOf(g, r) /\ j \in GoodJob(g) /\ Consistent(g)
                               /\ Queued(g) /\ Shown(g) /\ Opened(g)
    BY <1>6, CommitBefore
  <2>3. \/ UNCHANGED applied /\ rec.done \subseteq r.done
        \/ \E id \in Ids \ rec.done : applied' = Append(applied, id) /\ rec.done \cup {id} \subseteq r.done
    BY <1>6, <2>1, AfterDone
  <2> HIDE DEF j, r
  <2>4. Opened(g)'  BY <1>1, <2>2, FailOpened
  <2>5. /\ Queued(g)' /\ Shown(g)' /\ Subscribed' /\ link' \in [Viewers -> Nodes \cup {None}]
    BY <1>1, <1>4, <1>6, <2>2, Before, FailedParts
  <2>6. Inv(g)'
    BY <1>1, <1>2, <1>3, <1>6, <2>2, <2>3, <2>4, <2>5, Before, CommitStep
  <2>7. QED  BY <2>6
<1>7. QED
  <2>1. \/ \E stage \in {"read", "commit"} : Running(n, stage) /\ UNCHANGED <<rec, applied>>
        \/ /\ Running(n, "commit") /\ rec # Gone /\ rec' = r
           /\ applied' = IF j.cmd.type \notin Playing \/ Refuses(rec, j.cmd) THEN applied
                         ELSE Append(applied, j.cmd.id)
    BY DEF StoreFails
  <2>2. QED  BY <1>5, <1>6, <2>1

LEMMA PublishInv ==
    ASSUME NEW h \in Chronicle, Inv(h), NEW n \in Nodes, Publish(n) PROVE Inv(h)'
<1> DEFINE j == Head(jobs[n])
<1>1. /\ Running(n, "publish") /\ LeaveClients /\ Done(n, <<>>) /\ Answer(j, j.st)
      /\ UNCHANGED <<rec, subs, link, timer, history>> /\ beating' \subseteq beating
  BY DEF Publish
<1>2. faults' \in Nat  BY Before DEF Publish, Mistake
<1>3. PICK vs : inbox' = [v \in Viewers |-> IF v \in vs THEN Append(inbox[v], j.st) ELSE inbox[v]]
  <2>1. PICK hear \in SUBSET Nodes :
           inbox' = [v \in Viewers |-> IF \E k \in hear : v \in subs[k]
                                       THEN Append(inbox[v], j.st) ELSE inbox[v]]
    BY DEF Publish
  <2> DEFINE vs == {v \in Viewers : \E k \in hear : v \in subs[k]}
  <2>2. inbox' = [v \in Viewers |-> IF v \in vs THEN Append(inbox[v], j.st) ELSE inbox[v]]
    BY <2>1
  <2>3. QED  BY <2>2
<1>4. j \in GoodJob(h) /\ j.st \in Told(h)  BY <1>1, Before, HeadGood DEF GoodJob
<1> HIDE DEF j
<1>5. Queued(h)' /\ Opened(h)'  BY <1>1, <1>4, Before, EndQueued, ReplyOpened DEF Answer
<1>6. Shown(h)'  BY <1>1, <1>3, <1>4, Before, FramesShown DEF LeaveClients
<1>7. Recorded(h)' /\ Effective' /\ Subscribed' /\ confirmed' \subseteq Ids
  BY <1>1, Before, EffectiveKept DEF Inv, Recorded, Subscribed, history
<1>8. QED  BY <1>1, <1>2, <1>5, <1>6, <1>7, Before, TellsItself, InstanceStep

LEMMA StepInv ==
    ASSUME NEW h \in Chronicle, Inv(h), NEW n \in Nodes, Step(n)
    PROVE  \E g \in Chronicle : Inv(g)'
<1>1. CASE \/ ReadToCommit(n) \/ ReadConfig(n) \/ ReadToProject(n) \/ BeatUnheard(n)
           \/ RequestFindsNone(n) \/ BeatFindsNone(n) \/ SnapshotFindsNone(n) \/ LeaveFindsNone(n)
           \/ Project(n) \/ Publish(n)
  <2>1. Inv(h)'
    BY <1>1, ReadToCommitInv, ReadConfigInv, ReadToProjectInv, BeatUnheardInv, RequestFindsNoneInv,
       BeatFindsNoneInv, SnapshotFindsNoneInv, LeaveFindsNoneInv, ProjectInv, PublishInv
  <2>2. QED  BY <2>1
<1>2. CASE \/ CommitCommand(n) \/ CommitConfig(n) \/ CommitLook(n)
           \/ CommitSnapshot(n) \/ CommitLeave(n)
  BY <1>2, CommitCommandInv, CommitConfigInv, CommitLookInv, CommitSnapshotInv, CommitLeaveInv
<1>3. QED  BY <1>1, <1>2 DEF Step
-----------------------------------------------------------------------------
(* The clients                                                             *)

\* A step that leaves the record alone, and adds no command.
LEMMA ClientStep ==
    ASSUME NEW h \in Chronicle, Inv(h), UNCHANGED <<rec, applied, now>>, Queued(h)', Shown(h)',
           Opened(h)', Asking(h)', Subscribed', PlainTyped', UNCHANGED made
    PROVE  Inv(h)'
<1>1. Recorded(h)' /\ Effective' /\ Numbered(h)'
  BY Before, EffectiveKept DEF Inv, Recorded, Numbered
<1>2. QED  BY <1>1 DEF Inv, Around

LEMMA ReceiveShown ==
    ASSUME NEW h, Shown(h), ended \subseteq Managers, NEW v \in Viewers, NEW new \in Told(h),
           Receive(v, new)
    PROVE  view' \in [Viewers -> Told(h)] /\ ended' \subseteq Managers
BY DEF Shown, Receive

LEMMA PostOpened ==
    ASSUME NEW h \in Chronicle, Consistent(h), Opened(h), net \subseteq Sent(h), NEW v \in Viewers,
           NEW lane \in Lanes, NEW c \in Made(h), NEW nth \in 1..MaxTries, Proper(v, lane, c),
           Post(v, lane, c, nth)
    PROVE  Opened(h)' /\ net' \subseteq Sent(h)
<1> DEFINE a == Asked(c, nth)
           r == [who |-> v, lane |-> lane, cmd |-> c, nth |-> nth]
<1>1. c \in Command  BY DEF Made
<1>2. a \in Request /\ a.cmd = c /\ a.st = Unconfigured
  BY <1>1, UnconfiguredIs DEF Asked, Request
<1>3. open' = [open EXCEPT ![v][lane] = a] /\ net' = net \cup {r}  BY DEF Post
<1>4. r \in Sent(h)  BY DEF Sent
<1> HIDE DEF a, r
<1>5. a \in GoodRequest(h, v, lane)  BY <1>2, UnconfiguredTold DEF GoodRequest
<1>6. open' \in [Viewers -> [Lanes -> Request \cup {None}]]  BY <1>2, <1>3 DEF Opened
<1>7. \A w \in Viewers, k \in Lanes :
         open'[w][k] = IF w = v /\ k = lane THEN a ELSE open[w][k]
  BY <1>3 DEF Opened
<1>8. QED  BY <1>3, <1>4, <1>5, <1>6, <1>7 DEF Opened

LEMMA CloseOpened ==
    ASSUME NEW h, Opened(h), NEW v \in Viewers, NEW lane \in Lanes, Close(v, lane)
    PROVE  Opened(h)'
<1>1. open' = [open EXCEPT ![v][lane] = None]  BY DEF Close
<1>2. open' \in [Viewers -> [Lanes -> Request \cup {None}]]  BY <1>1 DEF Opened
<1>3. \A w \in Viewers, k \in Lanes :
         open'[w][k] = IF w = v /\ k = lane THEN None ELSE open[w][k]
  BY <1>1 DEF Opened
<1>4. QED  BY <1>2, <1>3 DEF Opened

LEMMA WantTyped ==
    ASSUME NEW h, Asking(h), PlainTyped, NEW m \in Managers, NEW lane \in {"gesture", "end"},
           NEW c \in Wanted(h) \cup {None}, NEW k \in 0..MaxRetries, Want(m, lane, c, k)
    PROVE  /\ want' \in [Managers -> [{"gesture", "end"} -> Wanted(h) \cup {None}]]
           /\ retries' \in [Managers -> [{"gesture", "end"} -> 0..MaxRetries]]
BY DEF Want, Asking, PlainTyped

\* The answer in a lane.
LEMMA AnswerTold ==
    ASSUME NEW h, Opened(h), NEW v \in Viewers, NEW lane \in Lanes, open[v][lane] # None
    PROVE  /\ open[v][lane].st \in Told(h) /\ open[v][lane].cmd \in Made(h)
           /\ open[v][lane].nth \in 1..MaxTries /\ Proper(v, lane, open[v][lane].cmd)
<1>1. open[v][lane] \in GoodRequest(h, v, lane)  BY DEF Opened
<1>2. open[v][lane] \in Request  BY <1>1 DEF GoodRequest
<1>3. QED  BY <1>1, <1>2 DEF GoodRequest, Request

LEMMA DeliverInv ==
    ASSUME NEW h \in Chronicle, Inv(h), NEW v \in Viewers, Deliver(v) PROVE Inv(h)'
<1>1. /\ inbox[v] # <<>> /\ Receive(v, Head(inbox[v]))
      /\ inbox' = [inbox EXCEPT ![v] = Tail(inbox[v])]
      /\ UNCHANGED <<scene, now, server, link, joined, asking, faults, history>>
  BY DEF Deliver
<1>2. Head(inbox[v]) \in Told(h) /\ Tail(inbox[v]) \in Seq(Told(h))
  BY <1>1, Before, HeadTailProperties DEF Shown
<1>3. view' \in [Viewers -> Told(h)] /\ ended' \subseteq Managers
  BY <1>1, <1>2, Before, ReceiveShown DEF Inv, PlainTyped
<1>4. Shown(h)'  BY <1>1, <1>2, <1>3, Before DEF Shown
<1>5. Queued(h)' /\ Opened(h)' /\ Asking(h)' /\ Subscribed'
  BY <1>1, Before DEF Queued, Opened, Asking, Subscribed, server, asking
<1>6. PlainTyped'  BY <1>1, <1>3 DEF Inv, PlainTyped, server, asking, history
<1>7. QED  BY <1>1, <1>4, <1>5, <1>6, ClientStep DEF server, asking, history

LEMMA LoadedInv ==
    ASSUME NEW h \in Chronicle, Inv(h), NEW v \in Viewers, NEW lane \in Lanes, Loaded(v, lane)
    PROVE  Inv(h)'
<1>1. /\ open[v][lane] # None /\ Close(v, lane)
      /\ Receive(v, open[v][lane].st) \/ UNCHANGED <<view, ended>>
      /\ UNCHANGED <<scene, now, server, sockets, want, retries, net, made, faults, history>>
  BY DEF Loaded, Answered
<1>2. open[v][lane].st \in Told(h)  BY <1>1, Before, AnswerTold
<1>3. view' \in [Viewers -> Told(h)] /\ ended' \subseteq Managers
  BY <1>1, <1>2, Before, ReceiveShown DEF Inv, PlainTyped, Shown
<1>4. Shown(h)'  BY <1>1, <1>3, Before DEF Shown, sockets
<1>5. Opened(h)'  BY <1>1, Before, CloseOpened
<1>6. Queued(h)' /\ Asking(h)' /\ Subscribed'
  BY <1>1, Before DEF Queued, Asking, Subscribed, server
<1>7. PlainTyped'  BY <1>1, <1>3 DEF Inv, PlainTyped, server, sockets, history
<1>8. QED  BY <1>1, <1>4, <1>5, <1>6, <1>7, ClientStep DEF server, history

LEMMA ConnectInv ==
    ASSUME NEW h \in Chronicle, Inv(h), NEW v \in Viewers, NEW n \in Nodes, Connect(v, n)
    PROVE  Inv(h)'
<1> DEFINE j == NewJob(Plain("snapshot"), v, None, joined[v] + 1)
<1>1. /\ joined' = [joined EXCEPT ![v] = joined[v] + 1]
      /\ link' = [link EXCEPT ![v] = n]
      /\ subs' = [subs EXCEPT ![n] = subs[n] \cup {v}]
      /\ timer' = timer \cup {n}
      /\ jobs' = [jobs EXCEPT ![n] = Append(@, j)]
      /\ UNCHANGED <<scene, now, rec, beating, inbox, view, ended, asking, faults, history>>
  BY DEF Connect
<1>2. joined \in [Viewers -> Nat] /\ joined[v] + 1 \in Nat  BY DEF Inv, PlainTyped
<1>3. j \in GoodJob(h)
  <2>1. Plain("snapshot") \in Made(h) /\ Plain("snapshot").type # "config"  BY PlainMade DEF Plain
  <2>2. QED  BY <2>1, <1>2, Before, NewJobGood
<1> HIDE DEF j
<1>4. Queued(h)'  BY <1>1, <1>3, Before, AppendQueued
<1>5. Subscribed'
  <2>1. IsFiniteSet(subs[n] \cup {v}) /\ subs[n] \cup {v} \in SUBSET Viewers
    BY Before, FS_AddElement DEF Subscribed
  <2>2. \A k \in Nodes : subs'[k] = IF k = n THEN subs[n] \cup {v} ELSE subs[k]
    BY <1>1, Before DEF Subscribed
  <2>3. subs' \in [Nodes -> SUBSET Viewers]  BY <1>1, <2>1, Before DEF Subscribed
  <2>4. QED  BY <2>1, <2>2, <2>3, Before DEF Subscribed
<1>6. Shown(h)' /\ Opened(h)' /\ Asking(h)'
  BY <1>1, Before DEF Shown, Opened, Asking, asking
<1>7. joined' \in [Viewers -> Nat] /\ link' \in [Viewers -> Nodes \cup {None}] /\ timer' \subseteq Nodes
  BY <1>1, <1>2, Before
<1>8. PlainTyped'  BY <1>1, <1>7 DEF Inv, PlainTyped, asking, history
<1>9. QED  BY <1>1, <1>4, <1>5, <1>6, <1>8, ClientStep DEF asking, history

LEMMA DisconnectInv ==
    ASSUME NEW h \in Chronicle, Inv(h), NEW v \in Viewers, Disconnect(v) PROVE Inv(h)'
<1> DEFINE n == link[v]
<1>1. /\ n # None /\ link' = [link EXCEPT ![v] = None] /\ inbox' = [inbox EXCEPT ![v] = <<>>]
      /\ subs' = [subs EXCEPT ![n] = subs[n] \ {v}]
      /\ jobs' = [jobs EXCEPT ![n] = Append(@, LeaveJob(n))]
      /\ UNCHANGED <<scene, now, rec, timer, beating, joined, view, ended, asking, faults, history>>
  BY DEF Disconnect
<1>2. n \in Nodes  BY <1>1, Before
<1> HIDE DEF n
<1>3. Queued(h)'  BY <1>1, <1>2, Before, LeaveGood, AppendQueued
<1>4. Subscribed'
  <2>1. IsFiniteSet(subs[n] \ {v}) /\ subs[n] \ {v} \in SUBSET Viewers
    BY <1>2, Before, FS_RemoveElement DEF Subscribed
  <2>2. \A k \in Nodes : subs'[k] = IF k = n THEN subs[n] \ {v} ELSE subs[k]
    BY <1>1, Before DEF Subscribed
  <2>3. subs' \in [Nodes -> SUBSET Viewers]  BY <1>1, <2>1, Before DEF Subscribed
  <2>4. QED  BY <2>1, <2>2, <2>3, Before DEF Subscribed
<1>5. Shown(h)'
  <2>1. <<>> \in Seq(Told(h))  BY EmptySeq
  <2>2. QED  BY <1>1, <2>1, Before DEF Shown
<1>6. Opened(h)' /\ Asking(h)'  BY <1>1, Before DEF Opened, Asking, asking
<1>7. link' \in [Viewers -> Nodes \cup {None}]  BY <1>1, Before
<1>8. PlainTyped'  BY <1>1, <1>7 DEF Inv, PlainTyped, asking, history
<1>9. QED  BY <1>1, <1>3, <1>4, <1>5, <1>6, <1>8, ClientStep DEF asking, history

LEMMA ArriveInv ==
    ASSUME NEW h \in Chronicle, Inv(h), NEW r \in net, NEW n \in Nodes, Arrive(r, n) PROVE Inv(h)'
<1> DEFINE j == NewJob(r.cmd, r.who, r.lane, r.nth)
<1>1. /\ net' = net \ {r} /\ jobs' = [jobs EXCEPT ![n] = Append(@, j)]
      /\ UNCHANGED <<scene, now, rec, subs, timer, beating, sockets, view, ended, want, open,
                     retries, made, faults, history>>
  BY DEF Arrive
<1>2. r \in Sent(h)  BY Before DEF Asking
<1>3. r \in [who : Viewers, lane : Lanes, cmd : Made(h), nth : 1..MaxTries]
      /\ Proper(r.who, r.lane, r.cmd)
  BY <1>2 DEF Sent
<1>4. r.who \in Viewers /\ r.lane \in Lanes /\ r.cmd \in Made(h) /\ r.nth \in 1..MaxTries
  BY <1>3
<1>5. r.nth \in Nat /\ (r.cmd.type = "config" => r.who \in Managers)
  BY <1>3, <1>4 DEF Proper
<1>6. j \in GoodJob(h)
  BY <1>3, <1>4, <1>5, Before, NewJobGood
<1> HIDE DEF j
<1>7. Queued(h)'  BY <1>1, <1>6, Before, AppendQueued
<1>8. Shown(h)' /\ Opened(h)' /\ Asking(h)' /\ Subscribed'
  BY <1>1, Before DEF Shown, Opened, Asking, Subscribed, sockets
<1>9. PlainTyped'  BY <1>1 DEF Inv, PlainTyped, sockets, history
<1>10. QED  BY <1>1, <1>7, <1>8, <1>9, ClientStep DEF sockets, history

LEMMA HeartbeatDueInv ==
    ASSUME NEW h \in Chronicle, Inv(h), NEW n \in Nodes, HeartbeatDue(n) PROVE Inv(h)'
<1> DEFINE j == NewJob(Plain("heartbeat"), n, None, 1)
<1>1. /\ beating' = beating \cup {n} /\ jobs' = [jobs EXCEPT ![n] = Append(@, j)]
      /\ UNCHANGED <<scene, now, rec, subs, timer, sockets, view, ended, asking, faults, history>>
  BY DEF HeartbeatDue
<1>2. j \in GoodJob(h)
  <2>1. Plain("heartbeat") \in Made(h) /\ Plain("heartbeat").type # "config"  BY PlainMade DEF Plain
  <2>2. QED  BY <2>1, Before, NewJobGood
<1> HIDE DEF j
<1>3. Queued(h)'  BY <1>1, <1>2, Before, AppendQueued
<1>4. Shown(h)' /\ Opened(h)' /\ Asking(h)' /\ Subscribed'
  BY <1>1, Before DEF Shown, Opened, Asking, Subscribed, sockets, asking
<1>5. PlainTyped'  BY <1>1 DEF Inv, PlainTyped, sockets, asking, history
<1>6. QED  BY <1>1, <1>3, <1>4, <1>5, ClientStep DEF asking, history

LEMMA TransportFailsInv ==
    ASSUME NEW h \in Chronicle, Inv(h), NEW v \in Viewers, NEW lane \in Lanes, TransportFails(v, lane)
    PROVE  Inv(h)'
<1> DEFINE r == open[v][lane]
<1>1. /\ r # None
      /\ \/ r.nth % 2 = 1 /\ Post(v, lane, r.cmd, r.nth + 1)
         \/ open' = [open EXCEPT ![v][lane].reply = "lost"] /\ UNCHANGED net
      /\ UNCHANGED <<scene, now, server, sockets, view, ended, want, retries, made, history>>
  BY DEF TransportFails
<1>2. faults' \in Nat  BY Before DEF TransportFails, Mistake
<1>3. r.cmd \in Made(h) /\ r.nth \in 1..MaxTries /\ Proper(v, lane, r.cmd)  BY <1>1, Before, AnswerTold
<1>4. r \in GoodRequest(h, v, lane) /\ r \in Request
  BY <1>1, Before DEF Opened, GoodRequest
<1>5. Opened(h)' /\ net' \subseteq Sent(h)
  <2>1. CASE r.nth % 2 = 1 /\ Post(v, lane, r.cmd, r.nth + 1)
    <3>1. r.nth + 1 \in 1..MaxTries  BY <1>3, <2>1 DEF MaxTries, MaxRetries
    <3> HIDE DEF r
    <3>2. QED  BY <1>3, <2>1, <3>1, Before, PostOpened DEF Asking
  <2>2. CASE open' = [open EXCEPT ![v][lane].reply = "lost"] /\ UNCHANGED net
    <3> DEFINE a == [r EXCEPT !.reply = "lost"]
    <3>1. open' = [open EXCEPT ![v][lane] = a]  BY <2>2
    <3>2. a \in Request  BY <1>4 DEF Request
    <3>3. a.cmd = r.cmd /\ a.st = r.st  BY <1>4 DEF Request
    <3>4. a \in GoodRequest(h, v, lane)  BY <1>4, <3>2, <3>3 DEF GoodRequest
    <3> HIDE DEF a
    <3>5. open' \in [Viewers -> [Lanes -> Request \cup {None}]]  BY <3>1, <3>2, Before DEF Opened
    <3>6. \A w \in Viewers, k \in Lanes :
             open'[w][k] = IF w = v /\ k = lane THEN a ELSE open[w][k]
      BY <3>1, Before DEF Opened
    <3>7. Opened(h)'  BY <3>4, <3>5, <3>6, Before DEF Opened
    <3>8. QED  BY <2>2, <3>7, Before DEF Asking
  <2>3. QED  BY <1>1, <2>1, <2>2
<1>6. Queued(h)' /\ Shown(h)' /\ Asking(h)' /\ Subscribed'
  BY <1>1, <1>5, Before DEF Queued, Shown, Asking, Subscribed, server, sockets
<1>7. PlainTyped'  BY <1>1, <1>2 DEF Inv, PlainTyped, server, sockets, history
<1>8. QED  BY <1>1, <1>5, <1>6, <1>7, ClientStep DEF server, history

LEMMA SetupInv ==
    ASSUME NEW h \in Chronicle, Inv(h), NEW m \in Managers, Setup(m) PROVE Inv(h)'
<1>1. /\ Post(m, "setup", Plain("config"), 1)
      /\ UNCHANGED <<scene, now, server, sockets, view, ended, want, retries, made, faults, history>>
  BY DEF Setup
<1>2. Plain("config") \in Made(h) /\ Proper(m, "setup", Plain("config"))
  BY PlainMade DEF Proper
<1>3. m \in Viewers /\ "setup" \in Lanes /\ 1 \in 1..MaxTries
  BY DEF Viewers, Lanes, MaxTries, MaxRetries
<1>4. Opened(h)' /\ net' \subseteq Sent(h)  BY <1>1, <1>2, <1>3, Before, PostOpened DEF Asking
<1>5. Queued(h)' /\ Shown(h)' /\ Asking(h)' /\ Subscribed'
  BY <1>1, <1>4, Before DEF Queued, Shown, Asking, Subscribed, server, sockets
<1>6. PlainTyped'  BY <1>1 DEF Inv, PlainTyped, server, sockets, history
<1>7. QED  BY <1>1, <1>4, <1>5, <1>6, ClientStep DEF server, history

LEMMA FetchInv ==
    ASSUME NEW h \in Chronicle, Inv(h), NEW v \in Viewers, Fetch(v) PROVE Inv(h)'
<1>1. /\ Post(v, "fetch", Plain("fetch"), 1)
      /\ UNCHANGED <<scene, now, server, sockets, view, ended, want, retries, made, faults, history>>
  BY DEF Fetch
<1>2. Plain("fetch") \in Made(h) /\ Proper(v, "fetch", Plain("fetch"))
  BY PlainMade DEF Proper, Plain
<1>3. "fetch" \in Lanes /\ 1 \in 1..MaxTries  BY DEF Lanes, MaxTries, MaxRetries
<1>4. Opened(h)' /\ net' \subseteq Sent(h)  BY <1>1, <1>2, <1>3, Before, PostOpened DEF Asking
<1>5. Queued(h)' /\ Shown(h)' /\ Asking(h)' /\ Subscribed'
  BY <1>1, <1>4, Before DEF Queued, Shown, Asking, Subscribed, server, sockets
<1>6. PlainTyped'  BY <1>1 DEF Inv, PlainTyped, server, sockets, history
<1>7. QED  BY <1>1, <1>4, <1>5, <1>6, ClientStep DEF server, history

\* A manager's lanes carry commands of the playback.
LEMMA WantedProper ==
    ASSUME NEW h, NEW m \in Managers, NEW lane \in {"gesture", "end"}, NEW c \in Wanted(h)
    PROVE  /\ m \in Viewers /\ lane \in Lanes /\ c \in Made(h) /\ Proper(m, lane, c)
BY DEF Wanted, Proper, Viewers, Lanes

LEMMA TriesTyped == ASSUME NEW k \in 0..MaxRetries PROVE 2 * k + 1 \in 1..MaxTries
BY DEF MaxTries, MaxRetries

LEMMA FlushInv ==
    ASSUME NEW h \in Chronicle, Inv(h), NEW m \in Managers, Flush(m) PROVE Inv(h)'
<1> DEFINE c == want[m].gesture
           k == retries[m].gesture
<1>1. /\ c # None
      /\ \/ Want(m, "gesture", None, 0) /\ UNCHANGED <<open, net>>
         \/ Post(m, "gesture", c, 2 * k + 1) /\ UNCHANGED <<want, retries>>
      /\ UNCHANGED <<scene, now, server, sockets, view, ended, made, faults, history>>
  BY DEF Flush
<1>2. c \in Wanted(h)  BY <1>1, Before DEF Asking
<1>3. k \in 0..MaxRetries  BY DEF Inv, PlainTyped
<1> HIDE DEF c, k
<1>4. /\ m \in Viewers /\ "gesture" \in Lanes /\ c \in Made(h) /\ Proper(m, "gesture", c)
      /\ 2 * k + 1 \in 1..MaxTries
  BY <1>2, <1>3, WantedProper, TriesTyped
<1>5. Opened(h)' /\ net' \subseteq Sent(h)
  BY <1>1, <1>4, Before, SameOpened, PostOpened DEF Asking
<1>6. 0 \in 0..MaxRetries /\ PlainTyped /\ Asking(h)  BY Before DEF MaxRetries, Inv
<1>7. /\ want' \in [Managers -> [{"gesture", "end"} -> Wanted(h) \cup {None}]]
      /\ retries' \in [Managers -> [{"gesture", "end"} -> 0..MaxRetries]]
  BY <1>1, <1>6, WantTyped DEF Asking, PlainTyped
<1>8. Queued(h)' /\ Shown(h)' /\ Asking(h)' /\ Subscribed'
  BY <1>1, <1>5, <1>7, Before DEF Queued, Shown, Asking, Subscribed, server, sockets
<1>9. PlainTyped'  BY <1>1, <1>7 DEF Inv, PlainTyped, server, sockets, history
<1>10. QED  BY <1>1, <1>5, <1>8, <1>9, ClientStep DEF server, history

LEMMA EndRetriedInv ==
    ASSUME NEW h \in Chronicle, Inv(h), NEW m \in Managers, EndRetried(m) PROVE Inv(h)'
<1> DEFINE c == want[m].end
           k == retries[m].end
<1>1. /\ c # None
      /\ \/ Want(m, "end", None, 0) /\ UNCHANGED <<open, net>>
         \/ Post(m, "end", c, 2 * k + 1) /\ UNCHANGED <<want, retries>>
      /\ UNCHANGED <<scene, now, server, sockets, view, ended, made, faults, history>>
  BY DEF EndRetried
<1>2. c \in Wanted(h)  BY <1>1, Before DEF Asking
<1>3. k \in 0..MaxRetries  BY DEF Inv, PlainTyped
<1> HIDE DEF c, k
<1>4. /\ m \in Viewers /\ "end" \in Lanes /\ c \in Made(h) /\ Proper(m, "end", c)
      /\ 2 * k + 1 \in 1..MaxTries
  BY <1>2, <1>3, WantedProper, TriesTyped
<1>5. Opened(h)' /\ net' \subseteq Sent(h)
  BY <1>1, <1>4, Before, SameOpened, PostOpened DEF Asking
<1>6. 0 \in 0..MaxRetries /\ PlainTyped /\ Asking(h)  BY Before DEF MaxRetries, Inv
<1>7. /\ want' \in [Managers -> [{"gesture", "end"} -> Wanted(h) \cup {None}]]
      /\ retries' \in [Managers -> [{"gesture", "end"} -> 0..MaxRetries]]
  BY <1>1, <1>6, WantTyped DEF Asking, PlainTyped
<1>8. Queued(h)' /\ Shown(h)' /\ Asking(h)' /\ Subscribed'
  BY <1>1, <1>5, <1>7, Before DEF Queued, Shown, Asking, Subscribed, server, sockets
<1>9. PlainTyped'  BY <1>1, <1>7 DEF Inv, PlainTyped, server, sockets, history
<1>10. QED  BY <1>1, <1>5, <1>8, <1>9, ClientStep DEF server, history

\* A manager's request is answered: what it shows, wants and has confirmed.
LEMMA AnsweredStep ==
    ASSUME NEW h \in Chronicle, Inv(h), NEW m \in Managers, NEW lane \in {"gesture", "end"},
           open[m][lane] # None, Close(m, lane),
           Receive(m, open[m][lane].st) \/ UNCHANGED <<view, ended>>,
           NEW c \in Wanted(h) \cup {None}, NEW k \in 0..MaxRetries, Want(m, lane, c, k),
           confirmed' \subseteq Ids,
           UNCHANGED <<scene, now, server, sockets, net, made, faults, applied>>
    PROVE  Inv(h)'
<1>1. m \in Viewers /\ lane \in Lanes  BY DEF Viewers, Lanes
<1>2. open[m][lane].st \in Told(h)  BY <1>1, Before, AnswerTold
<1>3. view' \in [Viewers -> Told(h)] /\ ended' \subseteq Managers
  BY <1>1, <1>2, Before, ReceiveShown DEF Inv, PlainTyped, Shown
<1>4. /\ want' \in [Managers -> [{"gesture", "end"} -> Wanted(h) \cup {None}]]
      /\ retries' \in [Managers -> [{"gesture", "end"} -> 0..MaxRetries]]
  BY Before, WantTyped DEF Inv
<1>5. Opened(h)'  BY <1>1, Before, CloseOpened
<1>6. Queued(h)' /\ Shown(h)' /\ Asking(h)' /\ Subscribed'
  BY <1>3, <1>4, Before DEF Queued, Shown, Asking, Subscribed, server, sockets
<1>7. PlainTyped'  BY <1>3, <1>4 DEF Inv, PlainTyped, server, sockets
<1>8. QED  BY <1>5, <1>6, <1>7, ClientStep DEF server

LEMMA GestureAnsweredInv ==
    ASSUME NEW h \in Chronicle, Inv(h), NEW m \in Managers, GestureAnswered(m) PROVE Inv(h)'
<1> DEFINE r == open[m].gesture
           w == want[m].gesture
<1>1. /\ open[m]["gesture"] # None /\ Close(m, "gesture")
      /\ UNCHANGED <<scene, now, server, sockets, net, made, faults, applied>>
  BY DEF GestureAnswered, Answered
<1>2. retries[m].gesture \in 0..MaxRetries /\ w \in Wanted(h) \cup {None}
  BY Before DEF Inv, PlainTyped, Asking
<1>3. r.cmd.id \in Ids
  <2>1. r.cmd \in Made(h) /\ Proper(m, "gesture", r.cmd)
    BY <1>1, Before, AnswerTold DEF Viewers, Lanes
  <2>2. QED  BY <2>1 DEF Proper, Made, Chronicle
<1>4. PICK c \in {w, None}, k \in {0, retries[m].gesture + 1} :
         /\ Want(m, "gesture", c, k)
         /\ k = 0 \/ retries[m].gesture < MaxRetries
         /\ Receive(m, r.st) \/ UNCHANGED <<view, ended>>
         /\ confirmed' = confirmed \cup {r.cmd.id} \/ UNCHANGED confirmed
  BY DEF GestureAnswered
<1>5. k \in 0..MaxRetries  BY <1>2, <1>4 DEF MaxRetries
<1>6. confirmed' \subseteq Ids  BY <1>3, <1>4, Before
<1>7. c \in Wanted(h) \cup {None}  BY <1>2, <1>4
<1>8. QED  BY <1>1, <1>4, <1>5, <1>6, <1>7, AnsweredStep

LEMMA EndAnsweredInv ==
    ASSUME NEW h \in Chronicle, Inv(h), NEW m \in Managers, EndAnswered(m) PROVE Inv(h)'
<1> DEFINE r == open[m].end
<1>1. /\ open[m]["end"] # None /\ Close(m, "end")
      /\ Receive(m, r.st) \/ UNCHANGED <<view, ended>>
      /\ UNCHANGED <<scene, now, server, sockets, net, made, faults, history>>
  BY DEF EndAnswered, Answered
<1>2. retries[m].end \in 0..MaxRetries  BY DEF Inv, PlainTyped
<1>3. r.cmd \in Wanted(h)
  <2>1. r.cmd \in Made(h) /\ Proper(m, "end", r.cmd)
    BY <1>1, Before, AnswerTold DEF Viewers, Lanes
  <2>2. QED  BY <2>1 DEF Proper, Wanted
<1>4. PICK c \in {r.cmd, None}, k \in {0, retries[m].end + 1} :
         Want(m, "end", c, k) /\ (k = 0 \/ retries[m].end < MaxRetries)
  BY DEF EndAnswered
<1>5. k \in 0..MaxRetries  BY <1>2, <1>4 DEF MaxRetries
<1>6. c \in Wanted(h) \cup {None} /\ confirmed' \subseteq Ids /\ UNCHANGED applied
  BY <1>1, <1>3, <1>4, Before DEF history
<1>7. QED  BY <1>1, <1>4, <1>5, <1>6, AnsweredStep

\* The next command, of a session whose video is configured.
LEMMA NextCommand ==
    ASSUME NEW h \in Chronicle, Consistent(h), h.top # 0, NEW c \in Command,
           c.id \in Ids \ h.used, c.type \in Playing,
           c.type = "end" => c.rev \in 0..h.top /\ c.saw = h.at[c.rev].by
    PROVE  \E g \in Chronicle : /\ Tells(h, g) /\ g.top = h.top /\ g.at = h.at /\ g.time = h.time
                                 /\ g.used = h.used \cup {c.id} /\ c \in Wanted(g)
<1> DEFINE g == [at |-> h.at, top |-> h.top, time |-> h.time, used |-> h.used \cup {c.id},
                 cmds |-> [h.cmds EXCEPT ![c.id] = c]]
<1>1. /\ h.at \in [Nat -> States] /\ h.top \in Nat /\ h.used \in SUBSET Ids
      /\ h.time \in Nat /\ h.cmds \in [Ids -> Command]
  BY DEF Chronicle
<1>2. g \in Chronicle  BY <1>1 DEF Chronicle
<1>3. /\ g.at = h.at /\ g.top = h.top /\ g.time = h.time /\ g.used = h.used \cup {c.id}
      /\ g.cmds[c.id] = c /\ \A id \in h.used : g.cmds[id] = h.cmds[id]
  BY <1>1
<1> HIDE DEF g
<1>4. Consistent(g)  BY <1>3 DEF Consistent
<1>5. Told(h) \subseteq Told(g)  BY <1>3 DEF Told
<1>6. Made(h) \subseteq Made(g)  BY <1>3 DEF Made
<1>7. c \in Wanted(g)  BY <1>3 DEF Wanted, Made
<1>8. QED  BY <1>2, <1>3, <1>4, <1>5, <1>6, <1>7 DEF Tells

\* A manager makes its next command.
LEMMA MakingStep ==
    ASSUME NEW h \in Chronicle, Inv(h), h.top # 0, NEW m \in Managers, NEW c \in Command,
           c.id \in Ids, c.id[1] = m, c.id[2] = made[m], c.type \in Playing,
           c.type = "end" => c.rev \in 0..h.top /\ c.saw = h.at[c.rev].by,
           made' = [made EXCEPT ![m] = @ + 1], NEW lane \in {"gesture", "end"},
           Want(m, lane, c, 0),
           UNCHANGED <<open, net>> \/ Post(m, lane, c, 1),
           ended' \subseteq Managers,
           UNCHANGED <<scene, now, server, sockets, view, faults, history>>
    PROVE  \E g \in Chronicle : Inv(g)'
<1>1. made \in [Managers -> Nat] /\ made[m] \in Nat  BY DEF Inv, PlainTyped
<1>2. c.id \in Ids /\ c.id[1] = m /\ c.id[2] = made[m]  OBVIOUS
<1>3. c.id \notin h.used  BY <1>1, <1>2 DEF Inv, Numbered
<1>4. PICK g \in Chronicle : /\ Tells(h, g) /\ g.top = h.top /\ g.at = h.at /\ g.time = h.time
                             /\ g.used = h.used \cup {c.id} /\ c \in Wanted(g)
  BY <1>2, <1>3, NextCommand DEF Inv
<1>5. Queued(g) /\ Shown(g) /\ Opened(g) /\ Asking(g) /\ Consistent(g)
  BY <1>4, TellsAround DEF Inv, Around, Tells
<1>6. m \in Viewers /\ lane \in Lanes /\ c \in Made(g) /\ Proper(m, lane, c) /\ 1 \in 1..MaxTries
      /\ 0 \in 0..MaxRetries
  BY <1>4, WantedProper DEF MaxTries, MaxRetries
<1>7. Opened(g)' /\ net' \subseteq Sent(g)
  BY <1>5, <1>6, SameOpened, PostOpened DEF Asking
<1>8. /\ want' \in [Managers -> [{"gesture", "end"} -> Wanted(g) \cup {None}]]
      /\ retries' \in [Managers -> [{"gesture", "end"} -> 0..MaxRetries]]
  BY <1>4, <1>5, <1>6, WantTyped DEF Inv
<1>9. Queued(g)' /\ Shown(g)' /\ Asking(g)' /\ Subscribed'
  BY <1>5, <1>7, <1>8, Before DEF Queued, Shown, Asking, Subscribed, server, sockets
<1>10. Numbered(g)'
  <2> SUFFICES ASSUME NEW id \in g.used PROVE id[2] < made'[id[1]]  BY DEF Numbered
  <2>1. id \in Ids  BY DEF Chronicle
  <2>2. id[1] \in Managers /\ id[2] \in Nat  BY <2>1 DEF Ids
  <2>3. made'[id[1]] = IF id[1] = m THEN made[m] + 1 ELSE made[id[1]]  BY <1>1, <2>2
  <2>4. CASE id = c.id  BY <2>3, <2>4, <1>1, <1>2
  <2>5. CASE id # c.id
    <3>1. id[2] < made[id[1]] /\ made[id[1]] \in Nat  BY <2>5, <2>2, <1>1, <1>4 DEF Inv, Numbered
    <3>2. QED  BY <3>1, <2>2, <2>3
  <2>6. QED  BY <2>4, <2>5
<1>11. PlainTyped'
  <2>1. made' \in [Managers -> Nat]  BY <1>1
  <2>2. QED  BY <2>1, <1>8 DEF Inv, PlainTyped, server, sockets, history
<1>12. Recorded(g)'
  BY <1>4 DEF Inv, Recorded, RecordOf, Tells, server
<1>13. Effective'  BY Before, EffectiveKept DEF server, history
<1>14. g.time = now'  BY <1>4 DEF Inv
<1>15. Inv(g)'  BY <1>5, <1>7, <1>9, <1>10, <1>11, <1>12, <1>13, <1>14 DEF Inv, Around
<1>16. QED  BY <1>15

LEMMA ClickInv ==
    ASSUME NEW h \in Chronicle, Inv(h), NEW m \in Managers, NEW type \in scene.types, Click(m, type)
    PROVE  \E g \in Chronicle : Inv(g)'
<1> DEFINE pos == IF type = "seek" THEN 1 ELSE ClickPosition(type, view[m], m \in ended)
           c == NewCommand(m, type, pos)
<1>1. /\ view[m].video # None /\ Want(m, "gesture", c, 0) /\ made' = [made EXCEPT ![m] = @ + 1]
      /\ ended' \subseteq ended
      /\ UNCHANGED <<scene, now, server, sockets, view, open, net, faults, history>>
  BY DEF Click
<1>2. type \in {"play", "pause", "seek"}  BY ConstantsOK DEF Inv, PlainTyped, Scene
<1>3. pos \in Nat \cup {None}  BY DEF ClickPosition
<1>4. made[m] \in Nat  BY DEF Inv, PlainTyped
<1> HIDE DEF pos
<1>5. <<m, made[m], "gesture">> \in Ids  BY <1>4 DEF Ids
<1>6. c \in Command /\ c.id = <<m, made[m], "gesture">> /\ c.type = type
  BY <1>2, <1>3, <1>5 DEF NewCommand, Plain, Command
<1> HIDE DEF c
<1>7. h.top # 0
  <2>1. view[m] \in Told(h)  BY Before DEF Shown, Viewers
  <2>2. view[m].rev \in Nat /\ view[m].rev # 0 /\ view[m].rev <= h.top /\ h.top \in Nat
    BY <1>1, <2>1 DEF Told, States, PlayState, Chronicle
  <2>3. QED  BY <2>2
<1>8. c.type \in Playing /\ c.type # "end" /\ ended' \subseteq Managers
  BY <1>1, <1>2, <1>6 DEF Playing, Inv, PlainTyped
<1>9. c.id \in Ids /\ c.id[1] = m /\ c.id[2] = made[m]  BY <1>5, <1>6
<1>10. QED  BY <1>1, <1>6, <1>7, <1>8, <1>9, MakingStep

LEMMA PlayerEndsInv ==
    ASSUME NEW h \in Chronicle, Inv(h), NEW m \in Managers, PlayerEnds(m)
    PROVE  \E g \in Chronicle : Inv(g)'
<1> DEFINE c == [NewCommand(m, "end", scene.length) EXCEPT !.rev = view[m].rev, !.saw = view[m].by]
<1>1. /\ view[m].playing /\ Want(m, "end", c, 0) /\ Post(m, "end", c, 1)
      /\ made' = [made EXCEPT ![m] = @ + 1] /\ ended' = ended \cup {m}
      /\ UNCHANGED <<scene, now, server, sockets, view, faults, history>>
  BY DEF PlayerEnds
<1>2. view[m] \in Told(h)  BY Before DEF Shown, Viewers
<1>3. /\ view[m].rev \in Nat /\ view[m].rev <= h.top /\ h.top \in Nat
      /\ view[m].by \in Ids \cup {None} /\ view[m].by = h.at[view[m].rev].by
      /\ h.at[view[m].rev].playing
  BY <1>1, <1>2, ToldIs DEF States, PlayState, Chronicle
<1>4. h.top # 0
  <2>1. view[m].rev # 0  BY <1>3 DEF Inv, Consistent, Unconfigured
  <2>2. QED  BY <2>1, <1>3
<1>5. scene.length \in Nat  BY ConstantsOK DEF Inv, PlainTyped, Scene
<1>6. <<m, made[m], "end">> \in Ids  BY DEF Inv, PlainTyped, Ids
<1> DEFINE b == NewCommand(m, "end", scene.length)
<1>7. b \in Command /\ b.id = <<m, made[m], "end">> /\ b.type = "end"
  BY <1>5, <1>6 DEF NewCommand, Plain, Command
<1>8. c = [b EXCEPT !.rev = view[m].rev, !.saw = view[m].by]  OBVIOUS
<1> HIDE DEF b, c
<1>9. /\ c \in Command /\ c.id = <<m, made[m], "end">> /\ c.type = "end"
      /\ c.rev = view[m].rev /\ c.saw = view[m].by
  BY <1>3, <1>7, <1>8 DEF Command
<1>10. c.type \in Playing /\ c.rev \in 0..h.top /\ c.saw = h.at[c.rev].by /\ ended' \subseteq Managers
  BY <1>1, <1>3, <1>9 DEF Playing, Inv, PlainTyped
<1>11. c.id \in Ids /\ c.id[1] = m /\ c.id[2] = made[m]  BY <1>6, <1>9
<1>12. QED  BY <1>1, <1>4, <1>9, <1>10, <1>11, MakingStep

\* The chronicle after a tick of the clock.
LEMMA LaterTells ==
    ASSUME NEW h \in Chronicle, Consistent(h), NEW t \in Nat, h.time <= t
    PROVE  \E g \in Chronicle : /\ Tells(h, g) /\ g.time = t /\ g.at = h.at /\ g.top = h.top
                                 /\ g.used = h.used
<1> DEFINE g == [at |-> h.at, top |-> h.top, time |-> t, used |-> h.used, cmds |-> h.cmds]
<1>1. /\ h.at \in [Nat -> States] /\ h.top \in Nat /\ h.used \in SUBSET Ids
      /\ h.time \in Nat /\ h.cmds \in [Ids -> Command]
  BY DEF Chronicle
<1>2. g \in Chronicle  BY <1>1 DEF Chronicle
<1>3. /\ g.at = h.at /\ g.top = h.top /\ g.time = t /\ g.used = h.used /\ g.cmds = h.cmds
  OBVIOUS
<1> HIDE DEF g
<1>4. Consistent(g)  BY <1>3 DEF Consistent
<1>5. Told(h) \subseteq Told(g)
  <2> SUFFICES ASSUME NEW s \in Told(h) PROVE s \in Told(g)  OBVIOUS
  <2>1. s.ts \in Nat /\ s.ts <= h.time  BY ToldIs DEF Told
  <2>2. s.ts <= g.time  BY <2>1, <1>1, <1>3
  <2>3. QED  BY <2>2, <1>3 DEF Told
<1>6. Made(h) \subseteq Made(g)  BY <1>3 DEF Made
<1>7. QED  BY <1>2, <1>3, <1>4, <1>5, <1>6 DEF Tells

LEMMA TickInv == ASSUME NEW h \in Chronicle, Inv(h), Tick PROVE \E g \in Chronicle : Inv(g)'
<1>1. /\ now' = now + 1
      /\ UNCHANGED <<scene, server, sockets, view, ended, asking, faults, history>>
  BY DEF Tick
<1>2. now' \in Nat /\ h.time <= now + 1 /\ now + 1 \in Nat  BY <1>1, Before
<1>3. PICK g \in Chronicle : /\ Tells(h, g) /\ g.time = now + 1 /\ g.at = h.at /\ g.top = h.top
                             /\ g.used = h.used
  BY <1>2, Before, LaterTells
<1>4. Queued(g) /\ Shown(g) /\ Opened(g) /\ Asking(g) /\ Consistent(g)
  BY <1>3, TellsAround DEF Inv, Around, Tells
<1>5. Queued(g)' /\ Shown(g)' /\ Opened(g)' /\ Asking(g)' /\ Subscribed'
  BY <1>1, <1>4, Before DEF Queued, Shown, Opened, Asking, Subscribed, server, sockets, asking
<1>6. PlainTyped'  BY <1>1, <1>2 DEF Inv, PlainTyped, server, sockets, asking, history
<1>7. Recorded(g)' /\ Numbered(g)'
  BY <1>1, <1>3 DEF Inv, Recorded, RecordOf, Tells, Numbered, server, asking
<1>8. Effective'  BY <1>1, Before, EffectiveKept DEF server, history
<1>9. Inv(g)'  BY <1>1, <1>3, <1>4, <1>5, <1>6, <1>7, <1>8 DEF Inv, Around
<1>10. QED  BY <1>9

LEMMA EndSessionInv == ASSUME NEW h \in Chronicle, Inv(h), EndSession PROVE Inv(h)'
<1>1. /\ rec' = Gone
      /\ UNCHANGED <<scene, now, jobs, subs, timer, beating, sockets, view, ended, asking, faults, history>>
  BY DEF EndSession
<1>2. Queued(h)' /\ Shown(h)' /\ Opened(h)' /\ Asking(h)' /\ Subscribed' /\ Numbered(h)'
  BY <1>1, Before DEF Inv, Queued, Shown, Opened, Asking, Subscribed, Numbered, sockets, asking
<1>3. PlainTyped'  BY <1>1 DEF Inv, PlainTyped, sockets, asking, history
<1>4. Recorded(h)' /\ Effective'  BY <1>1, Before, EffectiveKept DEF Recorded, history
<1>5. (h.time = now)'  BY <1>1 DEF Inv
<1>6. QED  BY <1>2, <1>3, <1>4, <1>5 DEF Inv, Around

LEMMA StutterInv == ASSUME NEW h \in Chronicle, Inv(h), UNCHANGED vars PROVE Inv(h)'
<1>1. Queued(h)' /\ Shown(h)' /\ Opened(h)' /\ Asking(h)' /\ Subscribed'
  BY Before DEF vars, Queued, Shown, Opened, Asking, Subscribed, server, sockets, asking
<1>2. PlainTyped'  BY DEF vars, Inv, PlainTyped, server, sockets, asking, history
<1>3. QED  BY <1>1, <1>2, ClientStep DEF vars, server, asking, history

\* The chronicle of the initial state.
LEMMA InitRecorded ==
    ASSUME Init
    PROVE  \E h \in Chronicle : Consistent(h) /\ RecordOf(h, rec) /\ h.used = {} /\ h.time = 0
<1> DEFINE m == CHOOSE m \in Managers : TRUE
           cmds == [id \in Ids |-> Plain("fetch")]
           s == Configured(Unconfigured, m, scene.stop, 0)
           z == [s EXCEPT !.playing = scene.playing]
           h0 == [at |-> [i \in Nat |-> Unconfigured], top |-> 0, time |-> 0, used |-> {},
                  cmds |-> cmds]
           h1 == [at |-> [i \in Nat |-> IF i = 1 THEN z ELSE Unconfigured], top |-> 1, time |-> 0,
                  used |-> {}, cmds |-> cmds]
<1>1. m \in Managers /\ m # None  BY NamesOK
<1>2. scene \in Scene /\ scene.stop # 0  BY ConstantsOK DEF Init
<1>3. scene.stop \in Nat \cup {None} /\ scene.playing \in BOOLEAN /\ scene.configured \in BOOLEAN
  BY <1>2 DEF Scene
<1>4. cmds \in [Ids -> Command]  BY DEF Plain, Command
<1>5. /\ Unconfigured.rev = 0 /\ Unconfigured.by = None /\ ~Unconfigured.playing
      /\ Unconfigured.video = None /\ Unconfigured \in States
  BY UnconfiguredIs DEF Unconfigured
<1>6. CASE ~scene.configured
  <2>1. rec = [st |-> Unconfigured, done |-> {}, active |-> 0]  BY <1>6 DEF Init
  <2>2. h0 \in Chronicle  BY <1>4, <1>5 DEF Chronicle
  <2>3. /\ h0.top = 0 /\ h0.used = {} /\ h0.time = 0 /\ \A i \in Nat : h0.at[i] = Unconfigured
    OBVIOUS
  <2> HIDE DEF h0
  <2>4. Consistent(h0)  BY <2>3, <1>5 DEF Consistent
  <2>5. rec \in Record /\ rec.st = Unconfigured /\ rec.done = {}  BY <2>1, <1>5 DEF Record
  <2>6. Unconfigured \in Told(h0)  BY <2>2, <2>4, UnconfiguredTold
  <2>7. RecordOf(h0, rec)  BY <2>3, <2>5, <2>6, <1>5 DEF RecordOf
  <2>8. QED  BY <2>2, <2>3, <2>4, <2>7
<1>7. CASE scene.configured
  <2>1. rec = [st |-> z, done |-> {}, active |-> 0]  BY <1>7 DEF Init
  <2> HIDE DEF m
  <2>2. /\ s \in States /\ s.rev = Unconfigured.rev + 1 /\ s.by = Unconfigured.by
        /\ s.video = m /\ s.ts = 0 /\ s.pos = 0 /\ s.stop = scene.stop
    <3> DEFINE u == Unconfigured
               stop == scene.stop
    <3>1. u \in States /\ stop \in Nat \cup {None} /\ 0 \in Nat  BY <1>3, <1>5
    <3> HIDE DEF u, stop
    <3>2. LET c == Configured(u, m, stop, 0)
          IN  /\ c \in States /\ c.rev = u.rev + 1 /\ c.by = u.by /\ c.video = m
              /\ c.ts = 0 /\ c.pos = 0 /\ c.stop = stop
      BY <1>1, <3>1, ConfiguredIs
    <3>3. QED  BY <3>2 DEF u, stop
  <2>3. s.rev = 1 /\ s.by = None  BY <2>2, <1>5
  <2> HIDE DEF s
  <2>4. z \in States  BY <2>2, <1>3 DEF States, PlayState
  <2>5. /\ z.rev = 1 /\ z.by = None /\ z.playing = scene.playing /\ z.video = m
        /\ z.ts = 0 /\ z.pos = 0 /\ z.stop = scene.stop
    BY <2>2, <2>3 DEF States, PlayState
  <2>6. h1 \in Chronicle  BY <1>4, <1>5, <2>4 DEF Chronicle
  <2>7. /\ h1.top = 1 /\ h1.used = {} /\ h1.time = 0 /\ h1.at[1] = z
        /\ \A i \in Nat : i # 1 => h1.at[i] = Unconfigured
    OBVIOUS
  <2> HIDE DEF h1, z
  <2>8. Consistent(h1)
    <3>1. h1.at[0] = Unconfigured /\ \A i \in Nat : i > h1.top => h1.at[i] = Unconfigured
      BY <2>7
    <3>2. ASSUME NEW i \in Nat, NEW j \in Nat, i # 0, i < j PROVE ~h1.at[j].playing
      <4>1. j # 1  BY <3>2
      <4>2. QED  BY <4>1, <2>7, <1>5
    <3>3. QED  BY <3>1, <3>2, <2>7 DEF Consistent
  <2>9. Settled(z, 0) = z
    <3>1. Position(z, 0) = 0  BY <2>5, <1>3 DEF Position, Capped, Least
    <3>2. ~(z.stop # None /\ 0 >= z.stop)  BY <2>5, <1>2, <1>3
    <3>3. z.playing \in BOOLEAN  BY <2>5, <1>3
    <3>4. Settled(z, 0) = [z EXCEPT !.pos = 0, !.ts = 0, !.playing = z.playing]
      BY <3>1, <3>2, <3>3 DEF Settled
    <3>5. QED  BY <3>4, <2>4, <2>5 DEF States, PlayState
  <2>10. z \in Told(h1)
    <3>1. h1.at[z.rev] = z /\ z.rev <= h1.top /\ (z.video = None <=> z.rev = 0)
      BY <2>5, <2>7, <1>1
    <3>2. z.ts <= z.ts /\ z.ts <= h1.time /\ z = Settled(z, z.ts)  BY <2>5, <2>7, <2>9
    <3>3. QED  BY <2>4, <3>1, <3>2 DEF Told
  <2>11. rec \in Record /\ rec.st = z /\ rec.done = {}  BY <2>1, <2>4 DEF Record
  <2>12. ASSUME NEW i \in Nat PROVE h1.at[i].by = None  BY <2>5, <2>7, <1>5
  <2>13. RecordOf(h1, rec)  BY <2>5, <2>7, <2>10, <2>11, <2>12 DEF RecordOf
  <2>14. QED  BY <2>6, <2>7, <2>8, <2>13
<1>8. QED  BY <1>3, <1>6, <1>7

LEMMA InitInv == Init => IInv
<1> SUFFICES ASSUME Init PROVE IInv  OBVIOUS
<1>1. PICK h \in Chronicle : Consistent(h) /\ RecordOf(h, rec) /\ h.used = {} /\ h.time = 0
  BY InitRecorded
<1>2. Recorded(h)  BY <1>1 DEF Recorded
<1>3. PlainTyped
  <2>1. 0 \in 0..MaxRetries  BY DEF MaxRetries
  <2>2. /\ scene \in Scenes /\ now = 0 /\ faults = 0 /\ timer = {} /\ beating = {}
        /\ link = [v \in Viewers |-> None] /\ ended = {} /\ confirmed = {}
        /\ made = [m \in Managers |-> 0] /\ joined = [v \in Viewers |-> 0]
    BY DEF Init
  <2>3. retries = [m \in Managers |-> [l \in {"gesture", "end"} |-> 0]]  BY DEF Init
  <2>4. retries \in [Managers -> [{"gesture", "end"} -> 0..MaxRetries]]  BY <2>1, <2>3
  <2>5. QED  BY <2>2, <2>4 DEF PlainTyped
<1>4. Subscribed  BY FS_EmptySet DEF Init, Subscribed
<1>5. Queued(h) /\ Shown(h)  BY <1>1, UnconfiguredTold, EmptySeq DEF Init, Queued, Shown
<1>6. Opened(h)  BY DEF Init, Opened
<1>7. Asking(h)  BY DEF Init, Asking
<1>8. Numbered(h)  BY <1>1 DEF Numbered
<1>9. Effective  BY EmptySeq DEF Init, Effective, OncePerCommand
<1>10. h.time = now  BY <1>1 DEF Init
<1>11. Inv(h)  BY <1>1, <1>2, <1>3, <1>4, <1>5, <1>6, <1>7, <1>8, <1>9, <1>10 DEF Inv, Around
<1>12. QED  BY <1>11 DEF IInv

LEMMA NextInv == IInv /\ [Next]_vars => IInv'
<1> SUFFICES ASSUME NEW h \in Chronicle, Inv(h), [Next]_vars PROVE \E g \in Chronicle : Inv(g)'
  BY DEF IInv
<1>1. ASSUME NEW n \in Nodes, Step(n) \/ HeartbeatDue(n) \/ StoreFails(n)
      PROVE  \E g \in Chronicle : Inv(g)'
  BY <1>1, StepInv, HeartbeatDueInv, StoreFailsInv
<1>2. ASSUME NEW v \in Viewers,
             \/ Disconnect(v) \/ Fetch(v)
             \/ \E n \in Nodes : Connect(v, n)
             \/ \E lane \in Lanes : TransportFails(v, lane) \/ Arrives(v, lane)
      PROVE  \E g \in Chronicle : Inv(g)'
  <2>1. CASE \E lane \in Lanes : Arrives(v, lane)  BY <2>1, ArriveInv DEF Arrives
  <2>2. CASE \/ Disconnect(v) \/ Fetch(v) \/ \E n \in Nodes : Connect(v, n)
             \/ \E lane \in Lanes : TransportFails(v, lane)
    BY <2>2, DisconnectInv, FetchInv, ConnectInv, TransportFailsInv
  <2>3. QED  BY <1>2, <2>1, <2>2
<1>3. ASSUME NEW m \in Managers,
             \/ Act(m) \/ PlayerEnds(m) \/ Setup(m) \/ \E type \in scene.types : Click(m, type)
      PROVE  \E g \in Chronicle : Inv(g)'
  <2>1. CASE Act(m)
    BY <2>1, FlushInv, GestureAnsweredInv, EndRetriedInv, EndAnsweredInv DEF Act
  <2>2. CASE PlayerEnds(m) \/ Setup(m) \/ \E type \in scene.types : Click(m, type)
    BY <2>2, PlayerEndsInv, SetupInv, ClickInv
  <2>3. QED  BY <1>3, <2>1, <2>2
<1>4. CASE Receives
  <2>1. PICK v \in Viewers : Deliver(v) \/ Loaded(v, "setup") \/ Loaded(v, "fetch")
    BY <1>4 DEF Receives
  <2>2. "setup" \in Lanes /\ "fetch" \in Lanes  BY DEF Lanes
  <2>3. QED  BY <2>1, <2>2, DeliverInv, LoadedInv
<1>5. CASE Tick \/ EndSession  BY <1>5, TickInv, EndSessionInv
<1>6. CASE UNCHANGED vars  BY <1>6, StutterInv
<1>7. QED  BY <1>1, <1>2, <1>3, <1>4, <1>5, <1>6 DEF Next

\* IInv is an invariant, from which the theorems below follow.
LEMMA Inductive == Spec => []IInv
<1>1. QED  BY InitInv, NextInv, PTL DEF Spec

LEMMA TypedOK == ASSUME NEW h \in Chronicle, Inv(h) PROVE TypeOK
<1>1. Told(h) \subseteq States /\ GoodJob(h) \subseteq Job /\ Made(h) \subseteq Command
  BY DEF Told, GoodJob, Made
<1>2. jobs \in [Nodes -> Seq(Job)]
  <2>1. Seq(GoodJob(h)) \subseteq Seq(Job)  BY <1>1, SeqMonotonic
  <2>2. QED  BY <2>1, Before DEF Queued
<1>3. view \in [Viewers -> States] /\ inbox \in [Viewers -> Seq(States)]
  <2>1. Seq(Told(h)) \subseteq Seq(States)  BY <1>1, SeqMonotonic
  <2>2. QED  BY <1>1, <2>1, Before DEF Shown
<1>4. want \in [Managers -> [{"gesture", "end"} -> Command \cup {None}]]
  <2>1. Wanted(h) \subseteq Command  BY <1>1 DEF Wanted
  <2>2. QED  BY <2>1, Before DEF Asking
<1>5. net \subseteq [who : Viewers, lane : Lanes, cmd : Command, nth : 1..MaxTries]
  <2>1. Sent(h) \subseteq [who : Viewers, lane : Lanes, cmd : Command, nth : 1..MaxTries]
    BY <1>1 DEF Sent
  <2>2. QED  BY <2>1, Before DEF Asking
<1>6. rec \in Record \cup {Gone}  BY DEF Inv, Recorded, RecordOf
<1>7. open \in [Viewers -> [Lanes -> Request \cup {None}]]  BY Before DEF Opened
<1>8. subs \in [Nodes -> SUBSET Viewers] /\ applied \in Seq(Ids)
  BY DEF Inv, Subscribed, Effective
<1>9. QED  BY <1>2, <1>3, <1>4, <1>5, <1>6, <1>7, <1>8 DEF Inv, PlainTyped, TypeOK

\* Every variable stays in its type: the record, the jobs of the instances, the frames
\* and requests under way and what the clients show and want (the handlers of routes.ts
\* and of the two clients).
THEOREM TypeCorrect == Spec => []TypeOK
<1>1. IInv => TypeOK  BY TypedOK DEF IInv
<1>2. QED  BY <1>1, Inductive, PTL

\* A command takes effect once, however often its request is sent, on whichever instances
\* it arrives and wherever the store fails (processedCommandIds inside updateAtomic).
THEOREM EffectiveOnce == Spec => []OncePerCommand
<1>1. IInv => OncePerCommand  BY DEF IInv, Inv, Effective
<1>2. QED  BY <1>1, Inductive, PTL

\* Of two viewers that show the same revision, the one with the later time stamp shows
\* what time has made of the other's state, though instances project what they committed
\* or read with clocks of their own (applyStopIfReached after updateAtomic).
THEOREM SameRevision == Spec => []SameRevisionSamePlayback
<1>1. IInv => SameRevisionSamePlayback
  <2> SUFFICES ASSUME NEW h \in Chronicle, Inv(h), NEW v \in Viewers, NEW w \in Viewers,
                      view[v].rev = view[w].rev, view[v].ts <= view[w].ts
               PROVE  view[w] = Settled(view[v], view[w].ts)
    BY DEF IInv, SameRevisionSamePlayback
  <2> DEFINE x == view[v]
             y == view[w]
             b == h.at[x.rev]
             t == x.ts
             u == y.ts
  <2>1. x \in Told(h) /\ y \in Told(h)  BY Before DEF Shown
  <2>2. b \in States /\ t \in Nat /\ u \in Nat /\ b.ts <= t /\ t <= u
    BY <2>1, ToldIs DEF Told
  <2>3. x = Settled(b, t) /\ y = Settled(b, u)  BY <2>1 DEF Told
  <2> HIDE DEF b, t, u
  <2>4. Settled(Settled(b, t), u) = Settled(b, u)  BY <2>2, SettledAgain
  <2>5. y = Settled(x, u)  BY <2>3, <2>4
  <2>6. QED  BY <2>5 DEF u
<1>2. QED  BY <1>1, Inductive, PTL

-----------------------------------------------------------------------------
(* What a step may never do                                                *)

\* A command takes effect by the commit of a job that has not been refused.
LEMMA TakesEffect ==
    ASSUME Next, applied' # applied
    PROVE  \E k \in Nodes : LET c == Head(jobs[k]).cmd
                            IN  /\ rec # Gone /\ jobs[k] # <<>>
                                /\ c.type \in Playing /\ ~Refuses(rec, c)
                                /\ applied' = Append(applied, c.id)
<1>1. ASSUME NEW n \in Nodes, Step(n) \/ HeartbeatDue(n)
      PROVE  CommitCommand(n)
  <2>1. \/ ReadToCommit(n) \/ ReadConfig(n) \/ ReadToProject(n) \/ BeatUnheard(n)
        \/ RequestFindsNone(n) \/ BeatFindsNone(n) \/ SnapshotFindsNone(n) \/ LeaveFindsNone(n)
        \/ CommitConfig(n) \/ CommitLook(n) \/ Project(n) \/ CommitSnapshot(n)
        \/ CommitLeave(n) \/ Publish(n) \/ HeartbeatDue(n)
        => UNCHANGED applied
    BY DEF ReadToCommit, ReadConfig, ReadToProject, BeatUnheard, RequestFindsNone, BeatFindsNone,
           SnapshotFindsNone, LeaveFindsNone, CommitConfig, CommitLook, Project, CommitSnapshot,
           CommitLeave, Publish, HeartbeatDue, history
  <2>2. QED  BY <1>1, <2>1 DEF Step
<1>2. ASSUME NEW n \in Nodes, CommitCommand(n) \/ StoreFails(n)
      PROVE  LET c == Head(jobs[n]).cmd
             IN  /\ rec # Gone /\ jobs[n] # <<>>
                 /\ c.type \in Playing /\ ~Refuses(rec, c)
                 /\ applied' = Append(applied, c.id)
  <2>1. CASE CommitCommand(n)  BY <2>1 DEF CommitCommand, Types, Running
  <2>2. CASE StoreFails(n)  BY <2>2 DEF StoreFails, Running
  <2>3. QED  BY <1>2, <2>1, <2>2
<1>3. ASSUME NEW v \in Viewers,
             \/ Disconnect(v) \/ Fetch(v)
             \/ \E n \in Nodes : Connect(v, n)
             \/ \E lane \in Lanes : TransportFails(v, lane) \/ Arrives(v, lane)
      PROVE  UNCHANGED applied
  BY <1>3 DEF Disconnect, Fetch, Connect, TransportFails, Arrives, Arrive, history
<1>4. ASSUME NEW m \in Managers,
             \/ Act(m) \/ PlayerEnds(m) \/ Setup(m) \/ \E type \in scene.types : Click(m, type)
      PROVE  UNCHANGED applied
  BY <1>4 DEF Act, Flush, GestureAnswered, EndRetried, EndAnswered, PlayerEnds, Setup, Click, history
<1>5. Receives \/ Tick \/ EndSession => UNCHANGED applied
  BY DEF Receives, Deliver, Loaded, Tick, EndSession, history
<1>6. QED  BY <1>1, <1>2, <1>3, <1>4, <1>5 DEF Next

\* Two commands under way with the same id are the same command, and the revision of a
\* report of an end names the command that it saw.
LEMMA EndSaw ==
    ASSUME NEW h \in Chronicle, Inv(h), NEW n \in Nodes, Types(n, "commit", {"end"}),
           [Next]_vars, applied' = Append(applied, Head(jobs[n]).cmd.id)
    PROVE  rec.st.by = Head(jobs[n]).cmd.saw
<1> DEFINE j == Head(jobs[n])
<1>1. /\ applied \in Seq(Ids) /\ jobs[n] # <<>> /\ j.cmd.type = "end"
      /\ jobs \in [Nodes -> Seq(GoodJob(h))]
  BY DEF Inv, Effective, Types, Running, Around, Queued
<1>2. j \in GoodJob(h)  BY <1>1, HeadTailProperties
<1>3. j.cmd \in Made(h) /\ j.cmd.type \in Playing  BY <1>1, <1>2 DEF GoodJob, Playing
<1>4. j.cmd.id \in Ids /\ j.cmd = h.cmds[j.cmd.id] /\ j.cmd.saw = h.at[j.cmd.rev].by
  BY <1>1, <1>3 DEF Made, Chronicle
<1> HIDE DEF j
<1>5. applied' = Append(applied, j.cmd.id)  BY DEF j
<1>6. /\ Len(applied') = Len(applied) + 1 /\ applied'[Len(applied) + 1] = j.cmd.id
      /\ Len(applied) \in Nat
  BY <1>1, <1>4, <1>5, AppendProperties, LenProperties
<1>7. applied' # applied  BY <1>6
<1>8. PICK k \in Nodes : LET c == Head(jobs[k]).cmd
                        IN  /\ rec # Gone /\ jobs[k] # <<>>
                            /\ c.type \in Playing /\ ~Refuses(rec, c)
                            /\ applied' = Append(applied, c.id)
  BY <1>7, TakesEffect DEF vars, history
<1> DEFINE c == Head(jobs[k]).cmd
<1>9. Head(jobs[k]) \in GoodJob(h)  BY <1>1, <1>8, HeadTailProperties
<1>10. c \in Made(h) /\ c.type \in Playing /\ ~Refuses(rec, c) /\ applied' = Append(applied, c.id)
  BY <1>8, <1>9 DEF GoodJob
<1> HIDE DEF c
<1>11. c.id \in Ids /\ c = h.cmds[c.id]  BY <1>10 DEF Made, Chronicle
<1>12. applied'[Len(applied) + 1] = c.id  BY <1>1, <1>10, <1>11, AppendProperties
<1>13. c = j.cmd  BY <1>4, <1>6, <1>11, <1>12
<1>14. j.cmd.rev = rec.st.rev  BY <1>1, <1>10, <1>13 DEF Refuses, EndMatches
<1>15. rec.st.by = h.at[rec.st.rev].by  BY <1>8, ToldIs DEF Inv, Recorded, RecordOf
<1>16. rec.st.by = j.cmd.saw  BY <1>4, <1>14, <1>15
<1>17. QED  BY <1>16 DEF j

\* A viewer's view changes by a state it receives, which agrees with the chronicle.
LEMMA ViewSteps ==
    ASSUME NEW h \in Chronicle, Inv(h), Next
    PROVE  UNCHANGED view \/ \E v \in Viewers, new \in Told(h) : Receive(v, new)
<1>1. ASSUME NEW n \in Nodes, Step(n) \/ HeartbeatDue(n) \/ StoreFails(n)
      PROVE  UNCHANGED view
  <2>1. CASE HeartbeatDue(n)  BY <2>1 DEF HeartbeatDue
  <2>2. CASE Step(n) \/ StoreFails(n)
    <3>1. LeaveClients
      BY <2>2 DEF Step, ReadToCommit, ReadConfig, ReadToProject, BeatUnheard, RequestFindsNone,
           BeatFindsNone, SnapshotFindsNone, LeaveFindsNone, CommitCommand, CommitConfig, CommitLook,
           Project, CommitSnapshot, CommitLeave, Publish, StoreFails
    <3>2. QED  BY <3>1 DEF LeaveClients
  <2>3. QED  BY <1>1, <2>1, <2>2
<1>2. ASSUME NEW v \in Viewers,
             \/ Disconnect(v) \/ Fetch(v)
             \/ \E n \in Nodes : Connect(v, n)
             \/ \E lane \in Lanes : TransportFails(v, lane) \/ Arrives(v, lane)
      PROVE  UNCHANGED view
  BY <1>2 DEF Disconnect, Fetch, Connect, TransportFails, Arrives, Arrive
<1>3. ASSUME NEW v \in Viewers, NEW lane \in Lanes, open[v][lane] # None
      PROVE  open[v][lane].st \in Told(h)
  BY <1>3, AnswerTold, Before
<1>4. "gesture" \in Lanes /\ "end" \in Lanes /\ "setup" \in Lanes /\ "fetch" \in Lanes
      /\ Managers \subseteq Viewers
  BY DEF Lanes, Viewers
<1>5. ASSUME NEW m \in Managers,
             \/ Act(m) \/ PlayerEnds(m) \/ Setup(m) \/ \E type \in scene.types : Click(m, type)
      PROVE  UNCHANGED view \/ \E new \in Told(h) : Receive(m, new)
  <2>1. CASE GestureAnswered(m)
    <3>1. open[m]["gesture"].st \in Told(h)  BY <2>1, <1>3, <1>4 DEF GestureAnswered, Answered
    <3>2. UNCHANGED view \/ Receive(m, open[m].gesture.st)  BY <2>1 DEF GestureAnswered
    <3>3. QED  BY <3>1, <3>2
  <2>2. CASE EndAnswered(m)
    <3>1. open[m]["end"].st \in Told(h)  BY <2>2, <1>3, <1>4 DEF EndAnswered, Answered
    <3>2. UNCHANGED view \/ Receive(m, open[m].end.st)  BY <2>2 DEF EndAnswered
    <3>3. QED  BY <3>1, <3>2
  <2>3. CASE Flush(m) \/ EndRetried(m)  BY <2>3 DEF Flush, EndRetried
  <2>4. CASE PlayerEnds(m) \/ Setup(m) \/ \E type \in scene.types : Click(m, type)
    BY <2>4 DEF PlayerEnds, Setup, Click
  <2>5. QED  BY <1>5, <2>1, <2>2, <2>3, <2>4 DEF Act
<1>6. ASSUME NEW v \in Viewers, Deliver(v) \/ Loaded(v, "setup") \/ Loaded(v, "fetch")
      PROVE  UNCHANGED view \/ \E new \in Told(h) : Receive(v, new)
  <2>1. CASE Deliver(v)
    <3>1. Head(inbox[v]) \in Told(h)  BY <2>1, Before, HeadTailProperties DEF Deliver, Shown
    <3>2. QED  BY <2>1, <3>1 DEF Deliver
  <2>2. ASSUME NEW lane \in Lanes, Loaded(v, lane)
        PROVE  UNCHANGED view \/ \E new \in Told(h) : Receive(v, new)
    <3>1. open[v][lane].st \in Told(h)  BY <2>2, <1>3 DEF Loaded, Answered
    <3>2. QED  BY <2>2, <3>1 DEF Loaded
  <2>3. QED  BY <1>4, <1>6, <2>1, <2>2
<1>7. Tick \/ EndSession => UNCHANGED view  BY DEF Tick, EndSession
<1>8. QED  BY <1>1, <1>2, <1>4, <1>5, <1>6, <1>7 DEF Next, Receives

\* A state that is taken is at least as new, and resumes only what a command resumed.
LEMMA ReceiveForward ==
    ASSUME NEW h \in Chronicle, Inv(h), NEW v \in Viewers, NEW new \in Told(h), Receive(v, new),
           NEW w \in Viewers
    PROVE  /\ view'[w].rev >= view[w].rev
           /\ view[w].video # None /\ ~view[w].playing /\ view'[w].playing
              => view'[w].by # view[w].by
<1>1. view \in [Viewers -> Told(h)] /\ Consistent(h)  BY Before DEF Shown
<1>2. view[w] \in Told(h) /\ view[w].rev \in Nat  BY <1>1 DEF Told, States, PlayState
<1>3. CASE w = v /\ Takes(v, new)
  <2>1. view'[w] = new  BY <1>1, <1>3 DEF Receive
  <2>2. new.rev \in Nat  BY DEF Told, States, PlayState
  <2>3. Supersedes(view[w], new)  BY <1>3 DEF Takes, ManagerTakes
  <2>4. new.rev >= view[w].rev
    <3>1. CASE view[w].video = None  BY <3>1, <1>2, <2>2 DEF Told
    <3>2. CASE view[w].video # None  BY <3>2, <1>2, <2>2, <2>3 DEF Supersedes
    <3>3. QED  BY <3>1, <3>2
  <2>5. ASSUME view[w].video # None, ~view[w].playing, new.by = view[w].by
        PROVE  ~new.playing
    <3>1. view[w].rev # 0  BY <2>5, <1>2 DEF Told
    <3>2. h.at[view[w].rev].by = h.at[new.rev].by /\ (new.playing => h.at[new.rev].playing)
      BY <2>5, <1>2, ToldIs
    <3>3. CASE new.rev > view[w].rev
      BY <3>1, <3>2, <3>3, <1>1, <1>2, <2>2 DEF Consistent
    <3>4. CASE new.rev = view[w].rev
      <4> DEFINE x == view[w]
                 b == h.at[x.rev]
                 t == x.ts
                 u == new.ts
      <4>1. u >= t  BY <2>3, <2>5, <3>4, <1>2, <2>2 DEF Supersedes
      <4>2. b \in States /\ t \in Nat /\ u \in Nat /\ b.ts <= t /\ x \in States
        BY <1>2, ToldIs DEF Told
      <4>3. x = Settled(b, t) /\ new = Settled(b, u)  BY <1>2, <3>4 DEF Told
      <4>4. ~x.playing  BY <2>5
      <4> HIDE DEF x, b, t, u
      <4>5. new = Settled(x, u)  BY <4>1, <4>2, <4>3, SettledAgain
      <4>6. QED  BY <4>2, <4>4, <4>5, SettledIs
    <3>5. QED  BY <3>3, <3>4, <1>2, <2>2, <2>4
  <2>6. QED  BY <2>1, <2>4, <2>5
<1>4. CASE ~(w = v /\ Takes(v, new))
  <2>1. view'[w] = view[w]  BY <1>1, <1>4 DEF Receive
  <2>2. QED  BY <2>1, <1>2
<1>5. QED  BY <1>3, <1>4

\* A report that the video ended stops only the playback that its manager was watching,
\* though its instance compares no more than a revision and a position (endMatches in
\* the command route), and however many commands were made elsewhere meanwhile.
THEOREM EndsStopWhatWasSeen == Spec => EndsStopWhatTheySaw
<1>1. IInv /\ [Next]_vars
      => [\A n \in Nodes :
             Types(n, "commit", {"end"}) /\ applied' = Append(applied, Head(jobs[n]).cmd.id)
             => rec.st.by = Head(jobs[n]).cmd.saw]_vars
  <2> SUFFICES ASSUME IInv, [Next]_vars, NEW n \in Nodes,
                      Types(n, "commit", {"end"}), applied' = Append(applied, Head(jobs[n]).cmd.id)
               PROVE  rec.st.by = Head(jobs[n]).cmd.saw
    OBVIOUS
  <2>1. PICK h \in Chronicle : Inv(h)  BY DEF IInv
  <2>2. QED  BY <2>1, EndSaw
<1>2. QED  BY <1>1, Inductive, PTL DEF Spec, EndsStopWhatTheySaw

\* What a viewer shows never goes back to an older revision, and resumes only by a
\* command, in whatever order frames and answers arrive (the guard of syncMath.ts).
THEOREM ViewsForward == Spec => ViewsGoForward
<1>1. IInv /\ [Next]_vars
      => [\A v \in Viewers :
             /\ view'[v].rev >= view[v].rev
             /\ view[v].video # None /\ ~view[v].playing /\ view'[v].playing
                => view'[v].by # view[v].by]_vars
  <2> SUFFICES ASSUME IInv, [Next]_vars, NEW v \in Viewers
               PROVE  /\ view'[v].rev >= view[v].rev
                      /\ view[v].video # None /\ ~view[v].playing /\ view'[v].playing
                         => view'[v].by # view[v].by
    OBVIOUS
  <2>1. PICK h \in Chronicle : Inv(h)  BY DEF IInv
  <2>2. CASE UNCHANGED view
    <3>1. view[v] \in Told(h)  BY <2>1, Before DEF Shown
    <3>2. view[v].rev \in Nat  BY <3>1 DEF Told, States, PlayState
    <3>3. view'[v] = view[v]  BY <2>2
    <3>4. QED  BY <3>2, <3>3
  <2>3. CASE Next /\ view' # view
    <3>1. PICK u \in Viewers, new \in Told(h) : Receive(u, new)  BY <2>1, <2>3, ViewSteps
    <3>2. QED  BY <2>1, <3>1, ReceiveForward
  <2>4. QED  BY <2>2, <2>3 DEF vars
<1>2. QED  BY <1>1, Inductive, PTL DEF Spec, ViewsGoForward

-----------------------------------------------------------------------------
(* The order of a manager's gestures                                       *)

\* A command carries the names of its manager and its lane.
Aimed(who, lane, c) ==
    c.type \in Playing => /\ c.id[1] = who /\ c.id[3] = lane
                          /\ lane = "gesture" => c.type # "end"
Aim ==
    /\ \A n \in Nodes : \A i \in 1..Len(jobs[n]) :
          Aimed(jobs[n][i].who, jobs[n][i].lane, jobs[n][i].cmd)
    /\ \A r \in net : Aimed(r.who, r.lane, r.cmd)
    /\ \A v \in Viewers, l \in Lanes : open[v][l] # None => Aimed(v, l, open[v][l].cmd)
    /\ \A m \in Managers, l \in {"gesture", "end"} : want[m][l] # None => Aimed(m, l, want[m][l])

\* Nothing more comes of command c; viewer v waits for the answer to it.
Over(c) == rec = Gone \/ c.id \in rec.done
Awaited(v, c) == /\ open[v]["gesture"] # None /\ open[v]["gesture"].cmd = c
                 /\ open[v]["gesture"].reply = "pending"

\* Every copy of a gesture on its way is one that is waited for, or of no effect.
Traced ==
    /\ \A n \in Nodes : \A i \in 1..Len(jobs[n]) :
          LET j == jobs[n][i]
          IN  j.lane = "gesture" => Over(j.cmd) \/ (j.at # "publish" /\ Awaited(j.who, j.cmd))
    /\ \A r \in net : r.lane = "gesture" => Over(r.cmd) \/ Awaited(r.who, r.cmd)

\* Request r has been sent as the n-th try of c and has no answer yet.
Asks(r, c, n) == r # None /\ r = Asked(c, n)

\* Before the first fault there is one copy at most of what a manager asked for, in
\* its first try.
Alone ==
    /\ \A n \in Nodes : \A i \in 1..Len(jobs[n]) :
          LET j == jobs[n][i]
          IN  j.lane = "gesture" => Asks(open[j.who]["gesture"], j.cmd, j.nth)
    /\ \A r \in net : r.lane = "gesture" => Asks(open[r.who]["gesture"], r.cmd, r.nth)
    /\ \A n, k \in Nodes : \A i \in 1..Len(jobs[n]) : \A l \in 1..Len(jobs[k]) :
          /\ jobs[n][i].lane = "gesture" /\ jobs[k][l].lane = "gesture"
          /\ jobs[n][i].who = jobs[k][l].who
          => n = k /\ i = l
    /\ \A r, s \in net : r.lane = "gesture" /\ s.lane = "gesture" /\ r.who = s.who => r = s
    /\ \A n \in Nodes : \A i \in 1..Len(jobs[n]) : \A r \in net :
          jobs[n][i].lane = "gesture" /\ r.lane = "gesture" => jobs[n][i].who # r.who
    /\ \A m \in Managers : open[m]["gesture"] # None => open[m]["gesture"].nth % 2 = 1

\* What took effect, what is asked and what is wanted next were made in this order.
InTurn(m) ==
    LET w == want[m]["gesture"]
        o == open[m]["gesture"]
    IN  /\ \A i, j \in Gestures(m) : i < j => applied[i][2] < applied[j][2]
        /\ \A i \in Gestures(m) : /\ applied[i][2] < made[m]
                                  /\ w # None => applied[i][2] <= w.id[2]
                                  /\ o # None => applied[i][2] <= o.cmd.id[2]
        /\ w # None /\ o # None => o.cmd.id[2] <= w.id[2]

InOrder ==
    /\ Aim
    /\ faults <= 1 => Traced /\ \A m \in Managers : InTurn(m)
    /\ faults = 0 => Alone

-----------------------------------------------------------------------------

\* What the first invariant says of the copies of commands.
Counted(c) == c.type \in Playing => c.id \in Ids /\ c.id[2] < made[c.id[1]]
LEMMA Framed ==
    ASSUME NEW h \in Chronicle, Inv(h)
    PROVE  /\ TypeOK
           /\ \A n \in Nodes : \A i \in 1..Len(jobs[n]) :
                 LET j == jobs[n][i]
                 IN  /\ j \in Job /\ Counted(j.cmd)
                     /\ j.lane = "gesture" => j.who \in Viewers /\ j.cmd.type \in Playing
           /\ \A r \in net : /\ r.who \in Viewers /\ r.cmd \in Command /\ Counted(r.cmd)
                             /\ r.lane = "gesture" => r.cmd.type \in Playing
           /\ \A v \in Viewers, l \in Lanes :
                 open[v][l] # None => /\ open[v][l] \in Request /\ Counted(open[v][l].cmd)
                                      /\ l \in {"gesture", "end"} => open[v][l].cmd.type \in Playing
           /\ \A m \in Managers, l \in {"gesture", "end"} :
                 want[m][l] # None => /\ want[m][l] \in Command /\ Counted(want[m][l])
                                      /\ want[m][l].type \in Playing
           /\ rec # Gone => \A i \in 1..Len(applied) : applied[i] \in rec.done
<1>1. \A c \in Made(h) : c \in Command /\ Counted(c)
  BY DEF Made, Counted, Inv, Numbered, Chronicle
<1>2. TypeOK  BY TypedOK
<1>3. ASSUME NEW n \in Nodes, NEW i \in 1..Len(jobs[n])
      PROVE  LET j == jobs[n][i]
             IN  /\ j \in Job /\ Counted(j.cmd)
                 /\ j.lane = "gesture" => j.who \in Viewers /\ j.cmd.type \in Playing
  <2>1. jobs[n] \in Seq(GoodJob(h))  BY Before DEF Queued
  <2>2. jobs[n][i] \in GoodJob(h)  BY <2>1, ElementOfSeq
  <2> DEFINE j == jobs[n][i]
  <2> HIDE DEF j
  <2>3. j \in GoodJob(h)  BY <2>2 DEF j
  <2>4. j \in Job /\ Counted(j.cmd)  BY <2>3, <1>1 DEF GoodJob
  <2>5. j.lane = "gesture" => j.who \in Viewers /\ j.cmd.type \in Playing
    BY <2>3, NoneOK DEF GoodJob, Proper, Lanes
  <2>6. QED  BY <2>4, <2>5 DEF j
<1>4. ASSUME NEW r \in net
      PROVE  /\ r.who \in Viewers /\ r.cmd \in Command /\ Counted(r.cmd)
             /\ r.lane = "gesture" => r.cmd.type \in Playing
  <2>1. r \in Sent(h)  BY Before DEF Asking
  <2>2. QED  BY <2>1, <1>1 DEF Sent, Proper
<1>5. ASSUME NEW v \in Viewers, NEW l \in Lanes, open[v][l] # None
      PROVE  /\ open[v][l] \in Request /\ Counted(open[v][l].cmd)
             /\ l \in {"gesture", "end"} => open[v][l].cmd.type \in Playing
  <2>1. open[v][l] \in GoodRequest(h, v, l)  BY <1>5, Before DEF Opened
  <2> DEFINE r == open[v][l]
  <2> HIDE DEF r
  <2>2. r \in GoodRequest(h, v, l)  BY <2>1 DEF r
  <2>3. /\ r \in Request /\ Counted(r.cmd)
        /\ l \in {"gesture", "end"} => r.cmd.type \in Playing
    BY <2>2, <1>1 DEF GoodRequest, Proper
  <2>4. QED  BY <2>3 DEF r
<1>6. ASSUME NEW m \in Managers, NEW l \in {"gesture", "end"}, want[m][l] # None
      PROVE  /\ want[m][l] \in Command /\ Counted(want[m][l])
             /\ want[m][l].type \in Playing
  <2>1. want[m][l] \in Wanted(h)  BY <1>6, Before DEF Asking
  <2>2. QED  BY <2>1, <1>1 DEF Wanted
<1>7. rec # Gone => \A i \in 1..Len(applied) : applied[i] \in rec.done  BY DEF Inv, Effective
<1>8. QED  BY <1>2, <1>3, <1>4, <1>5, <1>6, <1>7

\* x is a copy of y.
Same(x, y) == x.who = y.who /\ x.lane = y.lane /\ x.cmd = y.cmd /\ x.nth = y.nth
OverThen(c) == rec' = Gone \/ c.id \in rec'.done
AwaitedThen(v, c) == /\ open'[v]["gesture"] # None /\ open'[v]["gesture"].cmd = c
                     /\ open'[v]["gesture"].reply = "pending"

\* The queues after a step that takes d jobs from that of instance n, and adds none
\* of a command.
Moved(n, d) ==
    \A k \in Nodes : \A i \in 1..Len(jobs'[k]) :
        \/ jobs'[k][i].lane # "gesture" /\ jobs'[k][i].cmd.type \notin Playing
        \/ LET p == IF k = n THEN i + d ELSE i
           IN  /\ p \in 1..Len(jobs[k]) /\ Same(jobs'[k][i], jobs[k][p])
               /\ jobs'[k][i].lane = "gesture" /\ jobs'[k][i].at = "publish"
                  => jobs[k][p].at = "publish" \/ OverThen(jobs'[k][i].cmd)

LEMMA DoneMoves ==
    ASSUME jobs \in [Nodes -> Seq(Job)], NEW n \in Nodes, jobs[n] # <<>>, NEW js \in Seq(Job),
           \A i \in 1..Len(js) : js[i].lane # "gesture" /\ js[i].cmd.type \notin Playing,
           Done(n, js)
    PROVE  Moved(n, 1)
<1> SUFFICES ASSUME NEW k \in Nodes, NEW i \in 1..Len(jobs'[k])
             PROVE  \/ jobs'[k][i].lane # "gesture" /\ jobs'[k][i].cmd.type \notin Playing
                    \/ LET p == IF k = n THEN i + 1 ELSE i
                       IN  p \in 1..Len(jobs[k]) /\ jobs'[k][i] = jobs[k][p]
  BY DEF Moved, Same
<1>1. jobs'[k] = IF k = n THEN Tail(jobs[n]) \o js ELSE jobs[k]  BY DEF Done
<1>2. CASE k # n  BY <1>1, <1>2
<1>3. CASE k = n
  <2> DEFINE q == jobs[n]
             t == Tail(jobs[n])
  <2>1. /\ q \in Seq(Job) /\ t \in Seq(Job) /\ Len(t) = Len(q) - 1 /\ Len(q) \in Nat
        /\ \A l \in 1..Len(t) : t[l] = q[l + 1]
    BY HeadTailProperties, LenProperties
  <2> HIDE DEF q, t
  <2>2. /\ Len(t \o js) = Len(t) + Len(js)
        /\ \A l \in 1..Len(t) + Len(js) : (t \o js)[l] = IF l <= Len(t) THEN t[l] ELSE js[l - Len(t)]
    BY <2>1, ConcatProperties
  <2>3. Len(t) \in Nat /\ Len(js) \in Nat  BY <2>1, LenProperties
  <2>4. jobs'[k] = t \o js /\ i \in 1..Len(t) + Len(js)  BY <1>1, <1>3, <2>2 DEF t
  <2>5. CASE i <= Len(t)
    <3>1. jobs'[k][i] = q[i + 1] /\ i + 1 \in 1..Len(q)  BY <2>1, <2>2, <2>3, <2>4, <2>5
    <3>2. QED  BY <3>1, <1>3 DEF q
  <2>6. CASE ~(i <= Len(t))
    <3>1. jobs'[k][i] = js[i - Len(t)] /\ i - Len(t) \in 1..Len(js)
      BY <2>2, <2>3, <2>4, <2>6
    <3>2. QED  BY <3>1
  <2>7. QED  BY <2>5, <2>6
<1>4. QED  BY <1>2, <1>3

LEMMA EndMoves ==
    ASSUME jobs \in [Nodes -> Seq(Job)], NEW n \in Nodes, jobs[n] # <<>>, Done(n, <<>>)
    PROVE  Moved(n, 1)
<1> DEFINE js == <<>>
<1>1. js \in Seq(Job) /\ Len(js) = 0 /\ Done(n, js)  BY EmptySeq
<1> HIDE DEF js
<1>2. \A i \in 1..Len(js) : FALSE  BY <1>1
<1>3. QED  BY <1>1, <1>2, DoneMoves

LEMMA ClosingMoves ==
    ASSUME NEW h \in Chronicle, Inv(h), NEW n \in Nodes, jobs[n] # <<>>,
           NEW vs \in SUBSET subs[n], CloseSockets(n, vs)
    PROVE  Moved(n, 1)
<1>1. IsFiniteSet(vs)  BY FS_Subset DEF Inv, Subscribed
<1>2. Cardinality(vs) \in Nat  BY <1>1, FS_CardinalityType
<1> DEFINE c == Cardinality(vs)
           js == [k \in 1..c |-> LeaveJob(n)]
<1>3. Done(n, js)  BY DEF CloseSockets
<1> HIDE DEF c
<1>4. c \in Nat  BY <1>2 DEF c
<1>5. LeaveJob(n) \in Job  BY LeaveGood DEF GoodJob, Inv
<1>6. js \in [1..c -> Job]  BY <1>5
<1>7. js \in Seq(Job) /\ Len(js) = c  BY <1>4, <1>6, SeqDef, LenProperties
<1>8. LeaveJob(n).lane = None /\ LeaveJob(n).cmd.type = "leave"  BY DEF LeaveJob, NewJob, Plain
<1>9. \A i \in 1..Len(js) : js[i].lane # "gesture" /\ js[i].cmd.type \notin Playing
  BY <1>7, <1>8, NoneOK DEF Lanes, Playing
<1>10. jobs \in [Nodes -> Seq(Job)]  BY Framed DEF TypeOK
<1> HIDE DEF js
<1>11. QED  BY <1>3, <1>7, <1>9, <1>10, DoneMoves

LEMMA GoOnMoves ==
    ASSUME jobs \in [Nodes -> Seq(Job)], NEW n \in Nodes, jobs[n] # <<>>, NEW b \in Job,
           Same(b, Head(jobs[n])),
           b.lane = "gesture" /\ b.at = "publish" => OverThen(b.cmd), GoOn(n, b)
    PROVE  Moved(n, 0)
<1> SUFFICES ASSUME NEW k \in Nodes, NEW i \in 1..Len(jobs'[k])
             PROVE  /\ i \in 1..Len(jobs[k])
                    /\ \/ jobs'[k][i] = jobs[k][i]
                       \/ jobs'[k][i] = b /\ jobs[k][i] = Head(jobs[n])
  BY DEF Moved, Same
<1>1. jobs'[k] = IF k = n THEN <<b>> \o Tail(jobs[n]) ELSE jobs[k]  BY DEF GoOn
<1>2. CASE k # n  BY <1>1, <1>2
<1>3. CASE k = n
  <2> DEFINE q == jobs[n]
             t == Tail(jobs[n])
  <2>1. /\ q \in Seq(Job) /\ t \in Seq(Job) /\ Len(t) = Len(q) - 1 /\ Len(q) \in Nat
        /\ \A l \in 1..Len(t) : t[l] = q[l + 1]
        /\ Head(q) = q[1]
    BY HeadTailProperties, LenProperties
  <2>2. <<b>> \in Seq(Job) /\ Len(<<b>>) = 1 /\ <<b>>[1] = b  OBVIOUS
  <2> DEFINE u == <<b>>
  <2> HIDE DEF q, t, u
  <2>3. u \in Seq(Job) /\ Len(u) = 1 /\ u[1] = b  BY <2>2 DEF u
  <2>4. /\ Len(u \o t) = Len(u) + Len(t)
        /\ \A l \in 1..Len(u) + Len(t) : (u \o t)[l] = IF l <= Len(u) THEN u[l] ELSE t[l - Len(u)]
    <3>1. u \in Seq(Job) /\ t \in Seq(Job)  BY <2>1, <2>3
    <3>2. QED  BY <3>1, ConcatProperties
  <2>5. Len(t) \in Nat  BY <2>1, LenProperties
  <2>6. jobs'[k] = u \o t /\ i \in 1..1 + Len(t)  BY <1>1, <1>3, <2>3, <2>4 DEF u, t
  <2>7. CASE i = 1
    <3>1. jobs'[k][i] = b /\ 1 \in 1..Len(q)  BY <2>1, <2>3, <2>4, <2>5, <2>6, <2>7
    <3>2. QED  BY <3>1, <1>3, <2>1, <2>7 DEF q
  <2>8. CASE i # 1
    <3>1. jobs'[k][i] = t[i - 1] /\ i - 1 \in 1..Len(t)  BY <2>3, <2>4, <2>5, <2>6, <2>8
    <3>2. t[i - 1] = q[i] /\ i \in 1..Len(q)  BY <3>1, <2>1, <2>5
    <3>3. QED  BY <3>1, <3>2, <1>3 DEF q
  <2>9. QED  BY <2>7, <2>8
<1>4. QED  BY <1>2, <1>3

\* Where the jobs are after one was put behind the others.
LEMMA AppendAt ==
    ASSUME jobs \in [Nodes -> Seq(Job)], NEW n \in Nodes, NEW b \in Job,
           jobs' = [jobs EXCEPT ![n] = Append(@, b)],
           NEW k \in Nodes, NEW i \in 1..Len(jobs'[k])
    PROVE  \/ k = n /\ i = Len(jobs[n]) + 1 /\ jobs'[k][i] = b
           \/ i \in 1..Len(jobs[k]) /\ jobs'[k][i] = jobs[k][i]
<1>1. jobs'[k] = IF k = n THEN Append(jobs[n], b) ELSE jobs[k]  OBVIOUS
<1> DEFINE q == jobs[n]
<1>2. q \in Seq(Job)  OBVIOUS
<1> HIDE DEF q
<1>3. /\ Len(Append(q, b)) = Len(q) + 1 /\ Append(q, b)[Len(q) + 1] = b /\ Len(q) \in Nat
      /\ \A l \in 1..Len(q) : Append(q, b)[l] = q[l]
  BY <1>2, AppendProperties, LenProperties
<1>4. CASE k = n
  <2>1. jobs'[k] = Append(q, b)  BY <1>1, <1>4 DEF q
  <2>2. i = Len(q) + 1 \/ i \in 1..Len(q)  BY <2>1, <1>3
  <2>3. QED  BY <2>1, <2>2, <1>3, <1>4 DEF q
<1>5. CASE k # n  BY <1>1, <1>5
<1>6. QED  BY <1>4, <1>5

LEMMA AppendMoves ==
    ASSUME jobs \in [Nodes -> Seq(Job)], NEW n \in Nodes, NEW b \in Job,
           b.lane # "gesture", b.cmd.type \notin Playing,
           jobs' = [jobs EXCEPT ![n] = Append(@, b)]
    PROVE  Moved(n, 0)
<1> SUFFICES ASSUME NEW k \in Nodes, NEW i \in 1..Len(jobs'[k])
             PROVE  jobs'[k][i] = b \/ (i \in 1..Len(jobs[k]) /\ jobs'[k][i] = jobs[k][i])
  BY DEF Moved, Same
<1>1. QED  BY AppendAt

\* The answer to a request takes nothing else from it.
LEMMA ReplyAt ==
    ASSUME NEW h \in Chronicle, Inv(h), NEW j \in GoodJob(h),
           NEW kind \in {"state", "refused", "retry"}, NEW st \in States, Reply(j, kind, st),
           NEW v \in Viewers, NEW l \in Lanes
    PROVE  \/ open'[v][l] = open[v][l]
           \/ /\ v = j.who /\ l = j.lane /\ open[v][l] = Asked(j.cmd, j.nth)
              /\ open[v][l] # None /\ open'[v][l] # None
              /\ open'[v][l].cmd = open[v][l].cmd /\ open'[v][l].nth = open[v][l].nth
<1>1. open \in [Viewers -> [Lanes -> Request \cup {None}]]  BY Framed DEF TypeOK
<1>2. CASE ~(j.lane # None /\ open[j.who][j.lane] = Asked(j.cmd, j.nth))
  BY <1>2 DEF Reply
<1>3. CASE j.lane # None /\ open[j.who][j.lane] = Asked(j.cmd, j.nth)
  <2>1. /\ j.who \in Viewers /\ j.nth \in 1..MaxTries /\ j.lane \in Lanes /\ j.cmd \in Command
    BY <1>3 DEF GoodJob, Job
  <2> DEFINE r == Asked(j.cmd, j.nth)
             z == Replied(r, kind, st)
  <2>2. r \in Request  BY <2>1, UnconfiguredIs DEF Asked, Request
  <2>3. open' = [open EXCEPT ![j.who][j.lane] = z] /\ open[j.who][j.lane] = r  BY <1>3 DEF Reply
  <2> HIDE DEF r
  <2>4. z \in Request /\ z.cmd = r.cmd /\ z.nth = r.nth  BY <2>2 DEF Replied, Request
  <2>5. z # None /\ r # None  BY <2>2, <2>4, NoneOK
  <2> HIDE DEF z
  <2>6. CASE v = j.who /\ l = j.lane
    <3>1. open'[v][l] = z /\ open[v][l] = r  BY <1>1, <2>1, <2>3, <2>6
    <3>2. QED  BY <3>1, <2>4, <2>5, <2>6 DEF r
  <2>7. CASE ~(v = j.who /\ l = j.lane)  BY <1>1, <2>1, <2>3, <2>7
  <2>8. QED  BY <2>6, <2>7
<1>4. QED  BY <1>2, <1>3

\* What a step of instance n does: it takes d jobs from its queue; it may answer the
\* running one, when nothing more comes of that or a fault broke it; and the running
\* job may have its effect.
Answers(n) ==
    /\ \E kind \in {"state", "refused", "retry"}, st \in States : Reply(Head(jobs[n]), kind, st)
    /\ Head(jobs[n]).lane = "gesture"
       => OverThen(Head(jobs[n]).cmd) \/ faults' = faults + 1 \/ faults > 1
TakesOne(n) ==
    LET c == Head(jobs[n]).cmd
    IN  /\ rec # Gone /\ Head(jobs[n]).at = "commit" /\ c.type \in Playing /\ ~Refuses(rec, c)
        /\ applied' = Append(applied, c.id) /\ c.id \in Ids \ rec.done
TakesNone == UNCHANGED applied
Onward == rec' # Gone => rec # Gone /\ rec.done \subseteq rec'.done
Works(n, d) ==
    /\ d = 1 => n \in Nodes /\ jobs[n] # <<>>
    /\ Moved(n, d)
    /\ \/ UNCHANGED open /\ (d = 1 => Head(jobs[n]).lane # "gesture")
       \/ d = 1 /\ Answers(n)
    /\ TakesNone \/ (n \in Nodes /\ jobs[n] # <<>> /\ TakesOne(n))
    /\ Onward
    /\ UNCHANGED <<want, net, made>> /\ faults' \in {faults, faults + 1}

LEMMA OpenAt ==
    ASSUME NEW h \in Chronicle, Inv(h), NEW n, NEW d \in {0, 1}, Works(n, d),
           NEW v \in Viewers, NEW l \in Lanes
    PROVE  \/ open'[v][l] = open[v][l]
           \/ LET j == Head(jobs[n])
              IN  /\ d = 1 /\ n \in Nodes /\ jobs[n] # <<>> /\ Answers(n)
                  /\ v = j.who /\ l = j.lane /\ open[v][l] = Asked(j.cmd, j.nth)
                  /\ open[v][l] # None /\ open'[v][l] # None
                  /\ open'[v][l].cmd = open[v][l].cmd /\ open'[v][l].nth = open[v][l].nth
<1>1. CASE UNCHANGED open  BY <1>1
<1>2. CASE d = 1 /\ Answers(n)
  <2>1. n \in Nodes /\ jobs[n] # <<>>  BY <1>2 DEF Works
  <2>2. Head(jobs[n]) \in GoodJob(h)  BY <2>1, Before, HeadTailProperties DEF Queued
  <2>3. QED  BY <1>2, <2>1, <2>2, ReplyAt DEF Answers
<1>3. QED  BY <1>1, <1>2 DEF Works

LEMMA WorksAim ==
    ASSUME NEW h \in Chronicle, Inv(h), NEW n, NEW d \in {0, 1}, Works(n, d), Aim
    PROVE  Aim'
<1>1. \A k \in Nodes : \A i \in 1..Len(jobs'[k]) :
         Aimed(jobs'[k][i].who, jobs'[k][i].lane, jobs'[k][i].cmd)
  <2> SUFFICES ASSUME NEW k \in Nodes, NEW i \in 1..Len(jobs'[k]), jobs'[k][i].cmd.type \in Playing
               PROVE  Aimed(jobs'[k][i].who, jobs'[k][i].lane, jobs'[k][i].cmd)
    BY DEF Aimed
  <2>1. PICK p \in 1..Len(jobs[k]) : Same(jobs'[k][i], jobs[k][p])  BY DEF Works, Moved
  <2>2. QED  BY <2>1 DEF Same, Aim
<1>2. \A v \in Viewers, l \in Lanes : open'[v][l] # None => Aimed(v, l, open'[v][l].cmd)
  BY OpenAt DEF Aim
<1>3. want' = want /\ net' = net  BY DEF Works
<1>4. QED  BY <1>1, <1>2, <1>3 DEF Aim

\* The job at place i of instance k's queue after the step, if it is a gesture's, and
\* the place where it was before.
LEMMA GestureAt ==
    ASSUME NEW n, NEW d \in {0, 1}, Moved(n, d), NEW k \in Nodes, NEW i \in 1..Len(jobs'[k]),
           jobs'[k][i].lane = "gesture"
    PROVE  LET p == IF k = n THEN i + d ELSE i
           IN  /\ p \in 1..Len(jobs[k]) /\ Same(jobs'[k][i], jobs[k][p])
               /\ jobs[k][p].lane = "gesture"
               /\ jobs'[k][i].at = "publish" => jobs[k][p].at = "publish" \/ OverThen(jobs'[k][i].cmd)
BY DEF Moved, Same

\* Before the first fault a gesture's answer goes to the one copy there is.
LEMMA HeadIsAlone ==
    ASSUME NEW h \in Chronicle, Inv(h), NEW n \in Nodes, jobs[n] # <<>>, Alone,
           Head(jobs[n]).lane = "gesture"
    PROVE  /\ \A k \in Nodes : \A p \in 1..Len(jobs[k]) :
                 jobs[k][p].lane = "gesture" /\ jobs[k][p].who = Head(jobs[n]).who => k = n /\ p = 1
           /\ \A r \in net : r.lane = "gesture" => r.who # Head(jobs[n]).who
<1>1. jobs[n] \in Seq(Job)  BY Framed DEF TypeOK
<1>2. Head(jobs[n]) = jobs[n][1] /\ 1 \in 1..Len(jobs[n])
  BY <1>1, HeadTailProperties, LenProperties, EmptySeq
<1>3. QED  BY <1>2 DEF Alone

LEMMA WorksTraced ==
    ASSUME NEW h \in Chronicle, Inv(h), NEW n, NEW d \in {0, 1}, Works(n, d), InOrder, faults' <= 1
    PROVE  Traced'
<1>1. faults \in Nat /\ faults' \in {faults, faults + 1}  BY Before DEF Works
<1>2. Traced  BY <1>1 DEF InOrder
<1>3. ASSUME NEW c, Over(c) PROVE OverThen(c)  BY <1>3 DEF Over, OverThen, Works, Onward
<1>4. "gesture" \in Lanes  BY DEF Lanes
\* Who waited for a gesture waits on, unless its copy was the running job.
<1>5. ASSUME NEW v \in Viewers, NEW c, Awaited(v, c)
      PROVE  \/ open'[v]["gesture"] = open[v]["gesture"] \/ OverThen(c)
             \/ /\ faults = 0 /\ d = 1 /\ n \in Nodes /\ jobs[n] # <<>>
                /\ Head(jobs[n]).lane = "gesture" /\ Head(jobs[n]).who = v
  <2>1. CASE open'[v]["gesture"] # open[v]["gesture"]
    <3>1. /\ d = 1 /\ n \in Nodes /\ jobs[n] # <<>> /\ Answers(n)
          /\ v = Head(jobs[n]).who /\ "gesture" = Head(jobs[n]).lane
          /\ open[v]["gesture"] = Asked(Head(jobs[n]).cmd, Head(jobs[n]).nth)
      BY <1>4, <2>1, OpenAt
    <3>2. c = Head(jobs[n]).cmd  BY <3>1, <1>5 DEF Awaited, Asked
    <3>3. OverThen(c) \/ faults' = faults + 1 \/ faults > 1  BY <3>1, <3>2 DEF Answers
    <3>4. QED  BY <3>1, <3>3, <1>1
  <2>2. QED  BY <2>1
<1>6. ASSUME NEW k \in Nodes, NEW i \in 1..Len(jobs'[k]), jobs'[k][i].lane = "gesture"
      PROVE  \/ OverThen(jobs'[k][i].cmd)
             \/ /\ jobs'[k][i].at # "publish"
                /\ AwaitedThen(jobs'[k][i].who, jobs'[k][i].cmd)
  <2> DEFINE p == IF k = n THEN i + d ELSE i
             b == jobs[k][p]
             z == jobs'[k][i]
  <2>1. /\ p \in 1..Len(jobs[k]) /\ Same(z, b) /\ b.lane = "gesture"
        /\ z.at = "publish" => b.at = "publish" \/ OverThen(z.cmd)
    BY <1>6, GestureAt DEF Works
  <2>2. b.who \in Viewers  BY <2>1, Framed
  <2>3. Over(b.cmd) \/ (b.at # "publish" /\ Awaited(b.who, b.cmd))  BY <2>1, <1>2 DEF Traced
  <2>4. CASE faults = 0 /\ d = 1 /\ n \in Nodes /\ jobs[n] # <<>>
             /\ Head(jobs[n]).lane = "gesture" /\ Head(jobs[n]).who = b.who
    <3>1. Alone  BY <2>4 DEF InOrder
    <3>2. k = n /\ p = 1  BY <3>1, <2>1, <2>4, HeadIsAlone
    <3>3. QED  BY <3>2, <2>4
  <2> HIDE DEF p, b, z
  <2>5. QED
    <3>1. CASE Over(b.cmd)  BY <3>1, <2>1, <1>3 DEF Same, z
    <3>2. CASE b.at # "publish" /\ Awaited(b.who, b.cmd)
      <4>1. \/ open'[b.who]["gesture"] = open[b.who]["gesture"] \/ OverThen(b.cmd)
            \/ /\ faults = 0 /\ d = 1 /\ n \in Nodes /\ jobs[n] # <<>>
               /\ Head(jobs[n]).lane = "gesture" /\ Head(jobs[n]).who = b.who
        BY <3>2, <2>2, <1>5
      <4>2. QED  BY <4>1, <3>2, <2>1, <2>4 DEF Same, Awaited, AwaitedThen, z
    <3>3. QED  BY <3>1, <3>2, <2>3
<1>7. ASSUME NEW r \in net', r.lane = "gesture"
      PROVE  \/ OverThen(r.cmd)
             \/ AwaitedThen(r.who, r.cmd)
  <2>1. r \in net  BY DEF Works
  <2>2. r.who \in Viewers  BY <2>1, Framed
  <2>3. Over(r.cmd) \/ Awaited(r.who, r.cmd)  BY <2>1, <1>2, <1>7 DEF Traced
  <2>4. CASE faults = 0 /\ d = 1 /\ n \in Nodes /\ jobs[n] # <<>>
             /\ Head(jobs[n]).lane = "gesture" /\ Head(jobs[n]).who = r.who
    <3>1. Alone  BY <2>4 DEF InOrder
    <3>2. QED  BY <3>1, <2>1, <1>7, <2>4, HeadIsAlone
  <2>5. CASE Over(r.cmd)  BY <2>5, <1>3
  <2>6. CASE Awaited(r.who, r.cmd)
    <3>1. \/ open'[r.who]["gesture"] = open[r.who]["gesture"] \/ OverThen(r.cmd)
          \/ /\ faults = 0 /\ d = 1 /\ n \in Nodes /\ jobs[n] # <<>>
             /\ Head(jobs[n]).lane = "gesture" /\ Head(jobs[n]).who = r.who
      BY <2>6, <2>2, <1>5
    <3>2. QED  BY <3>1, <2>4, <2>6 DEF Awaited, AwaitedThen
  <2>7. QED  BY <2>3, <2>5, <2>6
<1>8. QED  BY <1>6, <1>7 DEF Traced, Over, OverThen, Awaited, AwaitedThen

LEMMA WorksAlone ==
    ASSUME NEW h \in Chronicle, Inv(h), NEW n, NEW d \in {0, 1}, Works(n, d), InOrder, faults' = 0
    PROVE  Alone'
<1>1. faults = 0 /\ faults' # faults + 1  BY Before DEF Works
<1>2. Alone  BY <1>1 DEF InOrder
<1>3. "gesture" \in Lanes /\ net' = net /\ Managers \subseteq Viewers  BY DEF Lanes, Works, Viewers
\* The requests that are waited for are as they were, but for the answered one's.
<1>4. ASSUME NEW v \in Viewers
      PROVE  \/ open'[v]["gesture"] = open[v]["gesture"]
             \/ /\ d = 1 /\ n \in Nodes /\ jobs[n] # <<>>
                /\ Head(jobs[n]).lane = "gesture" /\ Head(jobs[n]).who = v
                /\ open[v]["gesture"] # None
                /\ open'[v]["gesture"].nth = open[v]["gesture"].nth
  BY <1>3, OpenAt
<1>5. ASSUME NEW k \in Nodes, NEW i \in 1..Len(jobs'[k]), jobs'[k][i].lane = "gesture"
      PROVE  LET p == IF k = n THEN i + d ELSE i
             IN  /\ p \in 1..Len(jobs[k]) /\ Same(jobs'[k][i], jobs[k][p])
                 /\ jobs[k][p].lane = "gesture"
  BY <1>5, GestureAt DEF Works
<1>6. ASSUME NEW k \in Nodes, NEW i \in 1..Len(jobs'[k]), jobs'[k][i].lane = "gesture"
      PROVE  Asks(open'[jobs'[k][i].who]["gesture"], jobs'[k][i].cmd, jobs'[k][i].nth)
  <2> DEFINE p == IF k = n THEN i + d ELSE i
             b == jobs[k][p]
  <2>1. p \in 1..Len(jobs[k]) /\ Same(jobs'[k][i], b) /\ b.lane = "gesture"  BY <1>5, <1>6
  <2>2. b.who \in Viewers  BY <2>1, Framed
  <2>3. Asks(open[b.who]["gesture"], b.cmd, b.nth)  BY <2>1, <1>2 DEF Alone
  <2>4. CASE d = 1 /\ n \in Nodes /\ jobs[n] # <<>>
             /\ Head(jobs[n]).lane = "gesture" /\ Head(jobs[n]).who = b.who
    <3>1. k = n /\ p = 1  BY <2>1, <2>4, <1>2, HeadIsAlone
    <3>2. QED  BY <3>1, <2>4
  <2> HIDE DEF p, b
  <2>5. CASE open'[b.who]["gesture"] = open[b.who]["gesture"]
    BY <2>1, <2>3, <2>5 DEF Same
  <2>6. QED  BY <2>2, <2>4, <2>5, <1>4
<1>7. ASSUME NEW r \in net', r.lane = "gesture"
      PROVE  Asks(open'[r.who]["gesture"], r.cmd, r.nth)
  <2>1. r \in net /\ r.who \in Viewers  BY <1>3, Framed
  <2>2. Asks(open[r.who]["gesture"], r.cmd, r.nth)  BY <2>1, <1>2, <1>7 DEF Alone
  <2>3. CASE d = 1 /\ n \in Nodes /\ jobs[n] # <<>>
             /\ Head(jobs[n]).lane = "gesture" /\ Head(jobs[n]).who = r.who
    BY <2>1, <2>3, <1>2, <1>7, HeadIsAlone
  <2>4. QED  BY <2>1, <2>2, <2>3, <1>4
<1>8. ASSUME NEW k \in Nodes, NEW q \in Nodes, NEW i \in 1..Len(jobs'[k]), NEW l \in 1..Len(jobs'[q]),
             jobs'[k][i].lane = "gesture", jobs'[q][l].lane = "gesture",
             jobs'[k][i].who = jobs'[q][l].who
      PROVE  k = q /\ i = l
  <2> DEFINE p == IF k = n THEN i + d ELSE i
             o == IF q = n THEN l + d ELSE l
  <2>1. p \in 1..Len(jobs[k]) /\ Same(jobs'[k][i], jobs[k][p]) /\ jobs[k][p].lane = "gesture"
    BY <1>5, <1>8
  <2>2. o \in 1..Len(jobs[q]) /\ Same(jobs'[q][l], jobs[q][o]) /\ jobs[q][o].lane = "gesture"
    BY <1>5, <1>8
  <2> HIDE DEF p, o
  <2>3. jobs[k][p].who = jobs[q][o].who  BY <2>1, <2>2, <1>8 DEF Same
  <2>4. k = q /\ p = o  BY <2>1, <2>2, <2>3, <1>2 DEF Alone
  <2>5. QED  BY <2>4 DEF p, o
<1>9. ASSUME NEW k \in Nodes, NEW i \in 1..Len(jobs'[k]), NEW r \in net',
             jobs'[k][i].lane = "gesture", r.lane = "gesture"
      PROVE  jobs'[k][i].who # r.who
  <2> DEFINE p == IF k = n THEN i + d ELSE i
  <2>1. p \in 1..Len(jobs[k]) /\ Same(jobs'[k][i], jobs[k][p]) /\ jobs[k][p].lane = "gesture"
    BY <1>5, <1>9
  <2> HIDE DEF p
  <2>2. QED  BY <2>1, <1>2, <1>3, <1>9 DEF Same, Alone
<1>10. \A m \in Managers : open'[m]["gesture"] # None => open'[m]["gesture"].nth % 2 = 1
  <2> SUFFICES ASSUME NEW m \in Managers, open'[m]["gesture"] # None
               PROVE  open'[m]["gesture"].nth % 2 = 1
    OBVIOUS
  <2>1. /\ open[m]["gesture"] # None
        /\ open'[m]["gesture"] = open[m]["gesture"] \/ open'[m]["gesture"].nth = open[m]["gesture"].nth
    BY <1>3, <1>4
  <2>2. open[m]["gesture"].nth % 2 = 1  BY <2>1, <1>2 DEF Alone
  <2>3. open'[m]["gesture"].nth = open[m]["gesture"].nth  BY <2>1
  <2>4. QED  BY <2>2, <2>3
<1>11. \A r, s \in net' : r.lane = "gesture" /\ s.lane = "gesture" /\ r.who = s.who => r = s
  BY <1>2, <1>3 DEF Alone
<1>12. QED  BY <1>6, <1>7, <1>8, <1>9, <1>10, <1>11 DEF Alone

\* What takes effect is what is waited for.
LEMMA TakenIsAwaited ==
    ASSUME NEW h \in Chronicle, Inv(h), InOrder, faults <= 1, NEW n \in Nodes, jobs[n] # <<>>,
           TakesOne(n), Head(jobs[n]).cmd.id[3] = "gesture"
    PROVE  LET c == Head(jobs[n]).cmd
               m == c.id[1]
           IN  m \in Managers /\ open[m]["gesture"] # None /\ open[m]["gesture"].cmd = c
<1> DEFINE j == Head(jobs[n])
<1>1. jobs[n] \in Seq(Job)  BY Framed DEF TypeOK
<1>2. j = jobs[n][1] /\ 1 \in 1..Len(jobs[n])
  BY <1>1, HeadTailProperties, LenProperties, EmptySeq
<1> HIDE DEF j
<1>3. /\ rec # Gone /\ j.cmd.type \in Playing /\ j.cmd.id \in Ids \ rec.done
      /\ j.cmd.id[3] = "gesture"
  BY DEF TakesOne, j
<1>4. Aimed(j.who, j.lane, j.cmd)  BY <1>2 DEF InOrder, Aim
<1>5. j.who = j.cmd.id[1] /\ j.lane = "gesture"  BY <1>3, <1>4 DEF Aimed
<1>6. Over(j.cmd) \/ Awaited(j.who, j.cmd)  BY <1>2, <1>5 DEF InOrder, Traced
<1>7. Awaited(j.who, j.cmd)  BY <1>3, <1>6 DEF Over
<1>8. j.cmd.id[1] \in Managers  BY <1>3 DEF Ids
<1>9. QED  BY <1>5, <1>7, <1>8 DEF Awaited, j

LEMMA WorksInTurn ==
    ASSUME NEW h \in Chronicle, Inv(h), NEW n, NEW d \in {0, 1}, Works(n, d), InOrder, faults' <= 1,
           NEW m \in Managers
    PROVE  InTurn(m)'
<1>1. faults \in Nat /\ faults' \in {faults, faults + 1}  BY Before DEF Works
<1>2. InTurn(m) /\ faults <= 1  BY <1>1 DEF InOrder
<1>3. "gesture" \in Lanes /\ m \in Viewers  BY DEF Lanes, Viewers
<1>4. want' = want /\ made' = made  BY DEF Works
<1>5. open'[m]["gesture"] # None => /\ open[m]["gesture"] # None
                                    /\ open'[m]["gesture"].cmd = open[m]["gesture"].cmd
  BY <1>3, OpenAt
<1>6. applied \in Seq(Ids) /\ Len(applied) \in Nat  BY Before, LenProperties DEF Effective
<1>7. CASE TakesNone
  <2>1. applied' = applied  BY <1>7 DEF TakesNone
  <2>2. Gestures(m)' = Gestures(m)  BY <2>1 DEF Gestures
  <2>3. QED  BY <1>2, <1>4, <1>5, <2>1, <2>2 DEF InTurn
<1>8. CASE n \in Nodes /\ jobs[n] # <<>> /\ TakesOne(n)
  <2> DEFINE c == Head(jobs[n]).cmd
             k == Len(applied) + 1
  <2>1. /\ rec # Gone /\ c.type \in Playing /\ c.id \in Ids \ rec.done
        /\ applied' = Append(applied, c.id)
    BY <1>8 DEF TakesOne
  <2> HIDE DEF c
  <2>2. /\ Len(applied') = k /\ applied'[k] = c.id /\ k \notin 1..Len(applied)
        /\ \A i \in 1..Len(applied) : applied'[i] = applied[i]
    BY <1>6, <2>1, AppendProperties
  <2>3. 1..Len(applied') = 1..Len(applied) \cup {k}  BY <1>6, <2>2
  <2>4. CASE c.id[1] = m /\ c.id[3] = "gesture"
    <3>1. open[m]["gesture"] # None /\ open[m]["gesture"].cmd = c
      BY <1>2, <1>8, <2>4, TakenIsAwaited DEF c
    <3>2. Gestures(m)' = Gestures(m) \cup {k}  BY <2>2, <2>3, <2>4 DEF Gestures
    <3>3. Gestures(m) \subseteq 1..Len(applied)  BY DEF Gestures
    <3>4. c.id[2] \in Nat /\ c.id[2] < made[m]
      <4>1. jobs[n] \in Seq(Job) /\ jobs[n] # <<>> /\ n \in Nodes  BY <1>8, Framed DEF TypeOK
      <4>2. Head(jobs[n]) = jobs[n][1] /\ 1 \in 1..Len(jobs[n])
        BY <4>1, HeadTailProperties, LenProperties, EmptySeq
      <4>3. Counted(c)  BY <4>1, <4>2, Framed DEF c
      <4>4. QED  BY <4>3, <2>1, <2>4 DEF Counted, Ids
    <3>5. \A i \in Gestures(m) : applied[i][2] \in Nat /\ applied[i][2] < c.id[2]
      <4> SUFFICES ASSUME NEW i \in Gestures(m)
                   PROVE  applied[i][2] \in Nat /\ applied[i][2] < c.id[2]
        OBVIOUS
      <4>1. /\ applied[i] \in Ids /\ applied[i][1] = m /\ applied[i][3] = "gesture"
            /\ applied[i] \in rec.done
        BY <1>6, <3>3, <2>1, Framed, ElementOfSeq DEF Gestures
      <4>2. applied[i][2] <= c.id[2]  BY <1>2, <3>1 DEF InTurn
      <4>3. applied[i] # c.id /\ c.id \in Ids  BY <2>1, <4>1
      <4>4. applied[i][2] # c.id[2]  BY <4>1, <4>3, <2>4 DEF Ids
      <4>5. QED  BY <4>1, <4>2, <4>4, <3>4 DEF Ids
    <3>6. ASSUME want[m]["gesture"] # None PROVE c.id[2] <= want[m]["gesture"].id[2]
      BY <1>2, <3>1, <3>6 DEF InTurn
    <3> DEFINE o == open'[m]["gesture"]
    <3>7. o # None => o.cmd = c  BY <1>5, <3>1
    <3>8. \A i, j \in Gestures(m)' : i < j => applied'[i][2] < applied'[j][2]
      BY <1>2, <1>6, <2>2, <3>2, <3>3, <3>5 DEF InTurn
    <3>9. \A i \in Gestures(m)' : /\ applied'[i][2] < made[m]
                                  /\ want[m]["gesture"] # None
                                     => applied'[i][2] <= want[m]["gesture"].id[2]
                                  /\ o # None => applied'[i][2] <= c.id[2]
      <4> HIDE DEF o
      <4>1. \A i \in Gestures(m) : /\ applied'[i] = applied[i]
                                   /\ applied[i][2] < made[m] /\ applied[i][2] <= c.id[2]
                                   /\ want[m]["gesture"] # None
                                      => applied[i][2] <= want[m]["gesture"].id[2]
        BY <1>2, <2>2, <3>1, <3>3 DEF InTurn
      <4>2. QED  BY <4>1, <2>2, <3>2, <3>4, <3>6
    <3>10. want[m]["gesture"] # None /\ o # None => o.cmd.id[2] <= want[m]["gesture"].id[2]
      BY <3>6, <3>7
    <3>11. QED  BY <1>4, <3>7, <3>8, <3>9, <3>10 DEF InTurn
  <2>5. CASE ~(c.id[1] = m /\ c.id[3] = "gesture")
    <3>1. Gestures(m)' = Gestures(m)  BY <2>2, <2>3, <2>5 DEF Gestures
    <3>2. \A i \in Gestures(m) : applied'[i] = applied[i]  BY <2>2 DEF Gestures
    <3>3. QED  BY <1>2, <1>4, <1>5, <3>1, <3>2 DEF InTurn
  <2>6. QED  BY <2>4, <2>5
<1>9. QED  BY <1>7, <1>8 DEF Works

LEMMA WorksInOrder ==
    ASSUME NEW h \in Chronicle, Inv(h), NEW n, NEW d \in {0, 1}, Works(n, d), InOrder
    PROVE  InOrder'
BY WorksAim, WorksTraced, WorksAlone, WorksInTurn DEF InOrder

-----------------------------------------------------------------------------

\* The running job.
LEMMA HeadFacts ==
    ASSUME NEW h \in Chronicle, Inv(h), NEW n \in Nodes, jobs[n] # <<>>
    PROVE  LET j == Head(jobs[n])
           IN  /\ j \in GoodJob(h) /\ j \in Job /\ j = jobs[n][1] /\ 1 \in 1..Len(jobs[n])
               /\ j.cmd.type \notin Playing => j.lane # "gesture"
<1>1. jobs[n] \in Seq(GoodJob(h))  BY Before DEF Queued
<1>2. Head(jobs[n]) = jobs[n][1] /\ 1 \in 1..Len(jobs[n]) /\ Head(jobs[n]) \in GoodJob(h)
  BY <1>1, HeadTailProperties, LenProperties, EmptySeq
<1>3. QED  BY <1>2, Framed DEF GoodJob

\* A step that goes on with the running job, one that is done with a job nobody waits
\* for, and one that answers it.
LEMMA WorksOn ==
    ASSUME NEW h \in Chronicle, Inv(h), NEW n \in Nodes, jobs[n] # <<>>,
           NEW at \in {"commit", "project", "publish"}, NEW count \in Nat, NEW st \in States,
           NEW b, \/ b = [Head(jobs[n]) EXCEPT !.at = at, !.count = count]
                  \/ b = [Head(jobs[n]) EXCEPT !.at = at, !.st = st],
           GoOn(n, b), UNCHANGED open,
           Head(jobs[n]).lane = "gesture" /\ at = "publish" => OverThen(Head(jobs[n]).cmd),
           TakesNone \/ TakesOne(n), Onward, UNCHANGED <<want, net, made, faults>>
    PROVE  Works(n, 0)
<1> DEFINE j == Head(jobs[n])
<1>1. j \in GoodJob(h) /\ j \in Job  BY HeadFacts
<1> HIDE DEF j
<1>2. b = [j EXCEPT !.at = at, !.count = count] \/ b = [j EXCEPT !.at = at, !.st = st]  BY DEF j
<1>3. b \in Job  BY <1>1, <1>2 DEF Job
<1>4. Same(b, j) /\ b.at = at  BY <1>1, <1>2 DEF Same, Job
<1>5. jobs \in [Nodes -> Seq(Job)]  BY Framed DEF TypeOK
<1>6. b.lane = "gesture" /\ b.at = "publish" => OverThen(b.cmd)  BY <1>4 DEF Same, j
<1>7. Moved(n, 0)  BY <1>3, <1>4, <1>5, <1>6, GoOnMoves DEF j
<1>8. QED  BY <1>7 DEF Works

LEMMA WorksOff ==
    ASSUME NEW h \in Chronicle, Inv(h), NEW n \in Nodes, jobs[n] # <<>>,
           Done(n, <<>>) \/ \E vs \in SUBSET subs[n] : CloseSockets(n, vs),
           (UNCHANGED open /\ Head(jobs[n]).lane # "gesture") \/ Answers(n),
           TakesNone \/ TakesOne(n), Onward, UNCHANGED <<want, net, made>>,
           faults' \in {faults, faults + 1}
    PROVE  Works(n, 1)
<1>1. jobs \in [Nodes -> Seq(Job)]  BY Framed DEF TypeOK
<1>2. Moved(n, 1)  BY <1>1, EndMoves, ClosingMoves
<1>3. QED  BY <1>2 DEF Works

LEMMA StepWorks ==
    ASSUME NEW h \in Chronicle, Inv(h), InOrder, NEW n \in Nodes, Step(n)
    PROVE  \E d \in {0, 1} : Works(n, d)
<1> DEFINE j == Head(jobs[n])
           r == After(j)
           size == Cardinality(subs[n])
<1>1. jobs[n] # <<>>
  BY DEF Step, ReadToCommit, ReadConfig, ReadToProject, BeatUnheard, RequestFindsNone,
         BeatFindsNone, SnapshotFindsNone, LeaveFindsNone, CommitCommand, CommitConfig, CommitLook,
         Project, CommitSnapshot, CommitLeave, Publish, Types, Running
<1>2. /\ j \in GoodJob(h) /\ j = jobs[n][1] /\ 1 \in 1..Len(jobs[n])
      /\ j.cmd.type \notin Playing => j.lane # "gesture"
      /\ j.st \in States
  BY <1>1, HeadFacts DEF Job
<1>3. size \in Nat /\ now \in Nat /\ faults \in Nat  BY Before
<1>4. LeaveClients => UNCHANGED <<want, net, made>>  BY DEF LeaveClients
<1>5. Unconfigured \in Told(h) /\ Unconfigured \in States  BY UnconfiguredTold, UnconfiguredIs, Before
<1>6. OwnSocket(n) \in SUBSET subs[n] /\ subs[n] \in SUBSET subs[n]  BY DEF OwnSocket
<1>7. rec # Gone => /\ rec.st \in States /\ rec \in Record
                    /\ rec.done \subseteq r.done
                    /\ j.cmd.type \in Playing /\ ~Refuses(rec, j.cmd)
                       => j.cmd.id \in Ids \ rec.done /\ j.cmd.id \in r.done
  BY <1>2, AfterDone DEF Inv, Recorded, RecordOf, Record
<1>8. history' = history => TakesNone  BY DEF history, TakesNone
<1>9. rec' = rec => Onward  BY DEF Onward
<1>10. rec # Gone /\ rec' = r => Onward  BY <1>7 DEF Onward
<1>11. "config" \notin Playing /\ "fetch" \notin Playing /\ "heartbeat" \notin Playing
       /\ "snapshot" \notin Playing /\ "leave" \notin Playing
  BY DEF Playing
<1> HIDE DEF j, r, size
<1>12. ASSUME ReadToCommit(n) PROVE Works(n, 0)
  <2>1. GoOn(n, [j EXCEPT !.at = "commit", !.count = size]) /\ LeaveClients
        /\ UNCHANGED <<rec, open, faults, history>>
    BY <1>12 DEF ReadToCommit, j, size
  <2>2. QED  BY <2>1, <1>1, <1>3, <1>4, <1>5, <1>8, <1>9, WorksOn DEF j
<1>13. ASSUME ReadConfig(n) PROVE \E d \in {0, 1} : Works(n, d)
  <2>1. /\ LeaveClients /\ UNCHANGED <<rec, faults, history>> /\ j.cmd.type \notin Playing
        /\ \/ GoOn(n, [j EXCEPT !.at = "commit", !.count = size]) /\ UNCHANGED open
           \/ Fail(j, "refused") /\ Done(n, <<>>)
    BY <1>11, <1>13 DEF ReadConfig, Types, j, size
  <2>2. CASE GoOn(n, [j EXCEPT !.at = "commit", !.count = size]) /\ UNCHANGED open
    BY <2>1, <2>2, <1>1, <1>3, <1>4, <1>5, <1>8, <1>9, WorksOn DEF j
  <2>3. CASE Fail(j, "refused") /\ Done(n, <<>>)
    <3>1. Answers(n)  BY <2>1, <2>3, <1>2, <1>5 DEF Answers, Fail, j
    <3>2. QED  BY <2>1, <2>3, <3>1, <1>1, <1>4, <1>8, <1>9, WorksOff
  <2>4. QED  BY <2>1, <2>2, <2>3
<1>14. ASSUME ReadToProject(n) PROVE \E d \in {0, 1} : Works(n, d)
  <2> DEFINE st == Settled(rec.st, now)
  <2>1. /\ LeaveClients /\ UNCHANGED <<rec, faults, history>> /\ j.cmd.type \notin Playing
        /\ rec # Gone
        /\ \/ GoOn(n, [j EXCEPT !.at = "commit", !.count = size]) /\ UNCHANGED open
           \/ Answer(j, st) /\ Done(n, <<>>)
           \/ GoOn(n, [j EXCEPT !.at = "publish", !.st = st]) /\ UNCHANGED open
    BY <1>11, <1>14 DEF ReadToProject, Types, j, size
  <2>2. st \in States  BY <2>1, <1>3, <1>7, SettledIs
  <2> HIDE DEF st
  <2>3. CASE GoOn(n, [j EXCEPT !.at = "commit", !.count = size]) /\ UNCHANGED open
    BY <2>1, <2>3, <1>1, <1>3, <1>4, <1>5, <1>8, <1>9, WorksOn DEF j
  <2>4. CASE Answer(j, st) /\ Done(n, <<>>)
    <3>1. Answers(n)  BY <2>1, <2>2, <2>4, <1>2 DEF Answers, Answer, j
    <3>2. QED  BY <2>1, <2>4, <3>1, <1>1, <1>4, <1>8, <1>9, WorksOff
  <2>5. CASE GoOn(n, [j EXCEPT !.at = "publish", !.st = st]) /\ UNCHANGED open
    BY <2>1, <2>2, <2>5, <1>1, <1>2, <1>3, <1>4, <1>8, <1>9, WorksOn DEF j
  <2>6. QED  BY <2>1, <2>3, <2>4, <2>5
<1>15. ASSUME BeatUnheard(n) \/ LeaveFindsNone(n) \/ CommitLeave(n) PROVE Works(n, 1)
  <2>1. /\ LeaveClients /\ UNCHANGED <<open, faults, history>> /\ j.cmd.type \notin Playing
        /\ rec' = rec \/ (rec # Gone /\ rec' = AfterLeave(j) /\ j.cmd.type = "leave")
        /\ Done(n, <<>>)
    BY <1>11, <1>15 DEF BeatUnheard, LeaveFindsNone, CommitLeave, Types, j
  <2>2. j.cmd.type = "leave" => r = AfterLeave(j)  BY <1>11 DEF After, r
  <2>3. QED  BY <2>1, <2>2, <1>1, <1>2, <1>4, <1>8, <1>9, <1>10, WorksOff DEF j
<1>16. ASSUME RequestFindsNone(n) PROVE Works(n, 1)
  <2>1. /\ LeaveClients /\ UNCHANGED <<rec, faults, history>> /\ rec = Gone
        /\ Fail(j, "refused") /\ Done(n, <<>>)
    BY <1>16 DEF RequestFindsNone, j
  <2>2. Answers(n)  BY <2>1, <1>5 DEF Answers, Fail, OverThen, j
  <2>3. QED  BY <2>1, <2>2, <1>1, <1>4, <1>8, <1>9, WorksOff
<1>17. ASSUME BeatFindsNone(n) \/ SnapshotFindsNone(n) PROVE Works(n, 1)
  <2>1. /\ LeaveClients /\ UNCHANGED <<rec, open, faults, history>> /\ j.cmd.type \notin Playing
        /\ CloseSockets(n, subs[n]) \/ CloseSockets(n, OwnSocket(n))
    BY <1>11, <1>17 DEF BeatFindsNone, SnapshotFindsNone, Types, j
  <2>2. QED  BY <2>1, <1>1, <1>2, <1>4, <1>6, <1>8, <1>9, WorksOff DEF j
<1>18. ASSUME CommitCommand(n) PROVE \E d \in {0, 1} : Works(n, d)
  <2>1. /\ LeaveClients /\ UNCHANGED faults /\ rec # Gone /\ j.cmd.type \in Playing
        /\ j.at = "commit" /\ rec' = r
    <3>1. j.cmd.type \in Playing /\ rec' = AfterCommand(j)
      BY <1>18 DEF CommitCommand, Types, j
    <3>2. r = AfterCommand(j)  BY <3>1 DEF After, Playing, r
    <3>3. QED  BY <3>1, <3>2, <1>18 DEF CommitCommand, Types, Running, j
  <2>6. \/ Refuses(rec, j.cmd) /\ Answer(j, r.st) /\ Done(n, <<>>) /\ UNCHANGED applied
        \/ /\ ~Refuses(rec, j.cmd) /\ applied' = Append(applied, j.cmd.id)
           /\ GoOn(n, [j EXCEPT !.at = "publish", !.st = r.st]) /\ UNCHANGED open
    <3>1. r = AfterCommand(j)  BY <2>1 DEF After, Playing, r
    <3>2. QED  BY <3>1, <1>18 DEF CommitCommand, j
  <2>2. Onward  BY <2>1, <1>10
  <2>3. r.st \in States
    <3>1. Running(n, "commit")  BY <1>18 DEF CommitCommand, Types
    <3>2. QED  BY <2>1, <3>1, CommitBefore DEF r, j
  <2>4. CASE Refuses(rec, j.cmd) /\ Answer(j, r.st) /\ Done(n, <<>>) /\ UNCHANGED applied
    <3>1. Aimed(j.who, j.lane, j.cmd)  BY <1>2 DEF InOrder, Aim
    <3>2. j.lane = "gesture" => j.cmd.id \in rec.done
      BY <2>1, <2>4, <3>1 DEF Aimed, Refuses
    <3>3. j.lane = "gesture" => OverThen(j.cmd)  BY <3>2, <2>1, <1>7 DEF OverThen
    <3>4. Answers(n)  BY <2>3, <2>4, <3>3 DEF Answers, Answer, j
    <3>5. QED  BY <2>1, <2>2, <2>4, <3>4, <1>1, <1>4, WorksOff DEF TakesNone
  <2>5. CASE /\ ~Refuses(rec, j.cmd) /\ applied' = Append(applied, j.cmd.id)
             /\ GoOn(n, [j EXCEPT !.at = "publish", !.st = r.st]) /\ UNCHANGED open
    <3>1. OverThen(j.cmd) /\ j.cmd.id \in Ids \ rec.done  BY <2>1, <2>5, <1>7 DEF OverThen
    <3>2. TakesOne(n)  BY <2>1, <2>5, <3>1 DEF TakesOne, j
    <3>3. Works(n, 0)
      BY <2>1, <2>2, <2>3, <2>5, <3>1, <3>2, <1>1, <1>3, <1>4, WorksOn DEF j
    <3>4. QED  BY <3>3
  <2>7. QED  BY <2>4, <2>5, <2>6
<1>19. ASSUME CommitConfig(n) PROVE \E d \in {0, 1} : Works(n, d)
  <2>1. /\ LeaveClients /\ UNCHANGED <<faults, history>> /\ rec # Gone
        /\ j.cmd.type \notin Playing /\ rec' = r
        /\ \/ Fail(j, "refused") /\ Done(n, <<>>)
           \/ GoOn(n, [j EXCEPT !.at = "publish", !.st = r.st]) /\ UNCHANGED open
    BY <1>11, <1>19 DEF CommitConfig, Types, After, r, j
  <2>2. r.st \in States
    <3>1. Running(n, "commit")  BY <1>19 DEF CommitConfig, Types
    <3>2. QED  BY <2>1, <3>1, CommitBefore DEF r, j
  <2>3. CASE Fail(j, "refused") /\ Done(n, <<>>)
    <3>1. Answers(n)  BY <2>1, <2>3, <1>2, <1>5 DEF Answers, Fail, j
    <3>2. QED  BY <2>1, <2>3, <3>1, <1>1, <1>4, <1>8, <1>10, WorksOff
  <2>4. CASE GoOn(n, [j EXCEPT !.at = "publish", !.st = r.st]) /\ UNCHANGED open
    BY <2>1, <2>2, <2>4, <1>1, <1>2, <1>3, <1>4, <1>8, <1>10, WorksOn DEF j
  <2>5. QED  BY <2>1, <2>3, <2>4
<1>20. ASSUME CommitLook(n) \/ CommitSnapshot(n)
       PROVE  \E d \in {0, 1} : Works(n, d)
  <2>1. /\ LeaveClients /\ UNCHANGED <<faults, history>> /\ rec # Gone
        /\ j.cmd.type \notin Playing /\ rec' = r
        /\ \/ GoOn(n, [j EXCEPT !.at = "project", !.st = r.st]) /\ UNCHANGED open
           \/ UNCHANGED open /\ Done(n, <<>>)
    BY <1>11, <1>20 DEF CommitLook, CommitSnapshot, Types, After, r, j
  <2>2. r.st \in States
    <3>1. Running(n, "commit")  BY <1>20 DEF CommitLook, CommitSnapshot, Types
    <3>2. QED  BY <2>1, <3>1, CommitBefore DEF r, j
  <2>4. CASE GoOn(n, [j EXCEPT !.at = "project", !.st = r.st]) /\ UNCHANGED open
    BY <2>1, <2>2, <2>4, <1>1, <1>2, <1>3, <1>4, <1>8, <1>10, WorksOn DEF j
  <2>6. CASE UNCHANGED open /\ Done(n, <<>>)
    BY <2>1, <2>6, <1>1, <1>2, <1>4, <1>8, <1>10, WorksOff DEF j
  <2>7. QED  BY <2>1, <2>4, <2>6
<1>22. ASSUME Project(n) PROVE \E d \in {0, 1} : Works(n, d)
  <2> DEFINE st == Settled(j.st, now)
  <2>1. /\ LeaveClients /\ UNCHANGED <<rec, faults, history>> /\ j.cmd.type \notin Playing
        /\ \/ GoOn(n, [j EXCEPT !.at = "publish", !.st = st]) /\ UNCHANGED open
           \/ Answer(j, st) /\ Done(n, <<>>)
    BY <1>11, <1>22 DEF Project, j
  <2>2. st \in States  BY <1>2, <1>3, SettledIs
  <2> HIDE DEF st
  <2>3. CASE GoOn(n, [j EXCEPT !.at = "publish", !.st = st]) /\ UNCHANGED open
    BY <2>1, <2>2, <2>3, <1>1, <1>2, <1>3, <1>4, <1>8, <1>9, WorksOn DEF j
  <2>4. CASE Answer(j, st) /\ Done(n, <<>>)
    <3>1. Answers(n)  BY <2>1, <2>2, <2>4, <1>2 DEF Answers, Answer, j
    <3>2. QED  BY <2>1, <2>4, <3>1, <1>1, <1>4, <1>8, <1>9, WorksOff
  <2>5. QED  BY <2>1, <2>3, <2>4
<1>21. ASSUME Publish(n) PROVE Works(n, 1)
  <2>1. /\ LeaveClients /\ UNCHANGED <<rec, history>> /\ j.at = "publish"
        /\ Answer(j, j.st) /\ Done(n, <<>>) /\ faults' \in {faults, faults + 1}
    BY <1>21 DEF Publish, Running, Mistake, j
  <2>2. j.lane = "gesture" => OverThen(j.cmd) \/ faults > 1
    <3> SUFFICES ASSUME j.lane = "gesture", faults <= 1 PROVE OverThen(j.cmd)  BY <1>3
    <3>1. Over(j.cmd)  BY <1>2, <2>1 DEF InOrder, Traced
    <3>2. QED  BY <2>1, <3>1 DEF Over, OverThen
  <2>3. Answers(n)  BY <2>1, <2>2, <1>2 DEF Answers, Answer, j
  <2>4. QED  BY <2>1, <2>3, <1>1, <1>4, <1>8, <1>9, WorksOff
<1>23. QED
  BY <1>12, <1>13, <1>14, <1>15, <1>16, <1>17, <1>18, <1>19, <1>20, <1>21, <1>22 DEF Step

LEMMA StoreFailsWorks ==
    ASSUME NEW h \in Chronicle, Inv(h), NEW n \in Nodes, StoreFails(n) PROVE Works(n, 1)
<1> DEFINE j == Head(jobs[n])
           r == After(j)
<1>1. jobs[n] # <<>>  BY DEF StoreFails, Running
<1>2. /\ UNCHANGED <<want, net, made>> /\ Fail(j, "retry") /\ faults' = faults + 1
      /\ Done(n, <<>>) \/ CloseSockets(n, OwnSocket(n))
      /\ \/ UNCHANGED <<rec, applied>>
         \/ /\ j.at = "commit" /\ rec # Gone /\ rec' = r
            /\ applied' = IF j.cmd.type \notin Playing \/ Refuses(rec, j.cmd) THEN applied
                          ELSE Append(applied, j.cmd.id)
  BY DEF StoreFails, Running, LeaveClients, Mistake
<1>3. j \in GoodJob(h) /\ OwnSocket(n) \in SUBSET subs[n]  BY <1>1, HeadFacts DEF OwnSocket
<1>4. rec # Gone => /\ rec.done \subseteq r.done
                    /\ j.cmd.type \in Playing /\ ~Refuses(rec, j.cmd)
                       => j.cmd.id \in Ids \ rec.done
  BY <1>3, AfterDone
<1> HIDE DEF r
<1>5. Onward  BY <1>2, <1>4 DEF Onward
<1>6. TakesNone \/ TakesOne(n)  BY <1>2, <1>4 DEF TakesNone, TakesOne
<1>7. Answers(n)  BY <1>2, UnconfiguredIs DEF Answers, Fail
<1>8. QED  BY <1>1, <1>2, <1>3, <1>5, <1>6, <1>7, WorksOff

\* A step that takes nothing from the queues and asks for nothing.
LEMMA IdleInOrder ==
    ASSUME NEW h \in Chronicle, Inv(h), InOrder, NEW n, Moved(n, 0), Onward,
           UNCHANGED <<open, want, net, made, applied, faults>>
    PROVE  InOrder'
<1>1. Works(n, 0)  BY DEF Works, TakesNone
<1>2. QED  BY <1>1, WorksInOrder

LEMMA SameMoved == ASSUME UNCHANGED jobs PROVE Moved(None, 0)
BY DEF Moved, Same

LEMMA QuietInOrder ==
    ASSUME NEW h \in Chronicle, Inv(h), InOrder,
           \/ \E n \in Nodes : HeartbeatDue(n)
           \/ \E v \in Viewers : Disconnect(v) \/ Deliver(v) \/ \E n \in Nodes : Connect(v, n)
           \/ Tick \/ EndSession \/ UNCHANGED vars
    PROVE  InOrder'
<1>1. UNCHANGED <<open, want, net, made, applied, faults>>
  BY DEF HeartbeatDue, Disconnect, Deliver, Connect, Tick, EndSession, asking, history, vars
<1>2. Onward
  BY DEF HeartbeatDue, Disconnect, Deliver, Connect, Tick, EndSession, server, vars, Onward
<1>3. jobs \in [Nodes -> Seq(Job)]  BY Framed DEF TypeOK
<1>4. ASSUME NEW n \in Nodes, NEW b \in Job, b.lane # "gesture", b.cmd.type \notin Playing,
             jobs' = [jobs EXCEPT ![n] = Append(@, b)]
      PROVE  InOrder'
  BY <1>1, <1>2, <1>3, <1>4, AppendMoves, IdleInOrder
<1>5. None \notin Lanes  BY NoneOK
<1>6. ASSUME NEW type \in {"heartbeat", "snapshot", "leave"}, NEW who \in Viewers \cup Nodes, NEW nth \in Nat
      PROVE  LET b == NewJob(Plain(type), who, None, nth)
             IN  b \in Job /\ b.lane # "gesture" /\ b.cmd.type \notin Playing
  <2>1. Plain(type) \in Command  BY DEF Plain, Command
  <2>2. QED  BY <2>1, <1>5, UnconfiguredIs DEF NewJob, Job, Lanes, Plain, Playing
<1>7. ASSUME NEW n \in Nodes, HeartbeatDue(n) PROVE InOrder'
  <2> DEFINE b == NewJob(Plain("heartbeat"), n, None, 1)
  <2>1. b \in Job /\ b.lane # "gesture" /\ b.cmd.type \notin Playing  BY <1>6
  <2>2. jobs' = [jobs EXCEPT ![n] = Append(@, b)]  BY <1>7 DEF HeartbeatDue
  <2> HIDE DEF b
  <2>3. QED  BY <2>1, <2>2, <1>4
<1>8. ASSUME NEW v \in Viewers, NEW n \in Nodes, Connect(v, n) PROVE InOrder'
  <2> DEFINE b == NewJob(Plain("snapshot"), v, None, joined[v] + 1)
  <2>1. joined[v] + 1 \in Nat  BY DEF Inv, PlainTyped
  <2>2. b \in Job /\ b.lane # "gesture" /\ b.cmd.type \notin Playing  BY <2>1, <1>6
  <2>3. jobs' = [jobs EXCEPT ![n] = Append(@, b)]  BY <1>8 DEF Connect
  <2> HIDE DEF b
  <2>4. QED  BY <2>2, <2>3, <1>4
<1>9. ASSUME NEW v \in Viewers, Disconnect(v) PROVE InOrder'
  <2> DEFINE n == link[v]
             b == LeaveJob(n)
  <2>1. n \in Nodes  BY <1>9, Before DEF Disconnect
  <2>2. b \in Job /\ b.lane # "gesture" /\ b.cmd.type \notin Playing  BY <2>1, <1>6 DEF LeaveJob
  <2>3. jobs' = [jobs EXCEPT ![n] = Append(@, b)]  BY <1>9 DEF Disconnect
  <2> HIDE DEF b, n
  <2>4. QED  BY <2>1, <2>2, <2>3, <1>4
<1>10. ASSUME UNCHANGED jobs PROVE InOrder'
  BY <1>1, <1>2, <1>10, SameMoved, IdleInOrder
<1>11. ASSUME NEW v \in Viewers, Deliver(v) PROVE UNCHANGED jobs
  BY <1>11 DEF Deliver, server
<1>12. Tick \/ EndSession \/ UNCHANGED vars => UNCHANGED jobs  BY DEF Tick, EndSession, vars, server
<1>13. QED  BY <1>7, <1>8, <1>9, <1>10, <1>11, <1>12

-----------------------------------------------------------------------------

\* What is asked and wanted after a request leaves, is closed, or is wanted.
LEMMA PostAt ==
    ASSUME open \in [Viewers -> [Lanes -> Request \cup {None}]], NEW v \in Viewers, NEW lane \in Lanes,
           NEW c \in Command, NEW nth \in 1..MaxTries, Post(v, lane, c, nth)
    PROVE  /\ \A w \in Viewers, l \in Lanes :
                 open'[w][l] = IF w = v /\ l = lane THEN Asked(c, nth) ELSE open[w][l]
           /\ Asked(c, nth) # None /\ Asked(c, nth).cmd = c /\ Asked(c, nth).nth = nth
           /\ Asked(c, nth).reply = "pending"
           /\ \A r \in net' : r \in net \/ r = [who |-> v, lane |-> lane, cmd |-> c, nth |-> nth]
<1> DEFINE a == Asked(c, nth)
<1>1. a \in Request /\ a.cmd = c /\ a.nth = nth /\ a.reply = "pending"
  BY UnconfiguredIs DEF Asked, Request
<1>2. a # None  BY <1>1, NoneOK
<1>3. open' = [open EXCEPT ![v][lane] = a]
      /\ net' = net \cup {[who |-> v, lane |-> lane, cmd |-> c, nth |-> nth]}
  BY DEF Post
<1> HIDE DEF a
<1>4. \A w \in Viewers, l \in Lanes :
         open'[w][l] = IF w = v /\ l = lane THEN a ELSE open[w][l]
  BY <1>3
<1>5. QED  BY <1>1, <1>2, <1>3, <1>4 DEF a

LEMMA CloseAt ==
    ASSUME open \in [Viewers -> [Lanes -> Request \cup {None}]], NEW v \in Viewers, NEW lane \in Lanes,
           Close(v, lane)
    PROVE  \A w \in Viewers, l \in Lanes :
              open'[w][l] = IF w = v /\ l = lane THEN None ELSE open[w][l]
BY DEF Close

LEMMA WantAt ==
    ASSUME want \in [Managers -> [{"gesture", "end"} -> Command \cup {None}]],
           NEW m \in Managers, NEW lane \in {"gesture", "end"}, NEW c, NEW k, Want(m, lane, c, k)
    PROVE  \A w \in Managers, l \in {"gesture", "end"} :
              want'[w][l] = IF w = m /\ l = lane THEN c ELSE want[w][l]
BY DEF Want

\* The names are right if those of what is new are.
LEMMA AimKept ==
    ASSUME Aim, UNCHANGED jobs,
           \A r \in net' : r \in net \/ Aimed(r.who, r.lane, r.cmd),
           \A v \in Viewers, l \in Lanes :
              open'[v][l] # None => \/ open[v][l] # None /\ open'[v][l].cmd = open[v][l].cmd
                                    \/ Aimed(v, l, open'[v][l].cmd),
           \A m \in Managers, l \in {"gesture", "end"} :
              want'[m][l] # None => want'[m][l] = want[m][l] \/ Aimed(m, l, want'[m][l])
    PROVE  Aim'
BY DEF Aim

\* A step in another lane than that of the gestures.
LEMMA OtherLane ==
    ASSUME NEW h \in Chronicle, Inv(h), InOrder, Aim', UNCHANGED <<jobs, rec, applied>>,
           \A r \in net' : r.lane = "gesture" => r \in net,
           \A v \in Viewers : open'[v]["gesture"] = open[v]["gesture"],
           \A m \in Managers : want'[m]["gesture"] = want[m]["gesture"],
           \A m \in Managers : made'[m] \in Nat /\ made'[m] >= made[m],
           faults' \in {faults, faults + 1}
    PROVE  InOrder'
<1>1. faults \in Nat  BY Before
<1>2. ASSUME faults' <= 1 PROVE Traced'
  <2>1. Traced  BY <1>1, <1>2 DEF InOrder
  <2>2. \A n \in Nodes : \A i \in 1..Len(jobs[n]) :
           jobs[n][i].lane = "gesture" => jobs[n][i].who \in Viewers
    BY Framed
  <2>3. \A r \in net : r.who \in Viewers  BY Framed
  <2>4. QED  BY <2>1, <2>2, <2>3 DEF Traced, Over, Awaited
<1>3. ASSUME faults' = 0 PROVE Alone'
  <2>1. Alone  BY <1>1, <1>3 DEF InOrder
  <2>2. \A n \in Nodes : \A i \in 1..Len(jobs[n]) :
           jobs[n][i].lane = "gesture" => jobs[n][i].who \in Viewers
    BY Framed
  <2>3. \A r \in net : r.who \in Viewers  BY Framed
  <2>4. \A m \in Managers : open'[m]["gesture"] = open[m]["gesture"]  BY DEF Viewers
  <2>5. QED  BY <2>1, <2>2, <2>3, <2>4 DEF Alone
<1>4. ASSUME faults' <= 1, NEW m \in Managers PROVE InTurn(m)'
  <2>1. InTurn(m)  BY <1>1, <1>4 DEF InOrder
  <2>2. /\ open'[m]["gesture"] = open[m]["gesture"] /\ want'[m]["gesture"] = want[m]["gesture"]
        /\ made'[m] \in Nat /\ made[m] \in Nat /\ made'[m] >= made[m]
    BY DEF Viewers, Inv, PlainTyped
  <2>3. Gestures(m)' = Gestures(m)  BY DEF Gestures
  <2>4. \A i \in Gestures(m) : applied[i][2] \in Nat
    BY Before, ElementOfSeq DEF Effective, Gestures, Ids
  <2>5. QED  BY <2>1, <2>2, <2>3, <2>4 DEF InTurn
<1>5. QED  BY <1>2, <1>3, <1>4 DEF InOrder

LEMMA ClientTyped ==
    ASSUME NEW h \in Chronicle, Inv(h)
    PROVE  /\ open \in [Viewers -> [Lanes -> Request \cup {None}]]
           /\ want \in [Managers -> [{"gesture", "end"} -> Command \cup {None}]]
           /\ \A m \in Managers : made[m] \in Nat
           /\ \A m \in Managers, l \in {"gesture", "end"} : retries[m][l] \in 0..MaxRetries
           /\ faults \in Nat /\ Managers \subseteq Viewers
           /\ {"gesture", "end", "setup", "fetch"} = Lanes
<1>1. TypeOK  BY Framed
<1>2. open \in [Viewers -> [Lanes -> Request \cup {None}]]  BY <1>1 DEF TypeOK
<1>3. want \in [Managers -> [{"gesture", "end"} -> Command \cup {None}]]  BY <1>1 DEF TypeOK
<1>4. /\ made \in [Managers -> Nat] /\ faults \in Nat
      /\ retries \in [Managers -> [{"gesture", "end"} -> 0..MaxRetries]]
  BY DEF Inv, PlainTyped
<1>5. Managers \subseteq Viewers /\ {"gesture", "end", "setup", "fetch"} = Lanes
  BY DEF Viewers, Lanes
<1>6. QED  BY <1>2, <1>3, <1>4, <1>5

LEMMA LoadInOrder ==
    ASSUME NEW h \in Chronicle, Inv(h), InOrder, NEW v \in Viewers,
           \/ Loaded(v, "setup") \/ Loaded(v, "fetch") \/ Fetch(v) \/ (v \in Managers /\ Setup(v))
    PROVE  InOrder'
<1>1. UNCHANGED <<jobs, rec, applied, want, made, faults>>
  BY DEF Loaded, Fetch, Setup, server, history
<1>2. PICK l \in {"setup", "fetch"}, c \in {Plain("config"), Plain("fetch")} :
         (Close(v, l) /\ UNCHANGED net) \/ Post(v, l, c, 1)
  BY DEF Loaded, Fetch, Setup
<1>3. c \in Command /\ c.type \notin Playing /\ 1 \in 1..MaxTries
  BY DEF Plain, Command, Playing, MaxTries, MaxRetries
<1>4. \A w \in Viewers, k \in Lanes :
         \/ open'[w][k] = open[w][k]
         \/ k = l /\ (open'[w][k] = None \/ open'[w][k].cmd = c)
  <2>1. l \in Lanes  BY ClientTyped
  <2>2. CASE Close(v, l)  BY <2>1, <2>2, ClientTyped, CloseAt
  <2>3. CASE Post(v, l, c, 1)  BY <2>1, <2>3, <1>3, ClientTyped, PostAt
  <2>4. QED  BY <1>2, <2>2, <2>3
<1>5. \A r \in net' : r \in net \/ (r.lane = l /\ r.cmd = c)
  <2>1. l \in Lanes  BY ClientTyped
  <2>2. CASE Post(v, l, c, 1)  BY <2>1, <2>2, <1>3, ClientTyped, PostAt
  <2>3. QED  BY <1>2, <2>2
<1>6. Aim'  BY <1>1, <1>3, <1>4, <1>5, AimKept DEF InOrder, Aimed
<1>7. \A w \in Viewers : open'[w]["gesture"] = open[w]["gesture"]  BY <1>4 DEF Lanes
<1>8. \A r \in net' : r.lane = "gesture" => r \in net  BY <1>5
<1>9. QED  BY <1>1, <1>6, <1>7, <1>8, ClientTyped, OtherLane

\* A command that its manager makes next.
LEMMA NewAimed ==
    ASSUME NEW m \in Managers, NEW type \in Playing, NEW pos
    PROVE  LET c == NewCommand(m, type, pos)
           IN  Aimed(m, IF type = "end" THEN "end" ELSE "gesture", c)
BY DEF NewCommand, Plain, Aimed, Playing

LEMMA EndInOrder ==
    ASSUME NEW h \in Chronicle, Inv(h), InOrder, NEW m \in Managers,
           PlayerEnds(m) \/ EndRetried(m) \/ EndAnswered(m)
    PROVE  InOrder'
<1>1. /\ UNCHANGED <<jobs, rec, applied, faults>>
      /\ made' = made \/ made' = [made EXCEPT ![m] = @ + 1]
  BY DEF PlayerEnds, EndRetried, EndAnswered, server, history
<1>2. ASSUME NEW c \in Command, Aimed(m, "end", c), NEW nth \in 1..MaxTries, NEW b, NEW k,
             Post(m, "end", c, nth) \/ (Close(m, "end") /\ UNCHANGED net) \/ UNCHANGED <<open, net>>,
             Want(m, "end", b, k) \/ UNCHANGED want,
             b # None => b = want[m]["end"] \/ Aimed(m, "end", b)
      PROVE  InOrder'
  <2>1. "end" \in Lanes /\ m \in Viewers  BY ClientTyped
  <2>2. \A w \in Viewers, l \in Lanes :
           \/ open'[w][l] = open[w][l]
           \/ w = m /\ l = "end" /\ (open'[w][l] = None \/ open'[w][l].cmd = c)
    BY <1>2, <2>1, ClientTyped, PostAt, CloseAt
  <2>3. \A r \in net' : r \in net \/ (r.who = m /\ r.lane = "end" /\ r.cmd = c)
    BY <1>2, <2>1, ClientTyped, PostAt
  <2>4. \A w \in Managers, l \in {"gesture", "end"} :
           want'[w][l] = want[w][l] \/ (w = m /\ l = "end" /\ want'[w][l] = b)
    BY <1>2, ClientTyped, WantAt
  <2>5. Aim'
    <3>1. \A r \in net' : r \in net \/ Aimed(r.who, r.lane, r.cmd)  BY <1>2, <2>3
    <3>2. \A v \in Viewers, l \in Lanes :
             open'[v][l] # None => \/ open[v][l] # None /\ open'[v][l].cmd = open[v][l].cmd
                                   \/ Aimed(v, l, open'[v][l].cmd)
      BY <1>2, <2>2
    <3>3. \A w \in Managers, l \in {"gesture", "end"} :
             want'[w][l] # None => want'[w][l] = want[w][l] \/ Aimed(w, l, want'[w][l])
      BY <1>2, <2>4
    <3>4. QED  BY <1>1, <3>1, <3>2, <3>3, AimKept DEF InOrder
  <2>6. \A w \in Viewers : open'[w]["gesture"] = open[w]["gesture"]  BY <2>2, ClientTyped
  <2>7. \A r \in net' : r.lane = "gesture" => r \in net  BY <2>3
  <2>8. \A w \in Managers : want'[w]["gesture"] = want[w]["gesture"]  BY <2>4
  <2>9. \A w \in Managers : made'[w] \in Nat /\ made'[w] >= made[w]
    BY <1>1 DEF Inv, PlainTyped
  <2>10. QED  BY <1>1, <2>5, <2>6, <2>7, <2>8, <2>9, OtherLane
<1>3. ASSUME PlayerEnds(m) PROVE InOrder'
  <2> DEFINE b == NewCommand(m, "end", scene.length)
             c == [b EXCEPT !.rev = view[m].rev, !.saw = view[m].by]
  <2>1. Want(m, "end", c, 0) /\ Post(m, "end", c, 1)  BY <1>3 DEF PlayerEnds
  <2>2. Aimed(m, "end", b)  BY NewAimed DEF Playing
  <2>3. b \in Command
    <3>1. scene.length \in Nat  BY ConstantsOK DEF Inv, PlainTyped, Scene
    <3>2. <<m, made[m], "end">> \in Ids  BY ClientTyped DEF Ids
    <3>3. QED  BY <3>1, <3>2 DEF NewCommand, Plain, Command
  <2>4. view[m].rev \in Nat /\ view[m].by \in Ids \cup {None}
    BY Framed, ClientTyped DEF TypeOK, States, PlayState
  <2> HIDE DEF b
  <2>5. c \in Command /\ c.type = b.type /\ c.id = b.id  BY <2>3, <2>4 DEF Command
  <2> HIDE DEF c
  <2>6. Aimed(m, "end", c)  BY <2>2, <2>5 DEF Aimed
  <2>7. 1 \in 1..MaxTries  BY DEF MaxTries, MaxRetries
  <2>8. QED  BY <2>1, <2>5, <2>6, <2>7, <1>2
<1>4. ASSUME EndRetried(m) PROVE InOrder'
  <2> DEFINE c == want[m]["end"]
             k == 2 * retries[m]["end"] + 1
  <2>1. /\ c # None
        /\ \/ Want(m, "end", None, 0) /\ UNCHANGED <<open, net>>
           \/ Post(m, "end", c, k) /\ UNCHANGED <<want, retries>>
    BY <1>4 DEF EndRetried
  <2>2. c \in Command /\ Aimed(m, "end", c)  BY <2>1, Framed DEF InOrder, Aim
  <2>3. k \in 1..MaxTries  BY ClientTyped, TriesTyped
  <2> HIDE DEF c, k
  <2>4. QED  BY <2>1, <2>2, <2>3, <1>2
<1>5. ASSUME EndAnswered(m) PROVE InOrder'
  <2> DEFINE c == open[m]["end"].cmd
  <2>1. /\ open[m]["end"] # None /\ Close(m, "end") /\ UNCHANGED net
        /\ \E b \in {c, None}, k \in Nat : Want(m, "end", b, k)
    BY <1>5, ClientTyped DEF EndAnswered, Answered, MaxRetries
  <2>2. c \in Command /\ Aimed(m, "end", c)
    BY <2>1, Framed, ClientTyped DEF InOrder, Aim, Request
  <2> HIDE DEF c
  <2>3. 1 \in 1..MaxTries  BY DEF MaxTries, MaxRetries
  <2>4. QED  BY <2>1, <2>2, <2>3, <1>2
<1>6. QED  BY <1>3, <1>4, <1>5

-----------------------------------------------------------------------------

\* A manager makes a gesture, which is later than any.
LEMMA ClickInOrder ==
    ASSUME NEW h \in Chronicle, Inv(h), InOrder, NEW m \in Managers, NEW type \in scene.types,
           Click(m, type)
    PROVE  InOrder'
<1> DEFINE pos == IF type = "seek" THEN 1 ELSE ClickPosition(type, view[m], m \in ended)
           c == NewCommand(m, type, pos)
<1>1. /\ Want(m, "gesture", c, 0) /\ made' = [made EXCEPT ![m] = @ + 1]
      /\ UNCHANGED <<jobs, rec, applied, open, net, faults>>
  BY DEF Click, server, history
<1>2. type \in Playing /\ type # "end"  BY ConstantsOK DEF Inv, PlainTyped, Scene, Playing
<1>3. Aimed(m, "gesture", c)  BY <1>2, NewAimed
<1>4. c.id[2] = made[m]  BY DEF NewCommand, Plain
<1> HIDE DEF c
<1>5. \A w \in Managers, l \in {"gesture", "end"} :
         want'[w][l] = IF w = m /\ l = "gesture" THEN c ELSE want[w][l]
  BY <1>1, ClientTyped, WantAt
<1>6. Aim'  BY <1>1, <1>3, <1>5, AimKept DEF InOrder
<1>7. ASSUME faults' <= 1 PROVE Traced'  BY <1>1, <1>7 DEF InOrder, Traced, Over, Awaited
<1>8. ASSUME faults' = 0 PROVE Alone'  BY <1>1, <1>8 DEF InOrder, Alone
<1>9. ASSUME faults' <= 1, NEW w \in Managers PROVE InTurn(w)'
  <2>1. InTurn(w)  BY <1>1, <1>9 DEF InOrder
  <2>2. Gestures(w)' = Gestures(w) /\ applied' = applied /\ open' = open  BY <1>1 DEF Gestures
  <2>3. \A i \in Gestures(w) : applied[i][2] \in Nat
    BY Before, ElementOfSeq DEF Effective, Gestures, Ids
  <2>4. made[w] \in Nat /\ made'[w] = IF w = m THEN made[w] + 1 ELSE made[w]
    BY <1>1 DEF Inv, PlainTyped
  <2>5. CASE w = m
    <3>1. want'[w]["gesture"] = c  BY <2>5, <1>5
    <3>2. ASSUME open[w]["gesture"] # None PROVE open[w]["gesture"].cmd.id[2] <= c.id[2]
      <4> DEFINE b == open[w]["gesture"].cmd
      <4>1. b.type \in Playing /\ Counted(b) /\ Aimed(w, "gesture", b)
        BY <3>2, Framed, ClientTyped DEF InOrder, Aim
      <4> HIDE DEF b
      <4>2. b.id[2] \in Nat /\ b.id[2] < made[w]  BY <4>1 DEF Counted, Aimed, Ids
      <4>3. QED  BY <4>2, <2>4, <2>5, <1>4 DEF b
    <3>3. \A i \in Gestures(w) : applied[i][2] < made'[w] /\ applied[i][2] <= c.id[2]
      BY <2>1, <2>3, <2>4, <2>5, <1>4 DEF InTurn
    <3>4. QED  BY <2>1, <2>2, <3>1, <3>2, <3>3 DEF InTurn
  <2>6. CASE w # m
    <3>1. want'[w]["gesture"] = want[w]["gesture"]  BY <2>6, <1>5
    <3>2. QED  BY <2>1, <2>2, <2>4, <2>6, <3>1 DEF InTurn
  <2>7. QED  BY <2>5, <2>6
<1>10. QED  BY <1>6, <1>7, <1>8, <1>9 DEF InOrder

\* A manager sends what it wants next, when nothing else is on its way.
LEMMA FlushInOrder ==
    ASSUME NEW h \in Chronicle, Inv(h), InOrder, NEW m \in Managers, Flush(m)
    PROVE  InOrder'
<1> DEFINE c == want[m]["gesture"]
           k == 2 * retries[m]["gesture"] + 1
<1>1. /\ c # None /\ open[m]["gesture"] = None
      /\ \/ Want(m, "gesture", None, 0) /\ UNCHANGED <<open, net>>
         \/ Post(m, "gesture", c, k) /\ UNCHANGED <<want, retries>>
      /\ UNCHANGED <<jobs, rec, applied, made, faults>>
  BY DEF Flush, server, history
<1>2. c \in Command /\ Counted(c) /\ c.type \in Playing /\ Aimed(m, "gesture", c)
  BY <1>1, Framed DEF InOrder, Aim
<1>3. k \in 1..MaxTries /\ k % 2 = 1
  <2>1. retries[m]["gesture"] \in 0..MaxRetries  BY ClientTyped
  <2>2. k \in 1..MaxTries  BY <2>1, TriesTyped
  <2>3. retries[m]["gesture"] = 0 \/ retries[m]["gesture"] = 1  BY <2>1 DEF MaxRetries
  <2>4. k = 1 \/ k = 3  BY <2>3
  <2>5. k % 2 = 1  BY <2>4
  <2>6. QED  BY <2>2, <2>5
<1>4. "gesture" \in Lanes /\ m \in Viewers  BY ClientTyped
<1> HIDE DEF k
<1>5. CASE Want(m, "gesture", None, 0) /\ UNCHANGED <<open, net>>
  <2>1. \A w \in Managers, l \in {"gesture", "end"} :
           want'[w][l] = IF w = m /\ l = "gesture" THEN None ELSE want[w][l]
    BY <1>5, ClientTyped, WantAt
  <2>2. Aim'  BY <1>1, <1>5, <2>1, AimKept DEF InOrder
  <2>3. faults' <= 1 => Traced'  BY <1>1, <1>5 DEF InOrder, Traced, Over, Awaited
  <2>4. faults' = 0 => Alone'  BY <1>1, <1>5 DEF InOrder, Alone
  <2>5. ASSUME faults' <= 1, NEW w \in Managers PROVE InTurn(w)'
    <3>1. InTurn(w)  BY <1>1, <2>5 DEF InOrder
    <3>2. Gestures(w)' = Gestures(w)  BY <1>1 DEF Gestures
    <3>3. want'[w]["gesture"] # None => want'[w]["gesture"] = want[w]["gesture"]  BY <2>1
    <3>4. QED  BY <3>1, <3>2, <3>3, <1>1, <1>5 DEF InTurn
  <2>6. QED  BY <2>2, <2>3, <2>4, <2>5 DEF InOrder
<1>6. CASE Post(m, "gesture", c, k) /\ UNCHANGED <<want, retries>>
  <2> DEFINE a == Asked(c, k)
  <2> HIDE DEF c
  <2>1. /\ \A w \in Viewers, l \in Lanes :
              open'[w][l] = IF w = m /\ l = "gesture" THEN a ELSE open[w][l]
        /\ a # None /\ a.cmd = c /\ a.nth = k /\ a.reply = "pending"
        /\ \A r \in net' : r \in net \/ r = [who |-> m, lane |-> "gesture", cmd |-> c, nth |-> k]
    BY <1>2, <1>3, <1>4, <1>6, ClientTyped, PostAt
  <2> HIDE DEF a
  <2>2. Aim'
    <3>1. \A r \in net' : r \in net \/ Aimed(r.who, r.lane, r.cmd)  BY <1>2, <2>1
    <3>2. \A v \in Viewers, l \in Lanes :
             open'[v][l] # None => \/ open[v][l] # None /\ open'[v][l].cmd = open[v][l].cmd
                                   \/ Aimed(v, l, open'[v][l].cmd)
      BY <1>2, <2>1
    <3>3. QED  BY <1>1, <1>6, <3>1, <3>2, AimKept DEF InOrder
  <2>3. \A w \in Viewers : open'[w]["gesture"] = IF w = m THEN a ELSE open[w]["gesture"]
    BY <1>4, <2>1
  <2>4. /\ \A n \in Nodes : \A i \in 1..Len(jobs[n]) :
              jobs[n][i].lane = "gesture" => jobs[n][i].who \in Viewers
        /\ \A r \in net : r.who \in Viewers
    BY Framed
  <2>5. ASSUME faults' <= 1 PROVE Traced'
    <3>1. Traced  BY <1>1, <2>5 DEF InOrder
    <3>2. \A n \in Nodes : \A i \in 1..Len(jobs[n]) :
             jobs[n][i].lane = "gesture" /\ jobs[n][i].who = m => Over(jobs[n][i].cmd)
      BY <1>1, <3>1 DEF Traced, Awaited
    <3>3. \A r \in net : r.lane = "gesture" /\ r.who = m => Over(r.cmd)
      BY <1>1, <3>1 DEF Traced, Awaited
    <3>4. ASSUME NEW n \in Nodes, NEW i \in 1..Len(jobs[n]), jobs[n][i].lane = "gesture"
          PROVE  \/ Over(jobs[n][i].cmd)
                 \/ jobs[n][i].at # "publish" /\ AwaitedThen(jobs[n][i].who, jobs[n][i].cmd)
      BY <2>3, <2>4, <3>1, <3>2, <3>4 DEF Traced, Awaited, AwaitedThen
    <3>5. ASSUME NEW r \in net', r.lane = "gesture"
          PROVE  \/ Over(r.cmd)
                 \/ AwaitedThen(r.who, r.cmd)
      <4>1. CASE r \in net  BY <4>1, <2>3, <2>4, <3>1, <3>3, <3>5 DEF Traced, Awaited, AwaitedThen
      <4>2. CASE r \notin net  BY <4>2, <1>4, <2>1, <2>3 DEF AwaitedThen
      <4>3. QED  BY <4>1, <4>2
    <3>6. QED  BY <1>1, <3>4, <3>5 DEF Traced, Over, Awaited, AwaitedThen
  <2>6. ASSUME faults' = 0 PROVE Alone'
    <3>1. Alone  BY <1>1, <2>6 DEF InOrder
    <3>2. \A n \in Nodes : \A i \in 1..Len(jobs[n]) :
             jobs[n][i].lane = "gesture" => jobs[n][i].who # m
      BY <1>1, <3>1 DEF Alone, Asks
    <3>3. \A r \in net : r.lane = "gesture" => r.who # m  BY <1>1, <3>1 DEF Alone, Asks
    <3>4. \A n \in Nodes : \A i \in 1..Len(jobs[n]) :
             jobs[n][i].lane = "gesture"
             => Asks(open'[jobs[n][i].who]["gesture"], jobs[n][i].cmd, jobs[n][i].nth)
      BY <2>3, <2>4, <3>1, <3>2 DEF Alone
    <3>5. \A r \in net' : r.lane = "gesture" => Asks(open'[r.who]["gesture"], r.cmd, r.nth)
      <4> SUFFICES ASSUME NEW r \in net', r.lane = "gesture"
                   PROVE  Asks(open'[r.who]["gesture"], r.cmd, r.nth)
        OBVIOUS
      <4>1. CASE r \in net  BY <4>1, <2>3, <2>4, <3>1, <3>3 DEF Alone
      <4>2. CASE r \notin net
        <5>1. r.who = m /\ r.cmd = c /\ r.nth = k  BY <4>2, <2>1
        <5>2. Asks(a, c, k)  BY <2>1 DEF Asks, a
        <5>3. QED  BY <5>1, <5>2, <1>4, <2>3
      <4>3. QED  BY <4>1, <4>2
    <3>6. \A r, s \in net' : r.lane = "gesture" /\ s.lane = "gesture" /\ r.who = s.who => r = s
      BY <2>1, <3>1, <3>3 DEF Alone
    <3>7. \A n \in Nodes : \A i \in 1..Len(jobs[n]) : \A r \in net' :
             jobs[n][i].lane = "gesture" /\ r.lane = "gesture" => jobs[n][i].who # r.who
      BY <2>1, <3>1, <3>2 DEF Alone
    <3>8. \A w \in Managers : open'[w]["gesture"] # None => open'[w]["gesture"].nth % 2 = 1
      <4>1. \A w \in Managers : open[w]["gesture"] # None => open[w]["gesture"].nth % 2 = 1
        BY <3>1 DEF Alone
      <4>2. Managers \subseteq Viewers  BY ClientTyped
      <4>3. a.nth % 2 = 1  BY <1>3, <2>1
      <4>4. QED  BY <2>3, <4>1, <4>2, <4>3
    <3>9. \A n, q \in Nodes : \A i \in 1..Len(jobs[n]) : \A l \in 1..Len(jobs[q]) :
             /\ jobs[n][i].lane = "gesture" /\ jobs[q][l].lane = "gesture"
             /\ jobs[n][i].who = jobs[q][l].who
             => n = q /\ i = l
      BY <3>1 DEF Alone
    <3>10. QED  BY <1>1, <3>4, <3>5, <3>6, <3>7, <3>8, <3>9 DEF Alone
  <2>7. ASSUME faults' <= 1, NEW w \in Managers PROVE InTurn(w)'
    <3>1. InTurn(w)  BY <1>1, <2>7 DEF InOrder
    <3>2. Gestures(w)' = Gestures(w)  BY <1>1 DEF Gestures
    <3>3. open'[w]["gesture"] = IF w = m THEN a ELSE open[w]["gesture"]
      BY <2>3, ClientTyped
    <3>4. CASE w = m
      <4>1. open'[w]["gesture"] = a /\ a.cmd = want[w]["gesture"] /\ want[w]["gesture"] # None
        BY <3>3, <3>4, <2>1, <1>1 DEF c
      <4>2. c.id[2] \in Nat  BY <1>2 DEF Counted, Ids
      <4>3. a.cmd.id[2] <= want[w]["gesture"].id[2]  BY <4>1, <4>2, <2>1
      <4>4. QED  BY <3>1, <3>2, <4>1, <4>3, <1>1, <1>6 DEF InTurn
    <3>5. CASE w # m  BY <3>1, <3>2, <3>3, <3>5, <1>1, <1>6 DEF InTurn
    <3>6. QED  BY <3>4, <3>5
  <2>8. QED  BY <2>2, <2>5, <2>6, <2>7 DEF InOrder
<1>7. QED  BY <1>1, <1>5, <1>6

\* A manager takes the answer to its gesture: of what is still on its way nothing comes.
LEMMA GestureAnsweredInOrder ==
    ASSUME NEW h \in Chronicle, Inv(h), InOrder, NEW m \in Managers, GestureAnswered(m)
    PROVE  InOrder'
<1>1. /\ open[m]["gesture"] # None /\ open[m]["gesture"].reply # "pending"
      /\ Close(m, "gesture") /\ UNCHANGED <<jobs, rec, applied, made, faults, net>>
      /\ \E b \in {want[m]["gesture"], None}, k \in Nat : Want(m, "gesture", b, k)
  <2>1. retries[m]["gesture"] \in Nat  BY ClientTyped DEF MaxRetries
  <2>2. \E b \in {want[m]["gesture"], None}, k \in Nat : Want(m, "gesture", b, k)
    BY <2>1 DEF GestureAnswered
  <2>3. QED  BY <2>2 DEF GestureAnswered, Answered, server
<1>2. PICK b \in {want[m]["gesture"], None} :
         \A w \in Managers, l \in {"gesture", "end"} :
            want'[w][l] = IF w = m /\ l = "gesture" THEN b ELSE want[w][l]
  BY <1>1, ClientTyped, WantAt
<1>3. "gesture" \in Lanes /\ m \in Viewers  BY ClientTyped
<1>4. \A w \in Viewers, l \in Lanes :
         open'[w][l] = IF w = m /\ l = "gesture" THEN None ELSE open[w][l]
  BY <1>1, <1>3, ClientTyped, CloseAt
<1>5. \A w \in Viewers : open'[w]["gesture"] = IF w = m THEN None ELSE open[w]["gesture"]
  BY <1>3, <1>4
<1>6. /\ \A n \in Nodes : \A i \in 1..Len(jobs[n]) :
            jobs[n][i].lane = "gesture" => jobs[n][i].who \in Viewers
      /\ \A r \in net : r.who \in Viewers
  BY Framed
<1>7. Aim'
  <2>1. \A w \in Managers, l \in {"gesture", "end"} :
           want'[w][l] # None => want'[w][l] = want[w][l]
    BY <1>2
  <2>2. \A v \in Viewers, l \in Lanes :
           open'[v][l] # None => open[v][l] # None /\ open'[v][l].cmd = open[v][l].cmd
    BY <1>4
  <2>3. QED  BY <1>1, <2>1, <2>2, AimKept DEF InOrder
<1>8. ASSUME faults' <= 1 PROVE Traced'
  <2>1. Traced  BY <1>1, <1>8 DEF InOrder
  <2>2. \A v \in Viewers : \A c : Awaited(v, c) => open'[v]["gesture"] = open[v]["gesture"]
    BY <1>1, <1>5 DEF Awaited
  <2>3. QED  BY <1>1, <1>6, <2>1, <2>2 DEF Traced, Over, Awaited
<1>9. ASSUME faults' = 0 PROVE Alone'
  <2>1. Alone  BY <1>1, <1>9 DEF InOrder
  <2>2. \A v \in Viewers : \A c, n : Asks(open[v]["gesture"], c, n)
                                 => open'[v]["gesture"] = open[v]["gesture"]
    BY <1>1, <1>5 DEF Asks, Asked
  <2>3. \A n \in Nodes : \A i \in 1..Len(jobs[n]) :
           jobs[n][i].lane = "gesture"
           => Asks(open'[jobs[n][i].who]["gesture"], jobs[n][i].cmd, jobs[n][i].nth)
    BY <1>6, <2>1, <2>2 DEF Alone
  <2>4. \A r \in net : r.lane = "gesture" => Asks(open'[r.who]["gesture"], r.cmd, r.nth)
    BY <1>6, <2>1, <2>2 DEF Alone
  <2>5. \A w \in Managers : open'[w]["gesture"] # None => open'[w]["gesture"].nth % 2 = 1
    <3>1. \A w \in Managers : open'[w]["gesture"] # None => open'[w]["gesture"] = open[w]["gesture"]
      BY <1>5, ClientTyped
    <3>2. \A w \in Managers : open[w]["gesture"] # None => open[w]["gesture"].nth % 2 = 1
      BY <2>1 DEF Alone
    <3>3. QED  BY <3>1, <3>2
  <2>6. QED  BY <1>1, <2>1, <2>3, <2>4, <2>5 DEF Alone
<1>10. ASSUME faults' <= 1, NEW w \in Managers PROVE InTurn(w)'
  <2>1. InTurn(w)  BY <1>1, <1>10 DEF InOrder
  <2>2. Gestures(w)' = Gestures(w)  BY <1>1 DEF Gestures
  <2>3. /\ open'[w]["gesture"] # None => open'[w]["gesture"] = open[w]["gesture"]
        /\ want'[w]["gesture"] # None => want'[w]["gesture"] = want[w]["gesture"]
    BY <1>2, <1>5, ClientTyped
  <2>4. QED  BY <1>1, <2>1, <2>2, <2>3 DEF InTurn
<1>11. QED  BY <1>7, <1>8, <1>9, <1>10 DEF InOrder

\* A connection breaks: the first fault finds a gesture in its first try, which is sent
\* again as it was.
LEMMA TransportFailsInOrder ==
    ASSUME NEW h \in Chronicle, Inv(h), InOrder, NEW v \in Viewers, NEW lane \in Lanes,
           TransportFails(v, lane)
    PROVE  InOrder'
<1> DEFINE r == open[v][lane]
           c == r.cmd
<1>1. /\ r # None /\ r.reply = "pending" /\ faults' = faults + 1
      /\ IF lane \in {"gesture", "end"} /\ r.nth % 2 = 1
         THEN Post(v, lane, c, r.nth + 1)
         ELSE open' = [open EXCEPT ![v][lane].reply = "lost"] /\ UNCHANGED net
      /\ UNCHANGED <<jobs, rec, applied, made, want>>
  BY DEF TransportFails, Mistake, server, history
<1>2. /\ r \in Request /\ c \in Command /\ Counted(c) /\ Aimed(v, lane, c)
      /\ lane \in {"gesture", "end"} => c.type \in Playing
  <2>1. /\ r \in Request /\ Counted(c) /\ Aimed(v, lane, c)
        /\ lane \in {"gesture", "end"} => c.type \in Playing
    BY <1>1, Framed DEF InOrder, Aim
  <2> HIDE DEF r
  <2>2. QED  BY <2>1 DEF Request
<1>3. r.nth \in 1..MaxTries /\ (r.nth % 2 = 1 => r.nth + 1 \in 1..MaxTries)
  <2> HIDE DEF r
  <2>1. r.nth \in 1..4  BY <1>2 DEF Request, MaxTries, MaxRetries
  <2>2. QED  BY <2>1 DEF MaxTries, MaxRetries
<1>4. /\ \A w \in Viewers, l \in Lanes :
            /\ (w = v /\ l = lane) \/ open'[w][l] = open[w][l]
            /\ open'[w][l] # None => open[w][l] # None /\ open'[w][l].cmd = open[w][l].cmd
      /\ \A s \in net' : s \in net \/ (s.who = v /\ s.lane = lane /\ s.cmd = c)
  <2>1. CASE Post(v, lane, c, r.nth + 1) /\ r.nth % 2 = 1
    <3> DEFINE k == r.nth + 1
    <3>1. k \in 1..MaxTries /\ c \in Command  BY <2>1, <1>2, <1>3
    <3>2. Post(v, lane, c, k) /\ open[v][lane] # None /\ open[v][lane].cmd = c  BY <1>1, <2>1
    <3> HIDE DEF k, r, c
    <3>3. /\ \A w \in Viewers, l \in Lanes :
                open'[w][l] = IF w = v /\ l = lane THEN Asked(c, k) ELSE open[w][l]
          /\ Asked(c, k).cmd = c
          /\ \A s \in net' : s \in net \/ s = [who |-> v, lane |-> lane, cmd |-> c, nth |-> k]
      BY <3>1, <3>2, ClientTyped, PostAt
    <3>4. QED  BY <3>2, <3>3
  <2>2. CASE open' = [open EXCEPT ![v][lane].reply = "lost"] /\ UNCHANGED net
    <3> DEFINE a == [r EXCEPT !.reply = "lost"]
    <3>1. open' = [open EXCEPT ![v][lane] = a]  BY <2>2
    <3> HIDE DEF r
    <3>2. a.cmd = r.cmd  BY <1>2 DEF Request
    <3> HIDE DEF a
    <3>3. \A w \in Viewers, l \in Lanes :
             open'[w][l] = IF w = v /\ l = lane THEN a ELSE open[w][l]
      BY <3>1, ClientTyped
    <3>4. QED  BY <1>1, <2>2, <3>2, <3>3 DEF r
  <2>3. QED  BY <1>1, <2>1, <2>2
<1> HIDE DEF c
<1>5. Aim'
  <2>1. \A s \in net' : s \in net \/ Aimed(s.who, s.lane, s.cmd)  BY <1>2, <1>4
  <2>2. QED  BY <1>1, <1>4, <2>1, AimKept DEF InOrder
<1>6. faults \in Nat  BY ClientTyped
<1>7. CASE lane # "gesture"
  <2>1. \A w \in Viewers : open'[w]["gesture"] = open[w]["gesture"]  BY <1>4, <1>7, ClientTyped
  <2>2. \A s \in net' : s.lane = "gesture" => s \in net  BY <1>4, <1>7
  <2>3. \A m \in Managers : made'[m] \in Nat /\ made'[m] >= made[m]  BY <1>1, ClientTyped
  <2>4. QED  BY <1>1, <1>5, <2>1, <2>2, <2>3, OtherLane
<1>8. CASE lane = "gesture" /\ faults' <= 1
  <2>1. faults = 0  BY <1>1, <1>6, <1>8
  <2>2. v \in Managers  BY <1>2, <1>8 DEF Counted, Aimed, Ids
  <2>3. r.nth % 2 = 1  BY <1>1, <1>8, <2>1, <2>2 DEF InOrder, Alone
  <2>4. AwaitedThen(v, c) /\ \A s \in net' : s \in net \/ (s.who = v /\ s.cmd = c)
    <3> DEFINE k == r.nth + 1
    <3>1. Post(v, lane, c, k) /\ k \in 1..MaxTries  BY <1>1, <1>3, <1>8, <2>3 DEF c
    <3> HIDE DEF k
    <3>2. /\ open'[v][lane] = Asked(c, k)
          /\ Asked(c, k) # None /\ Asked(c, k).cmd = c /\ Asked(c, k).reply = "pending"
      BY <3>1, <1>2, ClientTyped, PostAt
    <3>3. QED  BY <3>2, <1>4, <1>8 DEF AwaitedThen
  <2>5. /\ \A n \in Nodes : \A i \in 1..Len(jobs[n]) :
              jobs[n][i].lane = "gesture" => jobs[n][i].who \in Viewers
        /\ \A s \in net : s.who \in Viewers
    BY Framed
  <2>6. ASSUME NEW w \in Viewers, NEW b, Awaited(w, b) PROVE AwaitedThen(w, b)
    <3>1. CASE w = v
      <4>1. b = c  BY <2>6, <3>1, <1>8 DEF Awaited, c
      <4>2. QED  BY <4>1, <3>1, <2>4
    <3>2. CASE w # v  BY <2>6, <3>2, <1>4, ClientTyped DEF Awaited, AwaitedThen
    <3>3. QED  BY <3>1, <3>2
  <2>7. Traced'
    <3>1. Traced  BY <2>1 DEF InOrder
    <3>2. \A b : Over(b)' <=> Over(b)  BY <1>1 DEF Over
    <3>3. ASSUME NEW n \in Nodes, NEW i \in 1..Len(jobs[n]), jobs[n][i].lane = "gesture"
          PROVE  \/ Over(jobs[n][i].cmd)
                 \/ jobs[n][i].at # "publish" /\ AwaitedThen(jobs[n][i].who, jobs[n][i].cmd)
      <4> DEFINE j == jobs[n][i]
      <4>1. Over(j.cmd) \/ (j.at # "publish" /\ Awaited(j.who, j.cmd))  BY <3>1, <3>3 DEF Traced
      <4>2. j.who \in Viewers  BY <2>5, <3>3
      <4> HIDE DEF j
      <4>3. Over(j.cmd) \/ (j.at # "publish" /\ AwaitedThen(j.who, j.cmd))  BY <4>1, <4>2, <2>6
      <4>4. QED  BY <4>3 DEF j
    <3>4. ASSUME NEW s \in net', s.lane = "gesture" PROVE Over(s.cmd) \/ AwaitedThen(s.who, s.cmd)
      <4>1. CASE s \in net
        <5>1. Over(s.cmd) \/ Awaited(s.who, s.cmd)  BY <3>1, <3>4, <4>1 DEF Traced
        <5>2. s.who \in Viewers  BY <2>5, <4>1
        <5>3. QED  BY <5>1, <5>2, <2>6
      <4>2. CASE s \notin net  BY <4>2, <2>4
      <4>3. QED  BY <4>1, <4>2
    <3>5. QED  BY <1>1, <3>3, <3>4 DEF Traced, Over, Awaited, AwaitedThen
  <2>8. ASSUME NEW m \in Managers PROVE InTurn(m)'
    <3>1. InTurn(m)  BY <2>1 DEF InOrder
    <3>2. Gestures(m)' = Gestures(m)  BY <1>1 DEF Gestures
    <3>3. open'[m]["gesture"] # None => /\ open[m]["gesture"] # None
                                        /\ open'[m]["gesture"].cmd = open[m]["gesture"].cmd
      BY <1>4, ClientTyped
    <3>4. QED  BY <3>1, <3>2, <3>3, <1>1 DEF InTurn
  <2>9. faults' # 0  BY <1>1, <1>6
  <2>10. QED  BY <1>5, <2>7, <2>8, <2>9 DEF InOrder
<1>9. CASE faults' > 1  BY <1>1, <1>5, <1>6, <1>9 DEF InOrder
<1>10. faults' <= 1 \/ faults' > 1  BY <1>1, <1>6
<1>11. QED  BY <1>7, <1>8, <1>9, <1>10

\* A request reaches an instance.
LEMMA ArriveInOrder ==
    ASSUME NEW h \in Chronicle, Inv(h), InOrder, NEW r \in net, NEW n \in Nodes, Arrive(r, n)
    PROVE  InOrder'
<1> DEFINE b == NewJob(r.cmd, r.who, r.lane, r.nth)
<1>1. /\ net' = net \ {r} /\ jobs' = [jobs EXCEPT ![n] = Append(@, b)]
      /\ UNCHANGED <<rec, applied, open, want, made, faults>>
  BY DEF Arrive, history
<1>2. /\ b.cmd = r.cmd /\ b.who = r.who /\ b.lane = r.lane /\ b.nth = r.nth /\ b.at = "read"
  BY DEF NewJob
<1>3. r.who \in Viewers /\ r.cmd \in Command /\ r.lane \in Lanes /\ r.nth \in Nat
  <2>1. TypeOK  BY Framed
  <2>2. net \subseteq [who : Viewers, lane : Lanes, cmd : Command, nth : 1..MaxTries]
    BY <2>1 DEF TypeOK
  <2>3. QED  BY <2>2
<1>4. b \in Job  BY <1>3, UnconfiguredIs DEF NewJob, Job
<1> HIDE DEF b
<1>5. jobs \in [Nodes -> Seq(Job)]  BY Framed DEF TypeOK
<1>6. \A k \in Nodes : \A i \in 1..Len(jobs'[k]) :
         \/ k = n /\ i = Len(jobs[n]) + 1 /\ jobs'[k][i] = b
         \/ i \in 1..Len(jobs[k]) /\ jobs'[k][i] = jobs[k][i]
  BY <1>1, <1>4, <1>5, AppendAt
<1>7. Aim'
  <2>1. Aim /\ Aimed(r.who, r.lane, r.cmd)  BY DEF InOrder, Aim
  <2>2. \A k \in Nodes : \A i \in 1..Len(jobs'[k]) :
           Aimed(jobs'[k][i].who, jobs'[k][i].lane, jobs'[k][i].cmd)
    <3> SUFFICES ASSUME NEW k \in Nodes, NEW i \in 1..Len(jobs'[k])
                 PROVE  Aimed(jobs'[k][i].who, jobs'[k][i].lane, jobs'[k][i].cmd)
      OBVIOUS
    <3>1. CASE jobs'[k][i] = b  BY <3>1, <2>1, <1>2
    <3>2. CASE i \in 1..Len(jobs[k]) /\ jobs'[k][i] = jobs[k][i]  BY <3>2, <2>1 DEF Aim
    <3>3. QED  BY <3>1, <3>2, <1>6
  <2>3. QED  BY <1>1, <2>1, <2>2 DEF Aim
<1>8. ASSUME faults' <= 1 PROVE Traced'
  <2>1. Traced  BY <1>1, <1>8 DEF InOrder
  <2>2. ASSUME NEW k \in Nodes, NEW i \in 1..Len(jobs'[k]), jobs'[k][i].lane = "gesture"
        PROVE  \/ Over(jobs'[k][i].cmd)
               \/ jobs'[k][i].at # "publish" /\ Awaited(jobs'[k][i].who, jobs'[k][i].cmd)
    <3>1. CASE jobs'[k][i] = b  BY <3>1, <2>1, <2>2, <1>2 DEF Traced
    <3>2. CASE i \in 1..Len(jobs[k]) /\ jobs'[k][i] = jobs[k][i]  BY <3>2, <2>1, <2>2 DEF Traced
    <3>3. QED  BY <3>1, <3>2, <1>6
  <2>3. QED  BY <1>1, <2>1, <2>2 DEF Traced, Over, Awaited
<1>9. ASSUME faults' = 0 PROVE Alone'
  <2>1. Alone  BY <1>1, <1>9 DEF InOrder
  <2> DEFINE Old(k, i) == i \in 1..Len(jobs[k]) /\ jobs'[k][i] = jobs[k][i]
             New(k, i) == k = n /\ i = Len(jobs[n]) + 1 /\ jobs'[k][i] = b
  <2>2. \A k \in Nodes : \A i \in 1..Len(jobs'[k]) : Old(k, i) \/ New(k, i)  BY <1>6
  <2>3. \A k \in Nodes : \A i \in 1..Len(jobs'[k]) :
           Old(k, i) /\ jobs'[k][i].lane = "gesture" /\ r.lane = "gesture" => jobs'[k][i].who # r.who
    BY <2>1 DEF Alone
  <2>4. ASSUME NEW k \in Nodes, NEW i \in 1..Len(jobs'[k]), jobs'[k][i].lane = "gesture"
        PROVE  Asks(open[jobs'[k][i].who]["gesture"], jobs'[k][i].cmd, jobs'[k][i].nth)
    <3>1. CASE New(k, i)  BY <3>1, <2>1, <2>4, <1>2 DEF Alone
    <3>2. CASE Old(k, i)  BY <3>2, <2>1, <2>4 DEF Alone
    <3>3. QED  BY <3>1, <3>2, <2>2
  <2>5. ASSUME NEW k \in Nodes, NEW q \in Nodes, NEW i \in 1..Len(jobs'[k]), NEW l \in 1..Len(jobs'[q]),
               jobs'[k][i].lane = "gesture", jobs'[q][l].lane = "gesture",
               jobs'[k][i].who = jobs'[q][l].who
        PROVE  k = q /\ i = l
    <3>1. CASE Old(k, i) /\ Old(q, l)  BY <3>1, <2>1, <2>5 DEF Alone
    <3>2. CASE New(k, i) /\ New(q, l)  BY <3>2
    <3>3. CASE Old(k, i) /\ New(q, l)  BY <3>3, <2>3, <2>5, <1>2
    <3>4. CASE New(k, i) /\ Old(q, l)  BY <3>4, <2>3, <2>5, <1>2
    <3>5. QED  BY <2>2, <3>1, <3>2, <3>3, <3>4
  <2>6. ASSUME NEW k \in Nodes, NEW i \in 1..Len(jobs'[k]), NEW s \in net',
               jobs'[k][i].lane = "gesture", s.lane = "gesture"
        PROVE  jobs'[k][i].who # s.who
    <3>1. s \in net /\ s # r  BY <1>1
    <3>2. CASE Old(k, i)  BY <3>1, <3>2, <2>1, <2>6 DEF Alone
    <3>3. CASE New(k, i)  BY <3>1, <3>3, <2>1, <2>6, <1>2 DEF Alone
    <3>4. QED  BY <2>2, <3>2, <3>3
  <2>7. net' \subseteq net  BY <1>1
  <2>8. QED  BY <1>1, <2>1, <2>4, <2>5, <2>6, <2>7 DEF Alone
<1>10. ASSUME faults' <= 1, NEW m \in Managers PROVE InTurn(m)'
  <2>1. InTurn(m)  BY <1>1, <1>10 DEF InOrder
  <2>2. Gestures(m)' = Gestures(m)  BY <1>1 DEF Gestures
  <2>3. QED  BY <1>1, <2>1, <2>2 DEF InTurn
<1>11. QED  BY <1>7, <1>8, <1>9, <1>10 DEF InOrder

-----------------------------------------------------------------------------

LEMMA InitInOrder == Init => InOrder
<1> SUFFICES ASSUME Init PROVE InOrder
  OBVIOUS
<1>1. /\ jobs = [n \in Nodes |-> <<>>] /\ net = {} /\ applied = <<>>
      /\ open = [v \in Viewers |-> [l \in Lanes |-> None]]
      /\ want = [m \in Managers |-> [l \in {"gesture", "end"} |-> None]]
  BY DEF Init
<1>2. /\ \A n \in Nodes : \A i \in 1..Len(jobs[n]) : FALSE
      /\ Len(applied) = 0
  BY <1>1
<1>3. "gesture" \in Lanes /\ Managers \subseteq Viewers  BY DEF Lanes, Viewers
<1>4. Aim  BY <1>1, <1>2 DEF Aim
<1>5. Traced  BY <1>1, <1>2 DEF Traced
<1>6. \A m \in Managers : open[m]["gesture"] = None /\ want[m]["gesture"] = None  BY <1>1, <1>3
<1>7. Alone  BY <1>1, <1>2, <1>6 DEF Alone
<1>8. \A m \in Managers : InTurn(m)  BY <1>2, <1>6 DEF InTurn, Gestures
<1>9. QED  BY <1>4, <1>5, <1>7, <1>8 DEF InOrder

LEMMA NextInOrder == IInv /\ InOrder /\ [Next]_vars => InOrder'
<1> SUFFICES ASSUME NEW h \in Chronicle, Inv(h), InOrder, [Next]_vars PROVE InOrder'
  BY DEF IInv
<1>1. ASSUME NEW n \in Nodes, Step(n) \/ HeartbeatDue(n) \/ StoreFails(n) PROVE InOrder'
  <2>1. CASE Step(n)  BY <2>1, StepWorks, WorksInOrder
  <2>2. CASE StoreFails(n)  BY <2>2, StoreFailsWorks, WorksInOrder
  <2>3. CASE HeartbeatDue(n)  BY <2>3, QuietInOrder
  <2>4. QED  BY <1>1, <2>1, <2>2, <2>3
<1>2. ASSUME NEW v \in Viewers,
             \/ Disconnect(v) \/ Fetch(v)
             \/ \E n \in Nodes : Connect(v, n)
             \/ \E lane \in Lanes : TransportFails(v, lane) \/ Arrives(v, lane)
      PROVE  InOrder'
  <2>1. CASE \E lane \in Lanes : Arrives(v, lane)  BY <2>1, ArriveInOrder DEF Arrives
  <2>2. CASE \E lane \in Lanes : TransportFails(v, lane)  BY <2>2, TransportFailsInOrder
  <2>3. CASE Disconnect(v) \/ \E n \in Nodes : Connect(v, n)  BY <2>3, QuietInOrder
  <2>4. CASE Fetch(v)  BY <2>4, LoadInOrder
  <2>5. QED  BY <1>2, <2>1, <2>2, <2>3, <2>4
<1>3. ASSUME NEW m \in Managers,
             \/ Act(m) \/ PlayerEnds(m) \/ Setup(m) \/ \E type \in scene.types : Click(m, type)
      PROVE  InOrder'
  <2>1. CASE Flush(m) \/ GestureAnswered(m)  BY <2>1, FlushInOrder, GestureAnsweredInOrder
  <2>2. CASE PlayerEnds(m) \/ EndRetried(m) \/ EndAnswered(m)  BY <2>2, EndInOrder
  <2>3. CASE \E type \in scene.types : Click(m, type)  BY <2>3, ClickInOrder
  <2>4. CASE Setup(m)
    <3>1. m \in Viewers  BY DEF Viewers
    <3>2. QED  BY <2>4, <3>1, LoadInOrder
  <2>5. QED  BY <1>3, <2>1, <2>2, <2>3, <2>4 DEF Act
<1>4. CASE Receives
  <2>1. PICK v \in Viewers : Deliver(v) \/ Loaded(v, "setup") \/ Loaded(v, "fetch")
    BY <1>4 DEF Receives
  <2>2. QED  BY <2>1, QuietInOrder, LoadInOrder
<1>5. CASE Tick \/ EndSession \/ UNCHANGED vars  BY <1>5, QuietInOrder
<1>6. QED  BY <1>1, <1>2, <1>3, <1>4, <1>5 DEF Next

\* The gestures of a manager take effect in the order they were made, until more than
\* one fault: the next one is not sent before the last is answered, and then no copy of
\* that can take effect any more (the queue of VideoSyncManager.tsx, and
\* processedCommandIds of routes.ts for what was sent twice).
THEOREM GesturesInOrder == Spec => []GestureOrder
<1>1. IInv /\ InOrder => GestureOrder
  <2> SUFFICES ASSUME InOrder, faults <= 1, NEW m \in Managers
               PROVE  \A i, j \in Gestures(m) : i < j => applied[i][2] < applied[j][2]
    BY DEF GestureOrder
  <2>1. InTurn(m)  BY DEF InOrder
  <2>2. QED  BY <2>1 DEF InTurn
<1>2. QED  BY <1>1, InitInOrder, NextInOrder, Inductive, PTL DEF Spec
==============================================================================
