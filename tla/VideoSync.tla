------------------------------ MODULE VideoSync ------------------------------
(***************************************************************************)
(* One video-sync session (src/activities/video-sync/): its record in the  *)
(* session store, the server instances that serve it, the managers that    *)
(* command the playback and the students that follow it.                   *)
(*                                                                         *)
(* Every handler of the server is a job; an instance runs the jobs of a    *)
(* session one after the other (withSessionMutation), and instances share  *)
(* nothing but the record, which updateAtomic changes in one step, and the *)
(* broadcasts through Valkey.  A job awaits the store between its steps.   *)
(* Clients take states from frames on their socket and from the answers to *)
(* their requests, which arrive in any order.                              *)
(***************************************************************************)
EXTENDS VideoSyncState, Sequences

CONSTANTS
    Nodes, Managers, Students,
    Scenes,       \* the situations to start from
    MaxInbox,     \* bound: frames a socket may have waiting when a heartbeat is due
    Gone

Viewers == Managers \cup Students

\* The requests a viewer can have open at the same time, one of each kind: an
\* instructor's gesture, the report that the video ended, the configuration, and
\* the fetch of the session on mount.
Lanes == {"gesture", "end", "setup", "fetch"}

\* Whether the video is configured and playing, its stop and length; the gestures on
\* offer, and how many each manager makes; who may configure, who fetches; who
\* connects, and how often they reconnect; bounds on time and faults; whether the
\* session may end.
Scene == [configured : BOOLEAN, playing : BOOLEAN, stop : Nat \cup {None}, length : Nat,
          types : SUBSET {"play", "pause", "seek"}, clicks : [Managers -> Nat],
          setup : SUBSET Managers, fetch : SUBSET Viewers,
          joins : [Viewers -> Nat], until : Nat, faults : Nat, ends : BOOLEAN]

\* A configured stop lies after the start.
ASSUME ConstantsOK ==
    /\ Scenes \subseteq Scene /\ \A s \in Scenes : s.stop # 0
    /\ MaxInbox \in Nat /\ Tolerance \in Nat

\* A command is named by its manager, the count of those made before it, and its lane.
Ids == Managers \X Nat \X {"gesture", "end"}

\* Somebody has opened the session as its manager; None names nobody, and no command.
ASSUME NamesOK == Managers # {} /\ None \notin Managers \cup Ids

\* Bound: retries of a command that was answered with a failure (3 in the code).
\* Each is sent twice at most.
MaxRetries == 1
MaxTries   == 2 * (MaxRetries + 1)

\* saw (history): the command whose playback a report of an end is about.
Command == [id : Ids \cup {None}, pos : Nat \cup {None}, rev : Nat \cup {None},
            saw : Ids \cup {None},
            type : {"play", "pause", "seek", "end", "config", "fetch",
                    "heartbeat", "snapshot", "leave"}]

\* What is done without a request of a client, and what carries no arguments.
Plain(type) == [id |-> None, type |-> type, pos |-> None, rev |-> None, saw |-> None]

VARIABLES
    scene,
    now,      \* the time, the same on all instances
    rec,      \* the record, or Gone
    jobs,     \* the jobs of each instance, the first one running
    subs,     \* the sockets each instance sends frames to
    timer,    \* instances whose heartbeat timer runs
    beating,  \* instances with a heartbeat in flight
    link,     \* the instance a viewer's socket is connected to, or None
    inbox,    \* the frames on their way to a socket
    view,     \* the state a viewer shows
    ended,    \* managers whose player reached the end of the video
    want,     \* what a manager wants done, for each lane, or None
    open,     \* the request open in a lane, or None
    retries,  \* how often the command of a lane was retried
    net,      \* the requests that have not reached an instance
    made,     \* the commands a manager has made
    joined,   \* the times a viewer has connected
    faults,
    applied,  \* history: the commands that took effect, in order
    confirmed \* history: the commands that were answered with success

server  == <<rec, jobs, subs, timer, beating>>
sockets == <<link, inbox, joined>>
asking  == <<want, open, retries, net, made>>
history == <<applied, confirmed>>
vars    == <<scene, now, server, sockets, view, ended, asking, faults, history>>

States == PlayState(Managers, Ids)

\* done: processedCommandIds (the last 128; the model has fewer commands).
Record == [st : States, done : SUBSET Ids, active : Nat]

\* A job: what it does and for whom, the lane it answers, the attempt (or the
\* connection) it is about, where it stands, the count of sockets it found and the
\* state it has committed or answers with.
Job == [cmd : Command, who : Viewers \cup Nodes, lane : Lanes \cup {None}, nth : Nat,
        at : {"read", "commit", "project", "publish"}, count : Nat, st : States]

\* An open request, and its answer: a state, or the kind of failure.
Request == [cmd : Command, nth : 1..MaxTries,
            reply : {"pending", "state", "refused", "retry", "lost"}, st : States]

\* Nothing wanted is no command, nothing open no request.
ASSUME NoneOK == None \notin Lanes \cup Command \cup Request

TypeOK ==
    /\ scene \in Scenes /\ now \in Nat /\ faults \in Nat
    /\ rec \in Record \cup {Gone}
    /\ jobs \in [Nodes -> Seq(Job)]
    /\ subs \in [Nodes -> SUBSET Viewers]
    /\ timer \subseteq Nodes /\ beating \subseteq Nodes
    /\ link \in [Viewers -> Nodes \cup {None}]
    /\ inbox \in [Viewers -> Seq(States)]
    /\ view \in [Viewers -> States]
    /\ ended \subseteq Managers
    /\ want \in [Managers -> [{"gesture", "end"} -> Command \cup {None}]]
    /\ open \in [Viewers -> [Lanes -> Request \cup {None}]]
    /\ retries \in [Managers -> [{"gesture", "end"} -> 0..MaxRetries]]
    /\ net \subseteq [who : Viewers, lane : Lanes, cmd : Command, nth : 1..MaxTries]
    /\ made \in [Managers -> Nat] /\ joined \in [Viewers -> Nat]
    /\ applied \in Seq(Ids) /\ confirmed \subseteq Ids

Init ==
    /\ scene \in Scenes
    /\ now = 0 /\ faults = 0
    /\ rec = [st |-> IF scene.configured
                     THEN [Configured(Unconfigured, CHOOSE m \in Managers : TRUE, scene.stop, 0)
                              EXCEPT !.playing = scene.playing]
                     ELSE Unconfigured,
              done |-> {}, active |-> 0]
    /\ jobs = [n \in Nodes |-> <<>>] /\ subs = [n \in Nodes |-> {}]
    /\ timer = {} /\ beating = {}
    /\ link = [v \in Viewers |-> None] /\ inbox = [v \in Viewers |-> <<>>]
    /\ view = [v \in Viewers |-> Unconfigured] /\ ended = {}
    /\ want = [m \in Managers |-> [l \in {"gesture", "end"} |-> None]]
    /\ open = [v \in Viewers |-> [l \in Lanes |-> None]]
    /\ retries = [m \in Managers |-> [l \in {"gesture", "end"} |-> 0]]
    /\ net = {}
    /\ made = [m \in Managers |-> 0] /\ joined = [v \in Viewers |-> 0]
    /\ applied = <<>> /\ confirmed = {}
-----------------------------------------------------------------------------
(* The jobs of an instance                                                 *)

Running(n, stage) == jobs[n] # <<>> /\ Head(jobs[n]).at = stage
Types(n, stage, types) == Running(n, stage) /\ Head(jobs[n]).cmd.type \in types

Playing == {"play", "pause", "seek", "end"}

NewJob(c, who, lane, nth) ==
    [cmd |-> c, who |-> who, lane |-> lane, nth |-> nth, at |-> "read", count |-> 0,
     st |-> Unconfigured]
LeaveJob(n) == NewJob(Plain("leave"), n, None, 1)

\* The running job goes on as j, or is done, and the jobs js are put behind the others.
GoOn(n, j)  == jobs' = [jobs EXCEPT ![n] = <<j>> \o Tail(@)]
Done(n, js) == jobs' = [jobs EXCEPT ![n] = Tail(@) \o js]

\* A request that has just been sent, and one with its answer.
Asked(c, nth) == [cmd |-> c, nth |-> nth, reply |-> "pending", st |-> Unconfigured]
Replied(r, kind, st) == [r EXCEPT !.reply = kind, !.st = st]

\* The answer to job j, unless its client has stopped waiting for it.
Reply(j, kind, st) ==
    open' = IF j.lane # None /\ open[j.who][j.lane] = Asked(j.cmd, j.nth)
            THEN [open EXCEPT ![j.who][j.lane] = Replied(@, kind, st)]
            ELSE open
Answer(j, st)  == Reply(j, "state", st)

\* Mutant of Fail: a request whose handler threw is not answered.
Fail_Silent(j, kind) == UNCHANGED open

\* The failure of job j.
Fail(j, kind) == Reply(j, kind, Unconfigured)

Mistake == faults < scene.faults /\ faults' = faults + 1

\* What no step of a job changes.
LeaveClients == UNCHANGED <<scene, now, joined, view, ended, want, retries, net, made>>

\* stopHeartbeat, when the condition holds.
StopHeartbeat(n, condition) ==
    /\ timer' = IF condition THEN timer \ {n} ELSE timer
    /\ beating' = IF condition THEN beating \ {n} ELSE beating

\* The sockets vs of instance n are closed; each queues its own cleanup.
CloseSockets(n, vs) ==
    /\ subs' = [subs EXCEPT ![n] = @ \ vs]
    /\ link' = [v \in Viewers |-> IF v \in vs THEN None ELSE link[v]]
    /\ inbox' = [v \in Viewers |-> IF v \in vs THEN <<>> ELSE inbox[v]]
    /\ Done(n, [k \in 1..Cardinality(vs) |-> LeaveJob(n)])
\* The socket a snapshot is for, unless it has been closed.
OwnSocket(n) == LET j == Head(jobs[n])
                IN  {v \in subs[n] : v = j.who /\ joined[v] = j.nth}

KeepSockets == UNCHANGED <<subs, link, inbox>>

\* A command and the cleanup of a socket count the instance's sockets first.
ReadToCommit(n) ==
    /\ Types(n, "read", Playing \cup {"snapshot", "leave"}) /\ rec # Gone
    /\ GoOn(n, [Head(jobs[n]) EXCEPT !.at = "commit", !.count = Cardinality(subs[n])])
    /\ KeepSockets /\ LeaveClients /\ UNCHANGED <<rec, timer, beating, open, faults, history>>

\* A session is configured once.
ReadConfig(n) ==
    /\ Types(n, "read", {"config"}) /\ rec # Gone
    /\ LET j == Head(jobs[n])
       IN  \/ /\ rec.st.video = None
              /\ GoOn(n, [j EXCEPT !.at = "commit", !.count = Cardinality(subs[n])])
              /\ UNCHANGED open
           \/ rec.st.video # None /\ Fail(j, "refused") /\ Done(n, <<>>)
    /\ KeepSockets /\ LeaveClients /\ UNCHANGED <<rec, timer, beating, faults, history>>

\* A heartbeat and a fetch project the state they read, and store it only when
\* the playback has reached its stop or the count of sockets is another one.
ReadToProject(n) ==
    /\ Types(n, "read", {"heartbeat", "fetch"}) /\ rec # Gone
    /\ LET j == Head(jobs[n])
           st == Settled(rec.st, now)
           stale == Persisted(rec.st, now) # rec.st \/ Cardinality(subs[n]) # rec.active
       IN  /\ j.cmd.type = "heartbeat" => subs[n] # {}
           /\ IF stale
              THEN GoOn(n, [j EXCEPT !.at = "commit", !.count = Cardinality(subs[n])]) /\ UNCHANGED open
              ELSE IF j.cmd.type = "fetch" THEN Answer(j, st) /\ Done(n, <<>>)
                   ELSE GoOn(n, [j EXCEPT !.at = "publish", !.st = st]) /\ UNCHANGED open
    /\ KeepSockets /\ LeaveClients /\ UNCHANGED <<rec, timer, beating, faults, history>>

\* A heartbeat with nobody to send to is the last one.
BeatUnheard(n) ==
    /\ Types(n, "read", {"heartbeat"}) /\ subs[n] = {}
    /\ Done(n, <<>>) /\ StopHeartbeat(n, TRUE)
    /\ KeepSockets /\ LeaveClients /\ UNCHANGED <<rec, open, faults, history>>

\* The session is gone when a job reads it or commits to it.
RequestFindsNone(n) ==
    /\ \E stage \in {"read", "commit"} : Types(n, stage, Playing \cup {"config", "fetch"})
    /\ rec = Gone
    /\ Fail(Head(jobs[n]), "refused") /\ Done(n, <<>>)
    /\ KeepSockets /\ LeaveClients /\ UNCHANGED <<rec, timer, beating, faults, history>>

BeatFindsNone(n) ==
    /\ \E stage \in {"read", "commit"} : Types(n, stage, {"heartbeat"})
    /\ rec = Gone
    /\ Head(jobs[n]).at = "read" => subs[n] # {}
    /\ CloseSockets(n, subs[n]) /\ StopHeartbeat(n, TRUE)
    /\ LeaveClients /\ UNCHANGED <<rec, open, faults, history>>

SnapshotFindsNone(n) ==
    /\ \E stage \in {"read", "commit"} : Types(n, stage, {"snapshot"})
    /\ rec = Gone
    /\ CloseSockets(n, OwnSocket(n))
    /\ LeaveClients /\ UNCHANGED <<rec, timer, beating, open, faults, history>>

LeaveFindsNone(n) ==
    /\ \E stage \in {"read", "commit"} : Types(n, stage, {"leave"})
    /\ rec = Gone
    /\ Done(n, <<>>)
    /\ StopHeartbeat(n, Head(jobs[n]).at = "read" \/ subs[n] = {})
    /\ KeepSockets /\ LeaveClients /\ UNCHANGED <<rec, open, faults, history>>

\* Mutant of Refuses: command ids are not compared.
Refuses_Forgets(r, c) == c.type = "end" /\ ~EndMatches(r.st, c)

\* Command c changes nothing: its id is known, or it reports the end of another playback.
Refuses(r, c) == c.id \in r.done \/ (c.type = "end" /\ ~EndMatches(r.st, c))

\* What the commit of a job makes of the record.
AfterCommand(j) ==
    IF Refuses(rec, j.cmd) THEN rec
    ELSE [st |-> Commanded(rec.st, j.cmd, now), done |-> rec.done \cup {j.cmd.id},
          active |-> j.count]

AfterConfig(j) ==
    IF rec.st.video # None THEN rec
    ELSE [rec EXCEPT !.st = Configured(@, j.who, scene.stop, now), !.active = j.count]

AfterLook(j) == [rec EXCEPT !.st = Persisted(@, now), !.active = j.count]

AfterLeave(j) == [rec EXCEPT !.active = j.count]

After(j) ==
    CASE j.cmd.type \in Playing  -> AfterCommand(j)
      [] j.cmd.type = "config"   -> AfterConfig(j)
      [] j.cmd.type = "leave"    -> AfterLeave(j)
      [] OTHER                   -> AfterLook(j)

\* A duplicate and a late report of an end are answered with the state they found.
CommitCommand(n) ==
    /\ Types(n, "commit", Playing) /\ rec # Gone
    /\ LET j == Head(jobs[n])
           r == AfterCommand(j)
       IN  /\ rec' = r
           /\ \/ /\ Refuses(rec, j.cmd)
                 /\ Answer(j, r.st) /\ Done(n, <<>>) /\ UNCHANGED applied
              \/ /\ ~Refuses(rec, j.cmd)
                 /\ applied' = Append(applied, j.cmd.id)
                 /\ GoOn(n, [j EXCEPT !.at = "publish", !.st = r.st]) /\ UNCHANGED open
    /\ KeepSockets /\ LeaveClients /\ UNCHANGED <<timer, beating, faults, confirmed>>

CommitConfig(n) ==
    /\ Types(n, "commit", {"config"}) /\ rec # Gone
    /\ LET j == Head(jobs[n])
           r == AfterConfig(j)
       IN  /\ rec' = r
           /\ \/ rec.st.video # None /\ Fail(j, "refused") /\ Done(n, <<>>)
              \/ /\ rec.st.video = None
                 /\ GoOn(n, [j EXCEPT !.at = "publish", !.st = r.st]) /\ UNCHANGED open
    /\ KeepSockets /\ LeaveClients /\ UNCHANGED <<timer, beating, faults, history>>

\* A heartbeat and a fetch keep what they have committed,
CommitLook(n) ==
    /\ Types(n, "commit", {"heartbeat", "fetch"}) /\ rec # Gone
    /\ LET r == AfterLook(Head(jobs[n]))
       IN  rec' = r /\ GoOn(n, [Head(jobs[n]) EXCEPT !.at = "project", !.st = r.st])
    /\ KeepSockets /\ LeaveClients /\ UNCHANGED <<timer, beating, open, faults, history>>

\* and project it once more when the store has answered, by the clock of then: the
\* playback may have reached its stop meanwhile, under a revision that does not say so.
Project(n) ==
    /\ Running(n, "project")
    /\ LET j == Head(jobs[n])
           st == Settled(j.st, now)
       IN  \/ /\ j.cmd.type = "heartbeat"
              /\ GoOn(n, [j EXCEPT !.at = "publish", !.st = st]) /\ UNCHANGED open
           \/ j.cmd.type = "fetch" /\ Answer(j, st) /\ Done(n, <<>>)
    /\ KeepSockets /\ LeaveClients /\ UNCHANGED <<rec, timer, beating, faults, history>>

\* A snapshot goes to its own socket only.
CommitSnapshot(n) ==
    /\ Types(n, "commit", {"snapshot"}) /\ rec # Gone
    /\ LET r == AfterLook(Head(jobs[n]))
       IN  /\ rec' = r
           /\ inbox' = [v \in Viewers |->
                           IF v \in OwnSocket(n) THEN Append(inbox[v], r.st) ELSE inbox[v]]
    /\ Done(n, <<>>)
    /\ LeaveClients /\ UNCHANGED <<subs, link, timer, beating, open, faults, history>>

CommitLeave(n) ==
    /\ Types(n, "commit", {"leave"}) /\ rec # Gone
    /\ rec' = AfterLeave(Head(jobs[n]))
    /\ Done(n, <<>>) /\ StopHeartbeat(n, subs[n] = {})
    /\ KeepSockets /\ LeaveClients /\ UNCHANGED <<open, faults, history>>

\* The store fails a job, before it has executed its command or after: a request is
\* answered with 500, a heartbeat is skipped, a socket without its snapshot closed.
StoreFails(n) ==
    /\ Mistake
    /\ LET j == Head(jobs[n])
       IN  /\ \/ /\ \E stage \in {"read", "commit"} : Running(n, stage)
                 /\ UNCHANGED <<rec, applied>>
              \/ /\ Running(n, "commit") /\ rec # Gone
                 /\ rec' = After(j)
                 /\ applied' = IF j.cmd.type \notin Playing \/ Refuses(rec, j.cmd) THEN applied
                               ELSE Append(applied, j.cmd.id)
           /\ IF j.cmd.type = "snapshot" THEN CloseSockets(n, OwnSocket(n))
              ELSE Done(n, <<>>) /\ KeepSockets
           /\ Fail(j, "retry")
           /\ beating' = IF j.cmd.type = "heartbeat" THEN beating \ {n} ELSE beating
    /\ LeaveClients /\ UNCHANGED <<timer, confirmed>>

\* A frame goes to the sockets of every instance that hears the broadcast: all of
\* them, unless a subscription is interrupted or the publisher cannot reach Valkey.
Publish(n) ==
    /\ Running(n, "publish")
    /\ \E hear \in SUBSET Nodes :
          /\ IF hear = Nodes THEN UNCHANGED faults ELSE Mistake
          /\ inbox' = [v \in Viewers |-> IF \E k \in hear : v \in subs[k]
                                         THEN Append(inbox[v], Head(jobs[n]).st) ELSE inbox[v]]
    /\ Answer(Head(jobs[n]), Head(jobs[n]).st)
    /\ Done(n, <<>>)
    /\ beating' = IF Head(jobs[n]).cmd.type = "heartbeat" THEN beating \ {n} ELSE beating
    /\ LeaveClients /\ UNCHANGED <<rec, subs, link, timer, history>>

\* The timer of a heartbeat fires; a tick is skipped while the last one is running.
HeartbeatDue(n) ==
    /\ n \in timer \ beating
    /\ \A v \in Viewers : Len(inbox[v]) < MaxInbox
    /\ beating' = beating \cup {n}
    /\ jobs' = [jobs EXCEPT ![n] = Append(@, NewJob(Plain("heartbeat"), n, None, 1))]
    /\ UNCHANGED <<scene, now, rec, subs, timer, sockets, view, ended, asking, faults, history>>

Step(n) ==
    \/ ReadToCommit(n) \/ ReadConfig(n) \/ ReadToProject(n) \/ BeatUnheard(n)
    \/ RequestFindsNone(n) \/ BeatFindsNone(n) \/ SnapshotFindsNone(n) \/ LeaveFindsNone(n)
    \/ CommitCommand(n) \/ CommitConfig(n) \/ CommitLook(n) \/ Project(n)
    \/ CommitSnapshot(n) \/ CommitLeave(n) \/ Publish(n)
-----------------------------------------------------------------------------
(* The clients                                                             *)

Takes(v, new) == IF v \in Managers THEN ManagerTakes(view[v], new) ELSE Supersedes(view[v], new)

\* Viewer v receives a state; a player that is told to play has not ended.
Receive(v, new) ==
    IF Takes(v, new)
    THEN view' = [view EXCEPT ![v] = new] /\ ended' = IF new.playing THEN ended \ {v} ELSE ended
    ELSE UNCHANGED <<view, ended>>

\* The view after an answer with state new.
Seen(v, new) == IF Takes(v, new) THEN new ELSE view[v]

Deliver(v) ==
    /\ inbox[v] # <<>>
    /\ Receive(v, Head(inbox[v]))
    /\ inbox' = [inbox EXCEPT ![v] = Tail(@)]
    /\ UNCHANGED <<scene, now, server, link, joined, asking, faults, history>>

\* Mutant of Connect: the heartbeat is not started.
Connect_Unserved(v, n) ==
    /\ link[v] = None /\ joined[v] < scene.joins[v]
    /\ joined' = [joined EXCEPT ![v] = @ + 1]
    /\ link' = [link EXCEPT ![v] = n]
    /\ subs' = [subs EXCEPT ![n] = @ \cup {v}]
    /\ jobs' = [jobs EXCEPT ![n] = Append(@, NewJob(Plain("snapshot"), v, None, joined[v] + 1))]
    /\ UNCHANGED <<scene, now, rec, beating, timer, inbox, view, ended, asking, faults, history>>

\* A socket is admitted on a cached record, even of a session that has ended.
Connect(v, n) ==
    /\ link[v] = None /\ joined[v] < scene.joins[v]
    /\ joined' = [joined EXCEPT ![v] = @ + 1]
    /\ link' = [link EXCEPT ![v] = n]
    /\ subs' = [subs EXCEPT ![n] = @ \cup {v}]
    /\ timer' = timer \cup {n}
    /\ jobs' = [jobs EXCEPT ![n] = Append(@, NewJob(Plain("snapshot"), v, None, joined[v] + 1))]
    /\ UNCHANGED <<scene, now, rec, beating, inbox, view, ended, asking, faults, history>>

\* The connection closes, and its instance notices.
Disconnect(v) ==
    /\ link[v] # None /\ joined[v] < scene.joins[v]
    /\ link' = [link EXCEPT ![v] = None]
    /\ inbox' = [inbox EXCEPT ![v] = <<>>]
    /\ subs' = [subs EXCEPT ![link[v]] = @ \ {v}]
    /\ jobs' = [jobs EXCEPT ![link[v]] = Append(@, LeaveJob(link[v]))]
    /\ UNCHANGED <<scene, now, rec, timer, beating, joined, view, ended, asking, faults, history>>

\* Request c leaves viewer v; the n-th time it is sent.
Post(v, lane, c, nth) ==
    /\ open' = [open EXCEPT ![v][lane] = Asked(c, nth)]
    /\ net' = net \cup {[who |-> v, lane |-> lane, cmd |-> c, nth |-> nth]}

\* It reaches an instance, any of those behind the load balancer.
Arrive(r, n) ==
    /\ net' = net \ {r}
    /\ jobs' = [jobs EXCEPT ![n] = Append(@, NewJob(r.cmd, r.who, r.lane, r.nth))]
    /\ UNCHANGED <<scene, now, rec, subs, timer, beating, sockets, view, ended, want, open,
                   retries, made, faults, history>>

\* The connection of a request breaks: it is sent again once, with the same id, if
\* it is a command.  What was sent may still arrive.
TransportFails(v, lane) ==
    /\ open[v][lane] # None /\ open[v][lane].reply = "pending"
    /\ Mistake
    /\ LET r == open[v][lane]
       IN  IF lane \in {"gesture", "end"} /\ r.nth % 2 = 1
           THEN Post(v, lane, r.cmd, r.nth + 1)
           ELSE open' = [open EXCEPT ![v][lane].reply = "lost"] /\ UNCHANGED net
    /\ UNCHANGED <<scene, now, server, sockets, view, ended, want, retries, made, history>>

\* What a manager wants done in a lane, and the number of retries, from now on.
Want(m, lane, c, k) ==
    /\ want' = [want EXCEPT ![m][lane] = c]
    /\ retries' = [retries EXCEPT ![m][lane] = k]

NewCommand(m, type, pos) ==
    [Plain(type) EXCEPT !.id = <<m, made[m], IF type = "end" THEN "end" ELSE "gesture">>,
                        !.pos = pos]

\* Play, Pause and Seek replace a gesture that has not been sent, and wait for one
\* that has.
Click(m, type) ==
    /\ type \in scene.types /\ made[m] < scene.clicks[m] /\ view[m].video # None
    /\ Want(m, "gesture",
            NewCommand(m, type, IF type = "seek" THEN 1
                                ELSE ClickPosition(type, view[m], m \in ended)), 0)
    /\ made' = [made EXCEPT ![m] = @ + 1]
    /\ ended' = IF type = "seek" THEN ended \ {m} ELSE ended
    /\ UNCHANGED <<scene, now, server, sockets, view, open, net, faults, history>>

Flush(m) ==
    LET c == want[m].gesture
    IN  /\ c # None /\ open[m].gesture = None
        /\ \/ /\ Redundant(view[m], c, now)
              /\ Want(m, "gesture", None, 0) /\ UNCHANGED <<open, net>>
           \/ /\ ~Redundant(view[m], c, now)
              /\ Post(m, "gesture", c, 2 * retries[m].gesture + 1)
              /\ UNCHANGED <<want, retries>>
        /\ UNCHANGED <<scene, now, server, sockets, view, ended, made, faults, history>>

Answered(v, lane) == open[v][lane] # None /\ open[v][lane].reply # "pending"
Close(v, lane)    == open' = [open EXCEPT ![v][lane] = None]

\* A gesture is done when the answer shows what it asked for; a failure is retried
\* a few times; a newer gesture is sent in any case.
GestureAnswered(m) ==
    LET r == open[m].gesture
        newer == want[m].gesture # r.cmd
        k == retries[m].gesture
    IN  /\ Answered(m, "gesture")
        /\ \/ /\ r.reply = "state"
              /\ Receive(m, r.st)
              /\ confirmed' = confirmed \cup {r.cmd.id}
              /\ Want(m, "gesture",
                      IF ~newer /\ (r.cmd.type = "seek" \/
                                    (r.cmd.type = "play") = Seen(m, r.st).playing)
                      THEN None ELSE want[m].gesture, 0)
           \/ /\ r.reply = "retry" /\ k < MaxRetries
              /\ Want(m, "gesture", want[m].gesture, k + 1)
              /\ UNCHANGED <<view, ended, confirmed>>
           \/ /\ r.reply \in {"lost", "refused"} \/ (r.reply = "retry" /\ k = MaxRetries)
              /\ Want(m, "gesture", IF newer THEN want[m].gesture ELSE None, 0)
              /\ UNCHANGED <<view, ended, confirmed>>
        /\ Close(m, "gesture")
        /\ UNCHANGED <<scene, now, server, sockets, net, made, faults, applied>>

\* A manager's player reaches the end of the video and reports it, naming the
\* revision it was playing; an older report is no longer waited for.
PlayerEnds(m) ==
    LET c == [NewCommand(m, "end", scene.length) EXCEPT !.rev = view[m].rev, !.saw = view[m].by]
    IN  /\ view[m].playing /\ m \notin ended /\ made[m] < scene.clicks[m]
        /\ Position(view[m], now) >= scene.length
        /\ ended' = ended \cup {m}
        /\ made' = [made EXCEPT ![m] = @ + 1]
        /\ Want(m, "end", c, 0)
        /\ Post(m, "end", c, 1)
        /\ UNCHANGED <<scene, now, server, sockets, view, faults, history>>

\* The report is sent again only while it is about the playback that is shown.
EndRetried(m) ==
    LET c == want[m].end
    IN  /\ c # None /\ open[m].end = None
        /\ \/ /\ m \in ended /\ c.rev = view[m].rev
              /\ Post(m, "end", c, 2 * retries[m].end + 1) /\ UNCHANGED <<want, retries>>
           \/ /\ ~(m \in ended /\ c.rev = view[m].rev)
              /\ Want(m, "end", None, 0) /\ UNCHANGED <<open, net>>
        /\ UNCHANGED <<scene, now, server, sockets, view, ended, made, faults, history>>

EndAnswered(m) ==
    LET r == open[m].end
        k == retries[m].end
    IN  /\ Answered(m, "end")
        /\ IF r.reply = "state" THEN Receive(m, r.st) ELSE UNCHANGED <<view, ended>>
        /\ IF r.reply = "retry" /\ k < MaxRetries THEN Want(m, "end", r.cmd, k + 1)
           ELSE Want(m, "end", None, 0)
        /\ Close(m, "end")
        /\ UNCHANGED <<scene, now, server, sockets, net, made, faults, history>>

\* The configuration, and the fetch of the session when a page opens.
Setup(m) ==
    /\ m \in scene.setup /\ view[m].video = None /\ open[m].setup = None
    /\ Post(m, "setup", Plain("config"), 1)
    /\ UNCHANGED <<scene, now, server, sockets, view, ended, want, retries, made, faults, history>>

Fetch(v) ==
    /\ v \in scene.fetch /\ view[v] = Unconfigured /\ open[v].fetch = None
    /\ Post(v, "fetch", Plain("fetch"), 1)
    /\ UNCHANGED <<scene, now, server, sockets, view, ended, want, retries, made, faults, history>>

Loaded(v, lane) ==
    /\ Answered(v, lane)
    /\ IF open[v][lane].reply = "state" THEN Receive(v, open[v][lane].st)
       ELSE UNCHANGED <<view, ended>>
    /\ Close(v, lane)
    /\ UNCHANGED <<scene, now, server, sockets, want, retries, net, made, faults, history>>

Act(m) == Flush(m) \/ GestureAnswered(m) \/ EndRetried(m) \/ EndAnswered(m)
-----------------------------------------------------------------------------
Tick ==
    /\ now < scene.until /\ now' = now + 1
    /\ UNCHANGED <<scene, server, sockets, view, ended, asking, faults, history>>

\* The session is deleted or expires.
EndSession ==
    /\ scene.ends /\ rec # Gone /\ rec' = Gone
    /\ UNCHANGED <<scene, now, jobs, subs, timer, beating, sockets, view, ended, asking, faults, history>>

Receives == \E v \in Viewers : Deliver(v) \/ Loaded(v, "setup") \/ Loaded(v, "fetch")
Arrives(v, lane) == \E r \in net, n \in Nodes : r.who = v /\ r.lane = lane /\ Arrive(r, n)

Next ==
    \/ \E n \in Nodes : Step(n) \/ HeartbeatDue(n) \/ StoreFails(n)
    \/ \E v \in Viewers : \/ Disconnect(v) \/ Fetch(v)
                          \/ \E n \in Nodes : Connect(v, n)
                          \/ \E lane \in Lanes : TransportFails(v, lane) \/ Arrives(v, lane)
    \/ \E m \in Managers : \/ Act(m) \/ PlayerEnds(m) \/ Setup(m)
                           \/ \E type \in scene.types : Click(m, type)
    \/ Receives \/ Tick \/ EndSession

Spec == Init /\ [][Next]_vars

\* Nobody has to click, connect or end anything; what was begun is carried on.
FairSpec ==
    /\ Spec
    /\ \A n \in Nodes : WF_vars(Step(n)) /\ WF_vars(HeartbeatDue(n))
    /\ \A v \in Viewers : /\ WF_vars(Deliver(v)) /\ WF_vars(Loaded(v, "setup") \/ Loaded(v, "fetch"))
                           /\ \A lane \in Lanes : WF_vars(Arrives(v, lane))
    /\ \A m \in Managers : WF_vars(Act(m))
-----------------------------------------------------------------------------
(* Properties                                                              *)

\* A command takes effect once, however often its request is sent, and wherever it
\* arrives: processedCommandIds is checked where the record is written.
OncePerCommand == \A i, j \in 1..Len(applied) : applied[i] = applied[j] => i = j

\* A report that the video ended stops only the playback its manager was watching:
\* no command took effect in between, on any instance (the revision check of the
\* command route).
EndsStopWhatTheySaw ==
    [][\A n \in Nodes :
          Types(n, "commit", {"end"}) /\ applied' = Append(applied, Head(jobs[n]).cmd.id)
          => rec.st.by = Head(jobs[n]).cmd.saw]_vars

\* What a viewer shows never goes back, whatever order frames and answers arrive
\* in, and a paused playback resumes only by a command (the guard of syncMath.ts).
ViewsGoForward ==
    [][\A v \in Viewers :
          /\ view'[v].rev >= view[v].rev
          /\ view[v].video # None /\ ~view[v].playing /\ view'[v].playing
             => view'[v].by # view[v].by]_vars

\* Of two viewers with the same revision the one with the later time stamp shows what
\* time has made of the other's state: the same command's playback, further on, or
\* stopped at its stop.  So pages that project what they show agree on the position,
\* whatever instance, commit or second projection the states come from.
SameRevisionSamePlayback ==
    \A v, w \in Viewers : view[v].rev = view[w].rev /\ view[v].ts <= view[w].ts
                           => view[w] = Settled(view[v], view[w].ts)

\* Once nothing changes the record any more, every connected viewer comes to show
\* what it says, though broadcasts were lost (the heartbeat).
ViewersCatchUp ==
    <>[](\A v \in Viewers : link[v] # None /\ rec # Gone =>
             view[v].rev = rec.st.rev /\ view[v].playing = rec.st.playing)

\* The gesture a manager waits for took effect, and the playback is another one by
\* now: another command, or its stop, came after it.
Overtaken(m) ==
    /\ rec # Gone
    /\ LET c == want[m].gesture
       IN  /\ \E i \in 1..Len(applied) : applied[i] = c.id
           /\ rec.st.by # c.id \/ Settled(rec.st, now).playing # (c.type = "play")

\* A gesture is done, or given up, some time, unless the playback has moved on from
\* it: by a command of anybody, the report of an end by the manager itself included,
\* or by its stop.  (Then the page may send it for ever; see NoResend.)
GesturesSettle ==
    \A m \in Managers :
        want[m].gesture # None ~> want[m].gesture = None \/ Overtaken(m)

\* The gestures of a manager take effect in the order they were made while at most
\* one request fails or is cut off (the queue of VideoSyncManager.tsx and the ids):
\* with both its tries cut off, a gesture may take effect after the next one, on
\* another instance.  Reports of an end wait for no gesture and may overtake one.
Gestures(m) == {i \in 1..Len(applied) : applied[i][1] = m /\ applied[i][3] = "gesture"}
GestureOrder ==
    faults <= 1 => \A m \in Managers : \A i, j \in Gestures(m) :
                      i < j => applied[i][2] < applied[j][2]

\* A command that was answered with success is not sent again.
NoResend == [][\A r \in net' \ net : r.cmd.id \notin confirmed]_vars
=============================================================================
